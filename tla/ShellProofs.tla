----------------------------- MODULE ShellProofs -----------------------------
(***************************************************************************)
(* The shell waits for what it must, and every program has the descriptors *)
(* its part of the line says: for any lines, any number of processes and   *)
(* pipes, and any number of failing calls.                                 *)
(***************************************************************************)
EXTENDS Shell, WellFoundedInduction, TLAPS

-----------------------------------------------------------------------------
(* The invariant                                                           *)

\* A REDIR becomes an EXEC when its files are open.
Runnable ==
  Commands \cup {[c EXCEPT !.type = "EXEC"] : c \in {x \in Commands : x.type = "REDIR"}}

\* Where a process of a pipe has a left child, and where a right one
LeftHere == {"close", "fork_right", "close_read", "wait_left"}
RightHere == {"close_read", "wait_left", "wait_right"}

ShellPcs == {"prompt", "fork", "wait_any", "wait"}
Childless == {"exec", "run", "fork_left", "left", "right", "exit"}
Pcs == {"none", "zombie"} \cup ShellPcs \cup Childless \cup LeftHere \cup RightHere

Descriptions ==
  {None, TTY} \cup Ends \cup
  UNION {{File(c.in), File(c.out), File(c.err)} : c \in {x \in Commands : x.type = "REDIR"}}

Systems == [fds : [Proc -> [FD -> Descriptions]], data : [Pipe -> Seq({"x"})]]

Processes ==
  [pc : Pcs, cmd : Runnable \cup {None}, parent : Proc \cup {None}, back : BOOLEAN,
   left : Proc \cup {None}, right : Proc \cup {None}, n : {0, 1}, ret : Nat]

TypeInv ==
  /\ o \in Systems /\ self \in [Proc -> Processes]
  /\ line \in Nat /\ status \in Int /\ last \in Nat \cup {Running, NotSimple} /\ failures \in Nat

Others == Proc \ {Shell}

\* Where a process may be: only the shell reads lines, and what is not there has
\* a command to execute
PcInv ==
  /\ self[Shell].pc \in {"none"} \cup ShellPcs
  /\ self[Shell].parent = None /\ self[Shell].right = None /\ ~self[Shell].back
  /\ At(Shell, "none") => self[Shell].left = None
  /\ self[Shell].pc \in {"fork", "wait_any", "wait"} => self[Shell].cmd \in Commands
  /\ \A p \in Others :
       /\ self[p].pc \notin ShellPcs
       /\ Alive(p) => self[p].cmd \in Runnable
       /\ self[p].pc \in {"fork_left"} \cup LeftHere \cup RightHere =>
            self[p].cmd \in Commands /\ self[p].cmd.type = "PIPE"
       /\ At(p, "run") => self[p].cmd.type = "EXEC"

\* A process has a parent that will wait for it, unless it is in the background.
ChildOf(p, h) ==
  /\ self[h].back = self[p].back
  /\ \/ p = self[h].left /\ self[h].pc \in LeftHere
     \/ p = self[h].right /\ self[h].pc \in RightHere
ChildOfShell(p) ==
  /\ p = self[Shell].left /\ self[Shell].pc \in {"wait_any", "wait"}
  /\ self[Shell].cmd.type # "BACK"
ParentInv ==
  \A p \in Others : Exists(p) =>
    /\ self[p].parent \in Proc \ {p}
    /\ self[p].parent = Shell => self[p].back \/ ChildOfShell(p)
    /\ \A h \in Others : self[p].parent = h => ChildOf(p, h)

\* Whom a process of a pipe waits for is its child.
IsChild(c, h) == c \in Others /\ Exists(c) /\ self[c].parent = h
ChildInv ==
  \A h \in Others :
    /\ self[h].pc \in LeftHere => IsChild(self[h].left, h)
    /\ self[h].pc \in RightHere /\ self[h].right # None => IsChild(self[h].right, h)
    /\ self[h].pc \in {"close_read", "wait_right"} => self[h].right # None
    /\ self[h].pc \in (Childless \ {"exit"}) \cup {"close", "fork_right"} => self[h].right = None
    /\ self[h].pc \in Childless \ {"exit"} => self[h].left = None
    /\ self[h].right # None => self[h].left # self[h].right

\* Every process descends from the shell.
Rooted ==
  \A S \in SUBSET {p \in Others : Exists(p)} :
    S # {} => \E p \in S : self[p].parent \notin S

\* What `last' knows of the simple command of the line: it is a child of the shell, or
\* it was reaped and its status is in `status'.
Awaits(c) ==
  /\ c \in Others /\ Exists(c) /\ self[c].parent = Shell
  /\ IF At(c, "zombie") THEN last = self[c].ret ELSE last = Running
StatusInv ==
  LET c == self[Shell].left
      simple == last # NotSimple
  IN /\ At(Shell, "fork") => c = None /\ last \in {Running, NotSimple}
     /\ self[Shell].pc \in {"fork", "wait_any", "wait"} /\ simple =>
          self[Shell].cmd.type \in {"EXEC", "REDIR"}
     /\ self[Shell].pc \in {"wait_any", "wait"} /\ simple => c \in Others
     /\ At(Shell, "wait_any") /\ simple => Awaits(c)
     /\ At(Shell, "wait") /\ simple =>
          \/ Awaits(c)
          \/ ~(Exists(c) /\ self[c].parent = Shell) /\ last # Running /\ status = last
     /\ At(Shell, "prompt") /\ simple => last # Running /\ status = Decoded(last)
     /\ At(Shell, "none") => last # Running

ProcInv == TypeInv /\ PcInv /\ ParentInv /\ ChildInv /\ Rooted /\ StatusInv

-----------------------------------------------------------------------------
\* Which descriptors are open
Reads == {"fork_left", "left", "close", "fork_right", "right", "close_read"}
Writes == {"fork_left", "left", "close"}
OpenAt(p) ==
  /\ \A f \in FD : f < 3 => o.fds[p][f] # None
  /\ self[p].pc \notin {"wait_left", "wait_right", "exit"} =>
       \A f \in FD : f >= 3 => (o.fds[p][f] # None <=> \/ f = READ /\ self[p].pc \in Reads
                                                       \/ f = WRITE /\ self[p].pc \in Writes)
  /\ self[p].pc \in Reads => \E k \in Pipe :
       o.fds[p][READ] = RdEnd(k) /\ (self[p].pc \in Writes => o.fds[p][WRITE] = WrEnd(k))
OpenInv ==
  /\ Alive(Shell) => o.fds[Shell] = [f \in FD |-> IF f < 3 THEN TTY ELSE None]
  /\ \A p \in Others : Alive(p) => OpenAt(p)

Opened(p) == self[p].cmd.type = "EXEC"
OwnIn(p) == ~(Opened(p) /\ self[p].cmd.in # None)
OwnOut(p) == ~(Opened(p) /\ self[p].cmd.out # None)
ReadsPipe(p) == self[p].parent # Shell /\ p = self[self[p].parent].right
WritesPipe(p) == self[p].parent # Shell /\ p = self[self[p].parent].left

\* What a process has or is about to have as its standard input, and output
In(p) == o.fds[p][IF At(p, "right") THEN READ ELSE 0]
Out(p) == o.fds[p][IF At(p, "left") THEN WRITE ELSE 1]
InAt(p) ==
  IF ~OwnIn(p) THEN o.fds[p][0] = File(self[p].cmd.in)
  ELSE IF ReadsPipe(p) THEN \E k \in Pipe : In(p) = RdEnd(k)
  ELSE o.fds[p][0] = IF self[p].parent = Shell THEN TTY ELSE o.fds[self[p].parent][0]
OutAt(p) ==
  IF ~OwnOut(p) THEN o.fds[p][1] = File(self[p].cmd.out)
  ELSE IF WritesPipe(p) THEN \E k \in Pipe : Out(p) = WrEnd(k)
  ELSE o.fds[p][1] = IF self[p].parent = Shell THEN TTY ELSE o.fds[self[p].parent][1]
ErrAt(p) ==
  o.fds[p][2] = IF Opened(p) /\ self[p].cmd.err = "&1" THEN o.fds[p][1]
                ELSE IF Opened(p) /\ self[p].cmd.err # None THEN File(self[p].cmd.err) ELSE TTY
SideAt(p) ==
  /\ At(p, "right") => ReadsPipe(p)
  /\ At(p, "left") => WritesPipe(p)
  /\ self[p].pc \in {"left", "right"} => self[p].cmd \in Commands
StandardInv == \A p \in Others : Alive(p) => SideAt(p) /\ InAt(p) /\ OutAt(p) /\ ErrAt(p)

\* The children of h have the two ends of the pipe k, which h holds open to read until
\* both are there.
SamePipe(p, h, k) ==
  /\ Out(p) = WrEnd(k)
  /\ self[h].pc \in Reads => o.fds[h][READ] = RdEnd(k)
  /\ \A q \in Others :
       Alive(q) /\ self[q].parent = h /\ q = self[h].right /\ OwnIn(q) => In(q) = RdEnd(k)
PipeInv ==
  \A p \in Others : Alive(p) /\ WritesPipe(p) /\ OwnOut(p) =>
    \E k \in Pipe : SamePipe(p, self[p].parent, k)

ShellInv == ProcInv /\ OpenInv /\ StandardInv /\ PipeInv

-----------------------------------------------------------------------------
(* Numbers, commands and processes                                         *)

LEMMA LeastIn ==
  ASSUME NEW S \in SUBSET Nat, S # {}
  PROVE Least(S) \in S /\ \A y \in S : Least(S) =< y
<1> DEFINE R == {ss \in Nat \X Nat : ss[1] < ss[2]}
<1>1. IsWellFoundedOn(R, Nat)
  BY NatLessThanWellFounded DEF OpToRel
<1>2. \A x, y \in Nat : y < x => <<y, x>> \in R
  OBVIOUS
<1> HIDE DEF R
<1>3. PICK x \in S : \A y \in S : ~ (<<y, x>> \in R)
  BY <1>1, WFMin
<1>4. ASSUME NEW y \in S PROVE x =< y
  <2>1. x \in Nat /\ y \in Nat OBVIOUS
  <2>2. ~(y < x) BY <1>2, <1>3, <2>1
  <2> QED BY <2>1, <2>2
<1> QED BY <1>4 DEF Least

LEMMA NewPidIsNew ==
  ASSUME NewPids # {}
  PROVE NewPid \in Others /\ ~Exists(NewPid)
<1>1. NewPids \in SUBSET Nat BY ShellAssumption DEF NewPids
<1> QED BY <1>1, LeastIn DEF NewPid, NewPids, Others

LEMMA FreePipeIsFree ==
  ASSUME FreePipes # {}
  PROVE FreePipe \in Pipe
<1>1. FreePipes \in SUBSET Nat BY ShellAssumption DEF FreePipes
<1> QED BY <1>1, LeastIn DEF FreePipe, FreePipes

LEMMA Descriptors ==
  /\ 0 \in FD /\ 1 \in FD /\ 2 \in FD /\ READ \in FD /\ WRITE \in FD
  /\ FD \in SUBSET Nat
<1>1. NFD \in Nat /\ NFD >= 5 BY ShellAssumption, PipesAssumption
<1>2. \A f \in 0 .. 4 : f \in 0 .. NFD - 1 BY <1>1
<1>3. 0 .. NFD - 1 \in SUBSET Nat BY <1>1
<1> QED BY <1>2, <1>3 DEF FD, READ, WRITE

\* The parts of a command
LEMMA PartsOfCommands ==
  ASSUME NEW c \in Commands
  PROVE /\ c \in Runnable
        /\ c.type \in {"EXEC", "REDIR", "BACK", "PIPE"}
        /\ c.type = "BACK" => c.c \in Commands /\ c.c.type \in {"EXEC", "REDIR"}
        /\ c.type = "PIPE" => c.left \in Commands /\ c.right \in Commands
        /\ c.type = "EXEC" => c.in = None /\ c.out = None /\ c.err = None
BY CommandAssumption DEF Runnable

LEMMA OpenedCommand ==
  ASSUME NEW c \in Commands, c.type = "REDIR"
  PROVE LET d == [c EXCEPT !.type = "EXEC"]
        IN /\ d \in Runnable /\ d.type = "EXEC"
           /\ d.in = c.in /\ d.out = c.out /\ d.err = c.err
<1>1. c = [type |-> c.type, prog |-> c.prog, in |-> c.in, out |-> c.out, err |-> c.err]
  BY CommandAssumption
<1> QED BY <1>1 DEF Runnable

\* What runs is a command, or one whose files are open.
LEMMA RunnableIs ==
  ASSUME NEW c \in Runnable
  PROVE /\ c.type \in {"EXEC", "REDIR", "BACK", "PIPE"}
        /\ c.type # "EXEC" => c \in Commands
<1>1. CASE c \in Commands
  BY <1>1, PartsOfCommands
<1>2. CASE c \notin Commands
  <2>1. PICK d \in Commands : d.type = "REDIR" /\ c = [d EXCEPT !.type = "EXEC"]
    BY <1>2 DEF Runnable
  <2> QED BY <2>1, OpenedCommand
<1> QED BY <1>1, <1>2

LEMMA ProcessTyped ==
  ASSUME NEW pc \in Pcs, NEW cmd \in Runnable \cup {None}, NEW h \in Proc \cup {None},
         NEW b \in BOOLEAN
  PROVE LET s == Process(pc, cmd, h, b)
        IN /\ s \in Processes
           /\ s.pc = pc /\ s.cmd = cmd /\ s.parent = h /\ s.back = b
           /\ s.left = None /\ s.right = None /\ s.n = 0 /\ s.ret = 0
BY DEF Process, Processes

LEMMA NoProcTyped ==
  /\ NoProc \in Processes /\ NoProc.pc = "none"
  /\ NoProc.left = None /\ NoProc.right = None /\ NoProc.parent = None
<1>1. "none" \in Pcs
  BY DEF Pcs
<1> QED BY <1>1 DEF NoProc, Process, Processes

\* A status is told by wait as a number.
LEMMA StatusTyped ==
  Code(-1) \in Nat /\ Exited(0) \in Nat /\ Exited(1) \in Nat
<1>1. \A n \in Int : n % 256 \in Nat OBVIOUS
<1>2. \A n \in Nat : n * 256 \in Nat OBVIOUS
<1>3. -1 \in Int /\ 0 \in Nat /\ 1 \in Nat OBVIOUS
<1> QED BY <1>1, <1>2, <1>3 DEF Code, Exited

LEMMA DecodedTyped ==
  ASSUME NEW s \in Int
  PROVE Decoded(s) \in Int
BY DEF Decoded

-----------------------------------------------------------------------------
(* The calls of Pipes: what becomes of the descriptors                     *)

LEMMA SystemIs ==
  ASSUME NEW x \in Systems
  PROVE /\ x = [fds |-> x.fds, data |-> x.data]
        /\ x.fds \in [Proc -> [FD -> Descriptions]] /\ x.data \in [Pipe -> Seq({"x"})]
BY DEF Systems

LEMMA NoneDescribed ==
  None \in Descriptions /\ TTY \in Descriptions
BY DEF Descriptions

LEMMA EndsDescribed ==
  ASSUME NEW k \in Pipe
  PROVE /\ RdEnd(k) \in Descriptions /\ WrEnd(k) \in Descriptions
        /\ RdEnd(k) # None /\ WrEnd(k) # None
        /\ RdEnd(k)[2] = k /\ WrEnd(k)[2] = k
<1>1. RdEnd(k) \in Ends /\ WrEnd(k) \in Ends
  BY DEF RdEnd, WrEnd, Ends
<1> QED BY <1>1, NoneAssumption DEF Descriptions, RdEnd, WrEnd

LEMMA CloseDoes ==
  ASSUME NEW x \in Systems, NEW p \in Proc, NEW f \in FD
  PROVE /\ Close(x, p, f) \in Systems
        /\ \A q \in Proc, g \in FD :
             Close(x, p, f).fds[q][g] = IF q = p /\ g = f THEN None ELSE x.fds[q][g]
BY SystemIs, NoneDescribed DEF Close, Systems

LEMMA Dup2Does ==
  ASSUME NEW x \in Systems, NEW p \in Proc, NEW f \in FD, NEW h \in FD
  PROVE /\ Dup2(x, p, f, h) \in Systems
        /\ \A q \in Proc, g \in FD :
             Dup2(x, p, f, h).fds[q][g] = IF q = p /\ g = h THEN x.fds[p][f] ELSE x.fds[q][g]
BY SystemIs DEF Dup2, Systems

LEMMA ForkDoes ==
  ASSUME NEW x \in Systems, NEW p \in Proc, NEW c \in Proc
  PROVE /\ Fork(x, p, c) \in Systems
        /\ \A q \in Proc : Fork(x, p, c).fds[q] = IF q = c THEN x.fds[p] ELSE x.fds[q]
BY SystemIs DEF Fork, Systems

LEMMA CloseAllDoes ==
  ASSUME NEW x \in Systems, NEW p \in Proc
  PROVE /\ CloseAll(x, p) \in Systems
        /\ \A q \in Proc \ {p} : CloseAll(x, p).fds[q] = x.fds[q]
<1>1. NoFds \in [FD -> Descriptions]
  BY NoneDescribed DEF NoFds
<1> QED BY <1>1, SystemIs DEF CloseAll, Systems

\* Of a process that has 0, 1 and 2 the next descriptors are 3 and 4.
LEMMA FreeFdIs ==
  ASSUME NEW x \in Systems, NEW p \in Proc,
         x.fds[p][0] # None, x.fds[p][1] # None, x.fds[p][2] # None, x.fds[p][READ] = None
  PROVE FreeFd(x, p) = READ /\ (x.fds[p][WRITE] = None => FreeFd2(x, p) = WRITE)
<1> DEFINE F == FreeFds(x, p)
<1>1. F \in SUBSET Nat /\ READ \in F /\ 0 \notin F /\ 1 \notin F /\ 2 \notin F
      /\ (x.fds[p][WRITE] = None => WRITE \in F)
  BY Descriptors DEF FreeFds
<1> HIDE DEF F
<1>2. Least(F) \in F /\ \A y \in F : Least(F) =< y
  BY <1>1, LeastIn
<1>3. Least(F) = READ
  <2>1. Least(F) \in Nat /\ Least(F) =< 3 /\ Least(F) \notin {0, 1, 2}
    BY <1>1, <1>2 DEF READ
  <2> QED BY <2>1 DEF READ
<1>4. ASSUME WRITE \in F PROVE Least(F \ {READ}) = WRITE
  <2>1. F \ {READ} \in SUBSET Nat /\ WRITE \in F \ {READ}
    BY <1>1, <1>4 DEF READ, WRITE
  <2>2. Least(F \ {READ}) \in F \ {READ} /\ \A y \in F \ {READ} : Least(F \ {READ}) =< y
    BY <2>1, LeastIn
  <2>3. Least(F \ {READ}) \in Nat /\ Least(F \ {READ}) =< 4 /\ Least(F \ {READ}) \notin {0, 1, 2, 3}
    BY <1>1, <2>1, <2>2 DEF READ, WRITE
  <2> QED BY <2>3 DEF WRITE
<1> QED BY <1>1, <1>3, <1>4 DEF FreeFd, FreeFd2, F

LEMMA OpenDoes ==
  ASSUME NEW x \in Systems, NEW p \in Proc, NEW d \in Descriptions, FreeFd(x, p) = READ
  PROVE /\ Open(x, p, d) \in Systems
        /\ \A q \in Proc, g \in FD :
             Open(x, p, d).fds[q][g] = IF q = p /\ g = READ THEN d ELSE x.fds[q][g]
BY SystemIs, Descriptors DEF Open, Systems

LEMMA PipeCallDoes ==
  ASSUME NEW x \in Systems, NEW p \in Proc, NEW k \in Pipe,
         FreeFd(x, p) = READ, FreeFd2(x, p) = WRITE
  PROVE /\ PipeCall(x, p, k) \in Systems
        /\ \A q \in Proc, g \in FD :
             PipeCall(x, p, k).fds[q][g] = IF q = p /\ g = READ THEN RdEnd(k)
                                           ELSE IF q = p /\ g = WRITE THEN WrEnd(k)
                                           ELSE x.fds[q][g]
<1>1. READ # WRITE BY DEF READ, WRITE
<1>2. <<>> \in Seq({"x"}) OBVIOUS
<1> QED BY <1>1, <1>2, SystemIs, EndsDescribed, Descriptors DEF PipeCall, Systems

LEMMA ItemsDo ==
  ASSUME NEW x \in Systems, NEW p \in Proc, NEW f \in FD, x.fds[p][f] \in Ends
  PROVE /\ Write(x, p, f, "x") \in Systems /\ Write(x, p, f, "x").fds = x.fds
        /\ CanRead(x, p, f) => Read(x, p, f) \in Systems /\ Read(x, p, f).fds = x.fds
<1>1. PipeOf(x, p, f) \in Pipe
  BY DEF PipeOf, Ends
<1> DEFINE k == PipeOf(x, p, f)
<1> HIDE DEF k
<1>2. Append(x.data[k], "x") \in Seq({"x"}) /\ (x.data[k] # <<>> => Tail(x.data[k]) \in Seq({"x"}))
  BY <1>1, SystemIs DEF k
<1> QED BY <1>1, <1>2, SystemIs DEF k, Write, Read, CanRead, Systems

-----------------------------------------------------------------------------
(* What the steps do to the processes                                      *)

LEMMA PcSets ==
  /\ LeftHere \cap Childless = {} /\ RightHere \cap Childless = {}
  /\ (LeftHere \cup RightHere \cup Childless) \cap (ShellPcs \cup {"none", "zombie"}) = {}
  /\ LeftHere \cup RightHere \cup Childless \cup ShellPcs \cup {"none", "zombie"} = Pcs
BY DEF LeftHere, RightHere, Childless, ShellPcs, Pcs

LEMMA SelfTyped ==
  ASSUME TypeInv, NEW q \in Proc
  PROVE /\ self[q] \in Processes
        /\ self[q].pc \in Pcs /\ self[q].cmd \in Runnable \cup {None}
        /\ self[q].parent \in Proc \cup {None} /\ self[q].back \in BOOLEAN
        /\ self[q].left \in Proc \cup {None} /\ self[q].right \in Proc \cup {None}
        /\ self[q].n \in {0, 1} /\ self[q].ret \in Nat
BY DEF TypeInv, Processes

\* s is self[p] with another position
LEMMA GotoIs ==
  ASSUME TypeInv, NEW p \in Proc, NEW pc \in Pcs, Goto(p, pc)
  PROVE \E s \in Processes :
          /\ self' = [self EXCEPT ![p] = s]
          /\ s.pc = pc /\ s.cmd = self[p].cmd /\ s.parent = self[p].parent
          /\ s.back = self[p].back /\ s.left = self[p].left /\ s.right = self[p].right
          /\ s.n = self[p].n /\ s.ret = self[p].ret
<1> DEFINE s == [self[p] EXCEPT !.pc = pc]
<1>1. self' = [self EXCEPT ![p] = s]
  BY DEF Goto, TypeInv
<1>2. s \in Processes
  BY SelfTyped DEF Processes
<1>3. /\ s.pc = pc /\ s.cmd = self[p].cmd /\ s.parent = self[p].parent
      /\ s.back = self[p].back /\ s.left = self[p].left /\ s.right = self[p].right
      /\ s.n = self[p].n /\ s.ret = self[p].ret
  BY SelfTyped DEF Processes
<1> QED BY <1>1, <1>2, <1>3

\* Whoever has a child is there, waiting for it or going to.
LEMMA ParentExists ==
  ASSUME ParentInv, NEW q \in Others, Exists(q), self[q].parent # Shell
  PROVE /\ self[q].parent \in Others
        /\ self[self[q].parent].pc \in LeftHere \cup RightHere
        /\ Alive(self[q].parent)
<1>1. self[q].parent \in Others
  BY DEF ParentInv, Others
<1>2. self[self[q].parent].pc \in LeftHere \cup RightHere
  BY <1>1 DEF ParentInv, ChildOf
<1> QED BY <1>1, <1>2, PcSets DEF Alive, Exists, At

\* p goes on as s: its family stays as it is.
Continues(p, s) ==
  /\ s \in Processes
  /\ s.parent = self[p].parent /\ s.back = self[p].back
  /\ s.left = self[p].left /\ s.right = self[p].right
  /\ s.cmd \in Runnable
  /\ s.pc \in Childless \cup LeftHere \cup RightHere
  /\ s.pc \in {"fork_left"} \cup LeftHere \cup RightHere => s.cmd \in Commands /\ s.cmd.type = "PIPE"
  /\ s.pc = "run" => s.cmd.type = "EXEC"
  /\ s.pc \in LeftHere <=> self[p].pc \in LeftHere
  /\ self[p].pc \in RightHere => s.pc \in RightHere
  /\ s.pc \in RightHere => self[p].pc \in RightHere \/ s.right = None
  /\ s.pc \notin {"close_read", "wait_right"}
  /\ s.pc \in {"close", "fork_right"} => self[p].pc \in {"close", "fork_right"}
  /\ s.pc \in Childless => self[p].pc \in Childless
  /\ s.pc \in Childless \ {"exit"} => self[p].pc \in Childless \ {"exit"}

LEMMA ContinuesOk ==
  ASSUME ProcInv, NEW p \in Others, Alive(p), NEW s, Continues(p, s),
         self' = [self EXCEPT ![p] = s], o' \in Systems, failures' \in Nat,
         UNCHANGED <<line, status, last>>
  PROVE ProcInv'
<1>1. self'[p] = s /\ \A q \in Proc \ {p} : self'[q] = self[q]
  BY DEF ProcInv, TypeInv, Others
<1>2. TypeInv'
  BY DEF ProcInv, TypeInv, Continues
<1>3. s.pc \notin {"none", "zombie"} \cup ShellPcs /\ p # Shell /\ p \in Proc
  BY PcSets DEF Continues, Others
<1>4. \A q \in Proc : (Exists(q)' <=> Exists(q)) /\ (Alive(q)' <=> Alive(q))
  BY <1>1, <1>3 DEF Exists, Alive, At
<1>5. \A q \in Proc : self'[q].parent = self[q].parent /\ self'[q].back = self[q].back
                      /\ self'[q].left = self[q].left /\ self'[q].right = self[q].right
  BY <1>1 DEF Continues
<1>6. PcInv'
  <2>1. self'[Shell] = self[Shell]
    BY <1>1, <1>3, ShellAssumption
  <2>2. ASSUME NEW q \in Others
        PROVE /\ self'[q].pc \notin ShellPcs
              /\ Alive(q)' => self'[q].cmd \in Runnable
              /\ self'[q].pc \in {"fork_left"} \cup LeftHere \cup RightHere =>
                   self'[q].cmd \in Commands /\ self'[q].cmd.type = "PIPE"
              /\ At(q, "run")' => self'[q].cmd.type = "EXEC"
    <3>1. CASE q = p
      BY <3>1, <1>1, <1>3 DEF Continues, At
    <3>2. CASE q # p
      BY <3>2, <1>1, <1>4 DEF ProcInv, PcInv, Others, At
    <3> QED BY <3>1, <3>2
  <2> QED BY <2>1, <2>2 DEF ProcInv, PcInv, At
<1>7. ParentInv'
  <2> SUFFICES ASSUME NEW q \in Others, Exists(q)'
               PROVE /\ self'[q].parent \in Proc \ {q}
                     /\ self'[q].parent = Shell => self'[q].back \/ ChildOfShell(q)'
                     /\ \A h \in Others : self'[q].parent = h => ChildOf(q, h)'
    BY DEF ParentInv
  <2>1. Exists(q) /\ q \in Proc
    BY <1>4 DEF Others
  <2>2. self'[Shell] = self[Shell]
    BY <1>1, <1>3, ShellAssumption
  <2>3. ChildOfShell(q) => ChildOfShell(q)'
    BY <2>2 DEF ChildOfShell
  <2>4. \A h \in Others : ChildOf(q, h) => ChildOf(q, h)'
    <3>1. \A h \in Proc : (self[h].pc \in LeftHere => self'[h].pc \in LeftHere)
                          /\ (self[h].pc \in RightHere => self'[h].pc \in RightHere)
      BY <1>1 DEF Continues
    <3> QED BY <3>1, <2>1, <1>5 DEF ChildOf, Others
  <2> QED BY <2>1, <2>3, <2>4, <1>5 DEF ProcInv, ParentInv
<1>8. ChildInv'
  <2>1. \A c, h \in Proc : IsChild(c, h) => IsChild(c, h)'
    BY <1>4, <1>5 DEF IsChild
  <2>2. ASSUME NEW h \in Others
        PROVE /\ self'[h].pc \in LeftHere => self[h].pc \in LeftHere
              /\ self'[h].pc \in RightHere => self[h].pc \in RightHere \/ self'[h].right = None
              /\ self'[h].pc \in {"close_read", "wait_right"} => self[h].pc \in {"close_read", "wait_right"}
              /\ self'[h].pc \in (Childless \ {"exit"}) \cup {"close", "fork_right"} =>
                   self[h].pc \in (Childless \ {"exit"}) \cup {"close", "fork_right"}
              /\ self'[h].pc \in Childless \ {"exit"} => self[h].pc \in Childless \ {"exit"}
    BY <1>1 DEF Continues, Others
  <2>3. \A h \in Others : self'[h].left = self[h].left /\ self'[h].right = self[h].right
    BY <1>5 DEF Others
  <2>4. ASSUME NEW h \in Others
        PROVE /\ self'[h].pc \in LeftHere => IsChild(self[h].left, h)'
              /\ self'[h].pc \in RightHere /\ self'[h].right # None => IsChild(self[h].right, h)'
    <3>1. self[h].pc \in LeftHere => IsChild(self[h].left, h) /\ self[h].left \in Proc
      BY DEF ProcInv, ChildInv, IsChild, Others
    <3>2. self[h].pc \in RightHere /\ self[h].right # None =>
            IsChild(self[h].right, h) /\ self[h].right \in Proc
      BY DEF ProcInv, ChildInv, IsChild, Others
    <3> QED BY <3>1, <3>2, <2>1, <2>2, <2>3 DEF Others
  <2>5. ASSUME NEW h \in Others
        PROVE /\ self'[h].pc \in {"close_read", "wait_right"} => self'[h].right # None
              /\ self'[h].pc \in (Childless \ {"exit"}) \cup {"close", "fork_right"} => self'[h].right = None
              /\ self'[h].pc \in Childless \ {"exit"} => self'[h].left = None
              /\ self'[h].right # None => self'[h].left # self'[h].right
    BY <2>2, <2>3 DEF ProcInv, ChildInv
  <2> QED BY <2>4, <2>5 DEF ChildInv
<1>9. Rooted'
  BY <1>4, <1>5 DEF ProcInv, Rooted, Others
<1>10. StatusInv'
  <2>1. self'[Shell] = self[Shell]
    BY <1>1, <1>3, ShellAssumption
  <2>2. \A c \in Proc : Awaits(c) => Awaits(c)'
    <3>1. \A c \in Proc : At(c, "zombie")' <=> At(c, "zombie")
      BY <1>4 DEF Exists, Alive, At
    <3>2. \A c \in Proc : At(c, "zombie") => self'[c] = self[c]
      BY <1>1, <1>3 DEF Alive, At
    <3> QED BY <3>1, <3>2, <1>4, <1>5 DEF Awaits
  <2>3. \A c \in Proc : (Exists(c)' /\ self'[c].parent = Shell) => Exists(c) /\ self[c].parent = Shell
    BY <1>4, <1>5
  <2> QED BY <2>1, <2>2, <2>3 DEF ProcInv, StatusInv, At, Others
<1> QED BY <1>2, <1>6, <1>7, <1>8, <1>9, <1>10 DEF ProcInv

\* A process without children ends: it waits for its parent as a zombie, unless that
\* is gone.
LEMMA TerminateIs ==
  ASSUME ProcInv, NEW p \in Others, self[p].pc \in Childless, NEW ret \in Nat,
         Terminate(p, ret)
  PROVE /\ self' \in [Proc -> Processes]
        /\ \A q \in Proc \ {p} : self'[q] = self[q]
        /\ \/ /\ self'[p].pc = "zombie" /\ self'[p].ret = ret
              /\ self'[p].parent = self[p].parent /\ self'[p].back = self[p].back
              /\ self'[p].left = self[p].left /\ self'[p].right = self[p].right
           \/ self'[p] = NoProc /\ self[p].parent = Shell /\ At(Shell, "none")
        /\ o' \in Systems /\ \A q \in Proc \ {p} : o'.fds[q] = o.fds[q]
        /\ UNCHANGED <<line, status>>
<1> DEFINE z == [self[p] EXCEPT !.pc = "zombie", !.ret = ret]
<1>1. p \in Proc /\ p # Shell /\ Exists(p)
  BY PcSets DEF Others, Exists, At
<1>2. /\ z \in Processes /\ z.pc = "zombie" /\ z.ret = ret
      /\ z.parent = self[p].parent /\ z.back = self[p].back
      /\ z.left = self[p].left /\ z.right = self[p].right
  BY <1>1, SelfTyped DEF ProcInv, Processes, Pcs
<1> HIDE DEF z
<1>3. ASSUME NEW q \in Proc \ {p} PROVE ~(self[q].parent = p /\ At(q, "zombie"))
  <2>1. CASE q = Shell
    BY <2>1, <1>1, NoneAssumption DEF ProcInv, PcInv
  <2>2. CASE q # Shell
    <3> SUFFICES ASSUME self[q].parent = p, Exists(q) PROVE FALSE
      BY DEF Exists, At
    <3>1. ChildOf(q, p)
      BY <2>2 DEF ProcInv, ParentInv, Others
    <3> QED BY <3>1, PcSets DEF ChildOf
  <2> QED BY <2>1, <2>2
<1>4. self' = [q \in Proc |-> IF q = p /\ (self[p].parent = None \/ ~Alive(self[p].parent)) THEN NoProc
                              ELSE IF q = p THEN z ELSE self[q]]
  <2>1. self' = [q \in Proc |-> IF q = p /\ (self[p].parent = None \/ ~Alive(self[p].parent)) THEN NoProc
                              ELSE IF q = p THEN z
                              ELSE IF self[q].parent = p /\ At(q, "zombie") THEN NoProc ELSE self[q]]
    BY DEF Terminate, z
  <2> QED BY <2>1, <1>3
<1>5. self[p].parent = None \/ ~Alive(self[p].parent) => self[p].parent = Shell /\ At(Shell, "none")
  <2>1. CASE self[p].parent = Shell
    <3>1. None # Shell /\ self[Shell].pc # "zombie"
      BY ShellAssumption, NoneAssumption DEF ProcInv, PcInv, ShellPcs
    <3> QED BY <2>1, <3>1 DEF Alive, Exists, At
  <2>2. CASE self[p].parent # Shell
    BY <2>2, <1>1, ParentExists, NoneAssumption DEF ProcInv, Others
  <2> QED BY <2>1, <2>2
<1>6. self' \in [Proc -> Processes]
  BY <1>2, <1>4, NoProcTyped DEF ProcInv, TypeInv
<1>7. \A q \in Proc \ {p} : self'[q] = self[q]
  BY <1>4
<1>8. \/ self'[p] = z
      \/ self'[p] = NoProc /\ self[p].parent = Shell /\ At(Shell, "none")
  BY <1>1, <1>4, <1>5
<1>9. o' \in Systems /\ \A q \in Proc \ {p} : o'.fds[q] = o.fds[q]
  BY <1>1, CloseAllDoes DEF Terminate, ProcInv, TypeInv
<1> QED BY <1>2, <1>6, <1>7, <1>8, <1>9 DEF Terminate

LEMMA TerminateOk ==
  ASSUME ProcInv, NEW p \in Others, self[p].pc \in Childless, NEW ret \in Nat,
         Terminate(p, ret), failures' \in Nat
  PROVE ProcInv'
<1>0. /\ self' \in [Proc -> Processes]
      /\ \A q \in Proc \ {p} : self'[q] = self[q]
      /\ \/ /\ self'[p].pc = "zombie" /\ self'[p].ret = ret
            /\ self'[p].parent = self[p].parent /\ self'[p].back = self[p].back
            /\ self'[p].left = self[p].left /\ self'[p].right = self[p].right
         \/ self'[p] = NoProc /\ self[p].parent = Shell /\ At(Shell, "none")
      /\ o' \in Systems
      /\ UNCHANGED <<line, status>>
  BY TerminateIs
<1>1. p \in Proc /\ p # Shell /\ Alive(p) /\ Shell \in Proc /\ self'[Shell] = self[Shell]
  BY <1>0, PcSets, ShellAssumption DEF Others, Alive, Exists, At
<1>2. ASSUME NEW q \in Others, Exists(q)'
      PROVE Exists(q) /\ self'[q].parent = self[q].parent /\ self'[q].back = self[q].back
  <2>1. CASE q = p
    BY <2>1, <1>2, <1>0, <1>1, NoProcTyped DEF Alive, Exists, At
  <2>2. CASE q # p
    BY <2>2, <1>2, <1>0 DEF Others, Exists, At
  <2> QED BY <2>1, <2>2
<1>3. ASSUME NEW q \in Others, self'[q].pc \notin {"none", "zombie"}
      PROVE self'[q] = self[q] /\ q # p
  <2>1. q # p
    BY <1>3, <1>0, NoProcTyped
  <2> QED BY <2>1, <1>0 DEF Others
<1>4. TypeInv'
  <2>1. last' \in Nat \cup {Running, NotSimple}
    BY DEF Terminate, ProcInv, TypeInv
  <2> QED BY <2>1, <1>0 DEF ProcInv, TypeInv
<1>5. PcInv'
  <2>1. ASSUME NEW q \in Others
        PROVE /\ self'[q].pc \notin ShellPcs
              /\ Alive(q)' => self'[q].cmd \in Runnable
              /\ self'[q].pc \in {"fork_left"} \cup LeftHere \cup RightHere =>
                   self'[q].cmd \in Commands /\ self'[q].cmd.type = "PIPE"
              /\ At(q, "run")' => self'[q].cmd.type = "EXEC"
    <3>1. CASE self'[q].pc \in {"none", "zombie"}
      <4>1. ~Alive(q)' /\ ~At(q, "run")' /\ self'[q].pc \notin ShellPcs \cup {"fork_left"} \cup LeftHere \cup RightHere
        BY <3>1 DEF Alive, Exists, At, ShellPcs, LeftHere, RightHere
      <4> QED BY <4>1
    <3>2. CASE self'[q].pc \notin {"none", "zombie"}
      BY <3>2, <1>3 DEF ProcInv, PcInv, Alive, Exists, At
    <3> QED BY <3>1, <3>2
  <2> QED BY <2>1, <1>1 DEF ProcInv, PcInv, At
<1>6. ParentInv'
  <2> SUFFICES ASSUME NEW q \in Others, Exists(q)'
               PROVE /\ self'[q].parent \in Proc \ {q}
                     /\ self'[q].parent = Shell => self'[q].back \/ ChildOfShell(q)'
                     /\ \A h \in Others : self'[q].parent = h => ChildOf(q, h)'
    BY DEF ParentInv
  <2>1. Exists(q) /\ self'[q].parent = self[q].parent /\ self'[q].back = self[q].back
    BY <1>2
  <2>2. ChildOfShell(q) => ChildOfShell(q)'
    BY <1>1 DEF ChildOfShell
  <2>3. ASSUME NEW h \in Others, self[q].parent = h PROVE ChildOf(q, h)'
    <3>1. ChildOf(q, h)
      BY <2>1, <2>3 DEF ProcInv, ParentInv
    <3>2. h # p
      BY <3>1, PcSets DEF ChildOf
    <3>3. self'[h] = self[h]
      BY <3>2, <1>0 DEF Others
    <3> QED BY <3>1, <3>3, <2>1 DEF ChildOf
  <2> QED BY <2>1, <2>2, <2>3 DEF ProcInv, ParentInv
<1>7. ChildInv'
  <2> SUFFICES ASSUME NEW h \in Others
               PROVE /\ self'[h].pc \in LeftHere => IsChild(self[h].left, h)'
                     /\ self'[h].pc \in RightHere /\ self'[h].right # None => IsChild(self[h].right, h)'
                     /\ self'[h].pc \in {"close_read", "wait_right"} => self'[h].right # None
                     /\ self'[h].pc \in (Childless \ {"exit"}) \cup {"close", "fork_right"} => self'[h].right = None
                     /\ self'[h].pc \in Childless \ {"exit"} => self'[h].left = None
                     /\ self'[h].right # None => self'[h].left # self'[h].right
    BY DEF ChildInv
  <2>1. CASE self'[h].pc \in {"none", "zombie"}
    <3>1. self'[h].pc \notin LeftHere \cup RightHere \cup Childless \cup {"close_read", "wait_right", "close", "fork_right"}
      BY <2>1, PcSets
    <3>2. self'[h].right # None => self[h].right # None /\ self'[h].left = self[h].left
                                     /\ self'[h].right = self[h].right
      BY <1>0, NoProcTyped DEF Others
    <3> QED BY <3>1, <3>2 DEF ProcInv, ChildInv
  <2>2. CASE self'[h].pc \notin {"none", "zombie"}
    <3>1. self'[h] = self[h] /\ h # p /\ h \in Proc
      BY <2>2, <1>3 DEF Others
    <3>2. ASSUME NEW c, IsChild(c, h) PROVE self'[c].pc # "none" /\ self'[c].parent = h
      <4>1. c \in Others /\ Exists(c) /\ self[c].parent = h
        BY <3>2 DEF IsChild
      <4>2. h # Shell
        BY DEF Others
      <4> QED BY <4>1, <4>2, <1>0 DEF Others, Exists, At
    <3>3. /\ self[h].pc \in LeftHere => IsChild(self[h].left, h)
          /\ self[h].pc \in RightHere /\ self[h].right # None => IsChild(self[h].right, h)
      BY DEF ProcInv, ChildInv
    <3>4. /\ self'[h].pc \in LeftHere => IsChild(self[h].left, h)'
          /\ self'[h].pc \in RightHere /\ self'[h].right # None => IsChild(self[h].right, h)'
      BY <3>1, <3>2, <3>3 DEF IsChild, Exists, At
    <3>5. /\ self[h].pc \in {"close_read", "wait_right"} => self[h].right # None
          /\ self[h].pc \in (Childless \ {"exit"}) \cup {"close", "fork_right"} => self[h].right = None
          /\ self[h].pc \in Childless \ {"exit"} => self[h].left = None
          /\ self[h].right # None => self[h].left # self[h].right
      BY DEF ProcInv, ChildInv
    <3> QED BY <3>1, <3>4, <3>5
  <2> QED BY <2>1, <2>2
<1>8. Rooted'
  BY <1>2 DEF ProcInv, Rooted
<1>9. StatusInv'
  <2>1. ASSUME NEW c \in Others, c = self[Shell].left, Awaits(c) PROVE Awaits(c)'
    <3>1. CASE c = p
      <4>1. last = Running /\ self[p].parent = Shell
        BY <3>1, <2>1, <1>1 DEF Awaits, Alive
      <4>2. last' = ret
        BY <4>1, <3>1, <2>1 DEF Terminate
      <4>3. ~At(Shell, "none")
        BY <2>1, <1>1, NoneAssumption DEF ProcInv, PcInv, Others
      <4>4. self'[p].pc = "zombie" /\ self'[p].ret = ret /\ self'[p].parent = Shell
        BY <4>1, <4>3, <1>0
      <4> QED BY <4>2, <4>4, <3>1, <2>1, <1>1 DEF Awaits, Exists, At
    <3>2. CASE c # p
      <4>1. last' = last /\ self'[c] = self[c]
        BY <3>2, <2>1, <1>0 DEF Terminate, Others
      <4> QED BY <4>1, <2>1, <1>1 DEF Awaits, Exists, At
    <3> QED BY <3>1, <3>2
  <2>2. last # Running => last' = last
    BY DEF Terminate
  <2>3. last = NotSimple <=> last' = NotSimple
    BY DEF Terminate, Running, NotSimple
  <2>4. self[Shell].left = None => last' = last
    BY <1>1, NoneAssumption DEF Terminate
  <2>5. \A c \in Others : Exists(c)' /\ self'[c].parent = Shell => Exists(c) /\ self[c].parent = Shell
    BY <1>2
  <2>6. status' = status
    BY <1>0
  <2>7. At(Shell, "fork") => self[Shell].left = None /\ last \in {Running, NotSimple}
    BY DEF ProcInv, StatusInv
  <2>8. self[Shell].pc \in {"wait_any", "wait"} /\ last # NotSimple => self[Shell].left \in Others
    BY DEF ProcInv, StatusInv
  <2>9. At(Shell, "wait") /\ last # NotSimple =>
          \/ Awaits(self[Shell].left)
          \/ /\ ~(Exists(self[Shell].left) /\ self[self[Shell].left].parent = Shell)
             /\ last # Running /\ status = last
    BY DEF ProcInv, StatusInv
  <2>10. At(Shell, "wait") /\ last # NotSimple =>
          \/ Awaits(self[Shell].left)'
          \/ /\ ~(Exists(self[Shell].left)' /\ self'[self[Shell].left].parent = Shell)
             /\ last' # Running /\ status' = last'
    <3>1. SUFFICES ASSUME NEW c \in Others, c = self[Shell].left, At(Shell, "wait"), last # NotSimple
                   PROVE \/ Awaits(c)'
                         \/ /\ ~(Exists(c)' /\ self'[c].parent = Shell)
                            /\ last' # Running /\ status' = last'
      BY <1>1, <2>8 DEF At
    <3>2. CASE Awaits(c)
      BY <3>1, <3>2, <2>1
    <3>3. CASE ~(Exists(c) /\ self[c].parent = Shell) /\ last # Running /\ status = last
      BY <3>3, <2>2, <2>5, <2>6
    <3> QED BY <3>1, <3>2, <3>3, <2>9
  <2>11. At(Shell, "wait_any") /\ last # NotSimple => Awaits(self[Shell].left)'
    <3>1. At(Shell, "wait_any") /\ last # NotSimple => Awaits(self[Shell].left)
      BY DEF ProcInv, StatusInv
    <3> QED BY <3>1, <2>1, <1>1, <2>8 DEF At
  <2>12. /\ self[Shell].pc \in {"fork", "wait_any", "wait"} /\ last # NotSimple =>
              self[Shell].cmd.type \in {"EXEC", "REDIR"}
         /\ At(Shell, "prompt") /\ last # NotSimple => last # Running /\ status = Decoded(last)
         /\ At(Shell, "none") => last # Running
    BY DEF ProcInv, StatusInv
  <2> QED BY <2>2, <2>3, <2>4, <2>6, <2>7, <2>8, <2>10, <2>11, <2>12, <1>1 DEF StatusInv, At
<1> QED BY <1>4, <1>5, <1>6, <1>7, <1>8, <1>9 DEF ProcInv

\* A fork leaves a process and its new child: nobody had that number before.
LEMMA NobodyHas ==
  ASSUME ProcInv, NEW c \in Others, ~Exists(c)
  PROVE /\ \A q \in Others : Exists(q) => self[q].parent # c
        /\ \A h \in Others : \A q : IsChild(q, h) => q # c
        /\ \A h \in Others : self[h].pc \in LeftHere => self[h].left # c
        /\ \A h \in Others : self[h].pc \in RightHere => self[h].right # c
<1>1. c # Shell /\ c # None
  BY NoneAssumption DEF Others
<1>2. \A q \in Others : Exists(q) => self[q].parent # c
  BY <1>1, ParentExists DEF ProcInv, Alive
<1>3. \A h \in Others : \A q : IsChild(q, h) => q # c
  BY DEF IsChild
<1>4. \A h \in Others : self[h].pc \in LeftHere => IsChild(self[h].left, h)
  BY DEF ProcInv, ChildInv
<1>5. \A h \in Others : self[h].pc \in RightHere => self[h].right = None \/ IsChild(self[h].right, h)
  BY DEF ProcInv, ChildInv
<1> QED BY <1>1, <1>2, <1>3, <1>4, <1>5

\* Who keeps the shell's child keeps what is known of it.
LEMMA StatusKept ==
  ASSUME StatusInv, self'[Shell] = self[Shell], last' = last, status' = status,
         \A q \in Others : Awaits(q) => Awaits(q)',
         \A q \in Others : Exists(q)' /\ self'[q].parent = Shell => Exists(q) /\ self[q].parent = Shell
  PROVE StatusInv'
<1>1. self[Shell].pc \in {"wait_any", "wait"} /\ last # NotSimple => self[Shell].left \in Others
  BY DEF StatusInv
<1>2. At(Shell, "wait_any") /\ last # NotSimple => Awaits(self[Shell].left)'
  <2>1. At(Shell, "wait_any") /\ last # NotSimple => Awaits(self[Shell].left)
    BY DEF StatusInv
  <2> QED BY <2>1, <1>1 DEF At
<1>3. At(Shell, "wait") /\ last # NotSimple =>
        \/ Awaits(self[Shell].left)'
        \/ /\ ~(Exists(self[Shell].left)' /\ self'[self[Shell].left].parent = Shell)
           /\ last' # Running /\ status' = last'
  <2>1. At(Shell, "wait") /\ last # NotSimple =>
          \/ Awaits(self[Shell].left)
          \/ /\ ~(Exists(self[Shell].left) /\ self[self[Shell].left].parent = Shell)
             /\ last # Running /\ status = last
    BY DEF StatusInv
  <2> QED BY <2>1, <1>1 DEF At
<1>4. /\ At(Shell, "fork") => self[Shell].left = None /\ last \in {Running, NotSimple}
      /\ self[Shell].pc \in {"fork", "wait_any", "wait"} /\ last # NotSimple =>
           self[Shell].cmd.type \in {"EXEC", "REDIR"}
      /\ At(Shell, "prompt") /\ last # NotSimple => last # Running /\ status = Decoded(last)
      /\ At(Shell, "none") => last # Running
  BY DEF StatusInv
<1> QED BY <1>1, <1>2, <1>3, <1>4 DEF StatusInv, At

LEMMA ForkOk ==
  ASSUME ProcInv, NEW p \in Others, NEW c \in Others, ~Exists(c),
         self' \in [Proc -> Processes], \A q \in Proc \ {p, c} : self'[q] = self[q],
         self'[c].pc \in {"left", "right"}, self'[c].cmd \in Commands, self'[c].parent = p,
         self'[c].back = self[p].back, self'[c].left = None, self'[c].right = None,
         self'[p].parent = self[p].parent, self'[p].cmd = self[p].cmd,
         self'[p].back = self[p].back,
         \/ /\ self[p].pc = "fork_left" /\ self'[p].pc = "close"
            /\ self'[p].left = c /\ self'[p].right = self[p].right
         \/ /\ self[p].pc = "fork_right" /\ self'[p].pc = "close_read"
            /\ self'[p].left = self[p].left /\ self'[p].right = c,
         o' \in Systems, failures' \in Nat, UNCHANGED <<line, status, last>>
  PROVE ProcInv'
<1>1. /\ p \in Proc /\ c \in Proc /\ p # Shell /\ c # Shell /\ Shell \in Proc
      /\ self'[Shell] = self[Shell] /\ Alive(p) /\ Alive(p)' /\ Alive(c)' /\ p # c
  BY ShellAssumption DEF Others, Alive, Exists, At
<1>2. /\ \A q \in Others : Exists(q) => self[q].parent # c
      /\ \A h \in Others : \A q : IsChild(q, h) => q # c
      /\ \A h \in Others : self[h].pc \in LeftHere => self[h].left # c
      /\ \A h \in Others : self[h].pc \in RightHere => self[h].right # c
  BY NobodyHas
<1>3. /\ \A q \in Others : q # c => (Exists(q)' <=> Exists(q))
      /\ \A q \in Others : q # c => self'[q].parent = self[q].parent /\ self'[q].back = self[q].back
      /\ \A q \in Others : q # c => (At(q, "zombie")' <=> At(q, "zombie"))
  BY <1>1 DEF Others, Alive, Exists, At
<1>4. TypeInv'
  BY DEF ProcInv, TypeInv
<1>5. PcInv'
  <2>1. ASSUME NEW q \in Others
        PROVE /\ self'[q].pc \notin ShellPcs
              /\ Alive(q)' => self'[q].cmd \in Runnable
              /\ self'[q].pc \in {"fork_left"} \cup LeftHere \cup RightHere =>
                   self'[q].cmd \in Commands /\ self'[q].cmd.type = "PIPE"
              /\ At(q, "run")' => self'[q].cmd.type = "EXEC"
    <3>1. CASE q = p
      <4>1. self[p].cmd \in Commands /\ self[p].cmd.type = "PIPE" /\ self[p].cmd \in Runnable
        BY <1>1 DEF ProcInv, PcInv, LeftHere
      <4> QED BY <3>1, <4>1 DEF ShellPcs, At
    <3>2. CASE q = c
      <4>1. self'[c].pc \notin ShellPcs \cup {"run", "fork_left"} \cup LeftHere \cup RightHere
        BY DEF ShellPcs, LeftHere, RightHere
      <4> QED BY <3>2, <4>1, PartsOfCommands DEF At
    <3>3. CASE q \notin {p, c}
      <4>1. self'[q] = self[q]
        BY <3>3 DEF Others
      <4> QED BY <4>1 DEF ProcInv, PcInv, Alive, Exists, At
    <3> QED BY <3>1, <3>2, <3>3
  <2> QED BY <2>1, <1>1 DEF ProcInv, PcInv, At
<1>6. ParentInv'
  <2> SUFFICES ASSUME NEW q \in Others, Exists(q)'
               PROVE /\ self'[q].parent \in Proc \ {q}
                     /\ self'[q].parent = Shell => self'[q].back \/ ChildOfShell(q)'
                     /\ \A h \in Others : self'[q].parent = h => ChildOf(q, h)'
    BY DEF ParentInv
  <2>1. CASE q = c
    <3>1. ChildOf(c, p)'
      BY DEF ChildOf, LeftHere, RightHere
    <3> QED BY <2>1, <3>1, <1>1
  <2>2. CASE q # c
    <3>1. Exists(q) /\ self'[q].parent = self[q].parent /\ self'[q].back = self[q].back
      BY <1>3, <2>2
    <3>2. ChildOfShell(q) => ChildOfShell(q)'
      BY <1>1 DEF ChildOfShell
    <3>3. ASSUME NEW h \in Others, self[q].parent = h PROVE ChildOf(q, h)'
      <4>1. ChildOf(q, h) /\ h # c
        BY <3>1, <3>3, <1>2 DEF ProcInv, ParentInv
      <4>2. CASE h = p
        BY <4>1, <4>2, <3>1 DEF ChildOf, LeftHere, RightHere
      <4>3. CASE h # p
        <5>1. self'[h] = self[h]
          BY <4>1, <4>3 DEF Others
        <5> QED BY <4>1, <5>1, <3>1 DEF ChildOf
      <4> QED BY <4>2, <4>3
    <3> QED BY <3>1, <3>2, <3>3 DEF ProcInv, ParentInv
  <2> QED BY <2>1, <2>2
<1>7. ChildInv'
  <2>0. \A h \in Others : \A q : IsChild(q, h) => IsChild(q, h)'
    BY <1>2, <1>3 DEF IsChild
  <2> SUFFICES ASSUME NEW h \in Others
               PROVE /\ self'[h].pc \in LeftHere => IsChild(self[h].left, h)'
                     /\ self'[h].pc \in RightHere /\ self'[h].right # None => IsChild(self[h].right, h)'
                     /\ self'[h].pc \in {"close_read", "wait_right"} => self'[h].right # None
                     /\ self'[h].pc \in (Childless \ {"exit"}) \cup {"close", "fork_right"} => self'[h].right = None
                     /\ self'[h].pc \in Childless \ {"exit"} => self'[h].left = None
                     /\ self'[h].right # None => self'[h].left # self'[h].right
    BY DEF ChildInv
  <2>1. CASE h = p
    <3>1. IsChild(c, p)'
      BY <1>1 DEF IsChild, Alive
    <3>2. CASE self[p].pc = "fork_left"
      <4>1. self[p].right = None
        BY <3>2 DEF ProcInv, ChildInv, Childless
      <4>2. self'[p].pc = "close" /\ self'[p].left = c /\ self'[p].right = None
        BY <3>2, <4>1
      <4> QED BY <2>1, <3>1, <4>2 DEF Childless, LeftHere, RightHere, IsChild
    <3>3. CASE self[p].pc = "fork_right"
      <4>1. IsChild(self[p].left, p) /\ self[p].left # c
        BY <3>3, <1>2 DEF ProcInv, ChildInv, LeftHere
      <4>2. self'[p].pc = "close_read" /\ self'[p].left = self[p].left /\ self'[p].right = c
        BY <3>3
      <4>3. c # None
        BY <1>1, NoneAssumption
      <4>4. \A l : IsChild(l, p) => IsChild(l, p)'
        BY <2>0
      <4>5. IsChild(self[p].left, p)'
        BY <4>1, <4>2, <4>4
      <4> QED BY <2>1, <3>1, <4>1, <4>2, <4>3, <4>5 DEF Childless, LeftHere, RightHere, IsChild
    <3> QED BY <3>2, <3>3
  <2>2. CASE h = c
    <3>1. self'[c].pc \notin LeftHere \cup RightHere \cup {"close_read", "wait_right"}
      BY DEF LeftHere, RightHere
    <3> QED BY <2>2, <3>1
  <2>3. CASE h \notin {p, c}
    <3>1. self'[h] = self[h]
      BY <2>3 DEF Others
    <3> QED BY <3>1, <2>0 DEF ProcInv, ChildInv
  <2> QED BY <2>1, <2>2, <2>3
<1>8. Rooted'
  <2> SUFFICES ASSUME NEW S \in SUBSET {q \in Others : Exists(q)'}, S # {}
               PROVE \E q \in S : self'[q].parent \notin S
    BY DEF Rooted
  <2> DEFINE T == S \ {c}
  <2>1. T \in SUBSET {q \in Others : Exists(q)}
    BY <1>3
  <2>2. CASE T = {}
    <3>1. c \in S /\ p \notin S
      BY <2>2, <1>1
    <3> QED BY <3>1
  <2>3. CASE T # {}
    <3>1. PICK q \in T : self[q].parent \notin T
      BY <2>1, <2>3 DEF ProcInv, Rooted
    <3>2. self[q].parent # c /\ self'[q].parent = self[q].parent /\ q \in S
      BY <3>1, <2>1, <1>2, <1>3
    <3> QED BY <3>1, <3>2
  <2> QED BY <2>2, <2>3
<1>9. StatusInv'
  <2>1. \A q \in Others : Awaits(q) => Awaits(q)'
    <3>1. \A q \in Others : Awaits(q) => Exists(q) /\ q # c
      BY DEF Awaits
    <3>2. \A q \in Proc \ {p, c} : Awaits(q) => self'[q] = self[q]
      OBVIOUS
    <3>3. ~At(p, "zombie") /\ ~At(p, "zombie")'
      BY <1>1 DEF Alive
    <3> QED BY <3>1, <3>2, <3>3, <1>1, <1>3 DEF Awaits, Others
  <2>2. \A q \in Others : Exists(q)' /\ self'[q].parent = Shell => Exists(q) /\ self[q].parent = Shell
    BY <1>1, <1>3
  <2> QED BY <2>1, <2>2, <1>1, StatusKept DEF ProcInv
<1> QED BY <1>4, <1>5, <1>6, <1>7, <1>8, <1>9 DEF ProcInv

LEMMA ReapOk ==
  ASSUME ProcInv, NEW p \in Others, NEW c \in Others, p # c, At(c, "zombie"), self[c].parent = p,
         self' \in [Proc -> Processes], \A q \in Proc \ {p, c} : self'[q] = self[q],
         self'[c] = NoProc,
         self'[p].parent = self[p].parent, self'[p].cmd = self[p].cmd,
         self'[p].back = self[p].back, self'[p].left = self[p].left,
         self'[p].right = self[p].right,
         \/ /\ self[p].pc = "wait_left" /\ c = self[p].left
            /\ self'[p].pc = IF self[p].right = None THEN "exit" ELSE "wait_right"
         \/ self[p].pc = "wait_right" /\ c = self[p].right /\ self'[p].pc = "exit",
         UNCHANGED <<o, line, status, last, failures>>
  PROVE ProcInv'
<1>1. /\ p \in Proc /\ c \in Proc /\ p # Shell /\ c # Shell /\ Shell \in Proc
      /\ self'[Shell] = self[Shell] /\ Alive(p) /\ Alive(p)' /\ ~Exists(c)' /\ ~Alive(c)
  BY NoProcTyped, ShellAssumption DEF Others, Alive, Exists, At
<1>2. ASSUME NEW q \in Others, Exists(q)'
      PROVE /\ Exists(q) /\ self'[q].parent = self[q].parent /\ self'[q].back = self[q].back
            /\ q # c /\ self[q].parent # c
  <2>1. q # c
    BY <1>1, <1>2
  <2>2. Exists(q) /\ self'[q].parent = self[q].parent /\ self'[q].back = self[q].back
    BY <2>1, <1>1, <1>2 DEF Others, Alive, Exists, At
  <2>3. self[q].parent # c
    BY <2>2, <1>1, ParentExists DEF ProcInv
  <2> QED BY <2>1, <2>2, <2>3
<1>3. TypeInv'
  BY DEF ProcInv, TypeInv
<1>4. PcInv'
  <2>1. ASSUME NEW q \in Others
        PROVE /\ self'[q].pc \notin ShellPcs
              /\ Alive(q)' => self'[q].cmd \in Runnable
              /\ self'[q].pc \in {"fork_left"} \cup LeftHere \cup RightHere =>
                   self'[q].cmd \in Commands /\ self'[q].cmd.type = "PIPE"
              /\ At(q, "run")' => self'[q].cmd.type = "EXEC"
    <3>1. CASE q = p
      <4>1. self[p].cmd \in Commands /\ self[p].cmd.type = "PIPE" /\ self[p].cmd \in Runnable
        BY <1>1 DEF ProcInv, PcInv, LeftHere, RightHere
      <4> QED BY <3>1, <4>1 DEF ShellPcs, At
    <3>2. CASE q = c
      <4>1. ~Alive(c)' /\ ~At(c, "run")' /\ self'[c].pc \notin ShellPcs \cup {"fork_left"} \cup LeftHere \cup RightHere
        BY NoProcTyped DEF Alive, Exists, At, ShellPcs, LeftHere, RightHere
      <4> QED BY <3>2, <4>1
    <3>3. CASE q \notin {p, c}
      <4>1. self'[q] = self[q]
        BY <3>3 DEF Others
      <4> QED BY <4>1 DEF ProcInv, PcInv, Alive, Exists, At
    <3> QED BY <3>1, <3>2, <3>3
  <2> QED BY <2>1, <1>1 DEF ProcInv, PcInv, At
<1>5. ParentInv'
  <2> SUFFICES ASSUME NEW q \in Others, Exists(q)'
               PROVE /\ self'[q].parent \in Proc \ {q}
                     /\ self'[q].parent = Shell => self'[q].back \/ ChildOfShell(q)'
                     /\ \A h \in Others : self'[q].parent = h => ChildOf(q, h)'
    BY DEF ParentInv
  <2>1. /\ Exists(q) /\ self'[q].parent = self[q].parent /\ self'[q].back = self[q].back
        /\ q # c /\ self[q].parent # c
    BY <1>2
  <2>2. ChildOfShell(q) => ChildOfShell(q)'
    BY <1>1 DEF ChildOfShell
  <2>3. ASSUME NEW h \in Others, self[q].parent = h PROVE ChildOf(q, h)'
    <3>1. ChildOf(q, h) /\ h # c
      BY <2>1, <2>3 DEF ProcInv, ParentInv
    <3>2. CASE h = p
      <4>1. self[p].pc = "wait_left" /\ c = self[p].left /\ q = self[p].right /\ self[p].right # None
        BY <3>1, <3>2, <2>1, NoneAssumption DEF ChildOf, LeftHere, RightHere, Others
      <4>2. self'[p].pc = "wait_right"
        BY <4>1
      <4> QED BY <3>1, <3>2, <4>1, <4>2, <2>1 DEF ChildOf, RightHere
    <3>3. CASE h # p
      <4>1. self'[h] = self[h]
        BY <3>1, <3>3 DEF Others
      <4> QED BY <3>1, <4>1, <2>1 DEF ChildOf
    <3> QED BY <3>2, <3>3
  <2> QED BY <2>1, <2>2, <2>3 DEF ProcInv, ParentInv
<1>6. ChildInv'
  <2>0. \A h \in Others : \A q : IsChild(q, h) /\ q # c => IsChild(q, h)'
    BY <1>1 DEF IsChild, Others, Alive, Exists, At
  <2> SUFFICES ASSUME NEW h \in Others
               PROVE /\ self'[h].pc \in LeftHere => IsChild(self[h].left, h)'
                     /\ self'[h].pc \in RightHere /\ self'[h].right # None => IsChild(self[h].right, h)'
                     /\ self'[h].pc \in {"close_read", "wait_right"} => self'[h].right # None
                     /\ self'[h].pc \in (Childless \ {"exit"}) \cup {"close", "fork_right"} => self'[h].right = None
                     /\ self'[h].pc \in Childless \ {"exit"} => self'[h].left = None
                     /\ self'[h].right # None => self'[h].left # self'[h].right
    BY DEF ChildInv
  <2>1. CASE h = p
    <3>1. self[p].right # None => self[p].left # self[p].right
      BY DEF ProcInv, ChildInv
    <3>2. CASE self'[p].pc = "exit"
      <4>1. self'[p].pc \notin LeftHere \cup RightHere \cup {"close_read", "wait_right"}
            /\ self'[p].pc \notin (Childless \ {"exit"}) \cup {"close", "fork_right"}
        BY <3>2 DEF LeftHere, RightHere
      <4> QED BY <2>1, <3>1, <4>1
    <3>3. CASE self'[p].pc # "exit"
      <4>1. self[p].pc = "wait_left" /\ self'[p].pc = "wait_right" /\ self[p].right # None
            /\ c = self[p].left
        BY <3>3
      <4>2. IsChild(self[p].right, p) /\ self[p].right # c
        BY <4>1, <3>1 DEF ProcInv, ChildInv, RightHere
      <4>3. \A l : IsChild(l, p) /\ l # c => IsChild(l, p)'
        BY <2>0
      <4>4. IsChild(self[p].right, p)'
        BY <4>2, <4>3
      <4> QED BY <2>1, <3>1, <4>1, <4>4 DEF LeftHere, RightHere, Childless
    <3> QED BY <3>2, <3>3
  <2>2. CASE h = c
    <3>1. self'[c].pc \notin LeftHere \cup RightHere \cup {"close_read", "wait_right"} \cup Childless \cup {"close", "fork_right"}
      BY NoProcTyped DEF LeftHere, RightHere, Childless
    <3> QED BY <2>2, <3>1, NoProcTyped
  <2>3. CASE h \notin {p, c}
    <3>1. self'[h] = self[h]
      BY <2>3 DEF Others
    <3>2. \A q : IsChild(q, h) => q # c
      BY <2>3 DEF IsChild
    <3> QED BY <3>1, <3>2, <2>0 DEF ProcInv, ChildInv
  <2> QED BY <2>1, <2>2, <2>3
<1>7. Rooted'
  BY <1>2 DEF ProcInv, Rooted
<1>8. StatusInv'
  <2>1. \A q \in Others : Awaits(q) => Awaits(q)'
    <3>1. \A q \in Others : Awaits(q) => Exists(q) /\ q # c
      BY <1>1 DEF Awaits
    <3>2. \A q \in Proc \ {p, c} : Awaits(q) => self'[q] = self[q]
      OBVIOUS
    <3>3. ~At(p, "zombie") /\ ~At(p, "zombie")' /\ Exists(p)'
      BY <1>1 DEF Alive
    <3> QED BY <3>1, <3>2, <3>3, <1>1 DEF Awaits, Others, Exists, At
  <2>2. \A q \in Others : Exists(q)' /\ self'[q].parent = Shell => Exists(q) /\ self[q].parent = Shell
    BY <1>2
  <2> QED BY <2>1, <2>2, <1>1, StatusKept DEF ProcInv
<1> QED BY <1>3, <1>4, <1>5, <1>6, <1>7, <1>8 DEF ProcInv

\* A step of the shell changes others only by reaping children of its own.
LEMMA OthersKept ==
  ASSUME ProcInv, self' \in [Proc -> Processes],
         \A q \in Others : \/ self'[q] = self[q]
                           \/ At(q, "zombie") /\ self[q].parent = Shell /\ self'[q] = NoProc
  PROVE /\ \A q \in Others : Exists(q)' => Exists(q) /\ self'[q] = self[q]
        /\ \A q \in Others :
             /\ self'[q].pc \notin ShellPcs
             /\ Alive(q)' => self'[q].cmd \in Runnable
             /\ self'[q].pc \in {"fork_left"} \cup LeftHere \cup RightHere =>
                  self'[q].cmd \in Commands /\ self'[q].cmd.type = "PIPE"
             /\ At(q, "run")' => self'[q].cmd.type = "EXEC"
        /\ \A q, h \in Others : Exists(q)' /\ self'[q].parent = h => ChildOf(q, h)'
        /\ ChildInv' /\ Rooted'
<1>1. \A q \in Others : Exists(q)' => Exists(q) /\ self'[q] = self[q]
  BY NoProcTyped DEF Exists, At
<1>2. \A q \in Others : Alive(q) => self'[q] = self[q]
  BY DEF Alive
<1>3. ASSUME NEW q \in Others
      PROVE /\ self'[q].pc \notin ShellPcs
            /\ Alive(q)' => self'[q].cmd \in Runnable
            /\ self'[q].pc \in {"fork_left"} \cup LeftHere \cup RightHere =>
                 self'[q].cmd \in Commands /\ self'[q].cmd.type = "PIPE"
            /\ At(q, "run")' => self'[q].cmd.type = "EXEC"
  <2>1. CASE self'[q] = self[q]
    BY <2>1 DEF ProcInv, PcInv, Alive, Exists, At
  <2>2. CASE self'[q] = NoProc
    <3>1. ~Alive(q)' /\ ~At(q, "run")' /\ self'[q].pc \notin ShellPcs \cup {"fork_left"} \cup LeftHere \cup RightHere
      BY <2>2, NoProcTyped DEF Alive, Exists, At, ShellPcs, LeftHere, RightHere
    <3> QED BY <3>1
  <2> QED BY <2>1, <2>2
<1>4. ASSUME NEW q \in Others, NEW h \in Others, Exists(q)', self'[q].parent = h PROVE ChildOf(q, h)'
  <2>1. Exists(q) /\ self'[q] = self[q] /\ self[q].parent = h /\ h # Shell
    BY <1>1, <1>4 DEF Others
  <2>2. ChildOf(q, h) /\ Alive(h)
    BY <2>1, ParentExists DEF ProcInv, ParentInv
  <2> QED BY <2>1, <2>2, <1>2 DEF ChildOf
<1>5. ChildInv'
  <2> SUFFICES ASSUME NEW h \in Others
               PROVE /\ self'[h].pc \in LeftHere => IsChild(self[h].left, h)'
                     /\ self'[h].pc \in RightHere /\ self'[h].right # None => IsChild(self[h].right, h)'
                     /\ self'[h].pc \in {"close_read", "wait_right"} => self'[h].right # None
                     /\ self'[h].pc \in (Childless \ {"exit"}) \cup {"close", "fork_right"} => self'[h].right = None
                     /\ self'[h].pc \in Childless \ {"exit"} => self'[h].left = None
                     /\ self'[h].right # None => self'[h].left # self'[h].right
    BY DEF ChildInv
  <2>1. CASE self'[h] = self[h]
    <3>1. \A q : IsChild(q, h) => self'[q] = self[q]
      BY DEF IsChild, Others
    <3>2. \A q : IsChild(q, h) => IsChild(q, h)'
      BY <3>1 DEF IsChild, Exists, At
    <3>3. /\ self[h].pc \in LeftHere => IsChild(self[h].left, h)
          /\ self[h].pc \in RightHere /\ self[h].right # None => IsChild(self[h].right, h)
          /\ self[h].pc \in {"close_read", "wait_right"} => self[h].right # None
          /\ self[h].pc \in (Childless \ {"exit"}) \cup {"close", "fork_right"} => self[h].right = None
          /\ self[h].pc \in Childless \ {"exit"} => self[h].left = None
          /\ self[h].right # None => self[h].left # self[h].right
      BY DEF ProcInv, ChildInv
    <3>4. /\ self'[h].pc \in LeftHere => IsChild(self[h].left, h)'
          /\ self'[h].pc \in RightHere /\ self'[h].right # None => IsChild(self[h].right, h)'
      BY <2>1, <3>2, <3>3
    <3> QED BY <2>1, <3>3, <3>4
  <2>2. CASE self'[h] = NoProc
    <3>1. self'[h].pc \notin LeftHere \cup RightHere \cup {"close_read", "wait_right"} \cup Childless \cup {"close", "fork_right"}
      BY <2>2, NoProcTyped DEF LeftHere, RightHere, Childless
    <3> QED BY <2>2, <3>1, NoProcTyped
  <2> QED BY <2>1, <2>2
<1>6. Rooted'
  BY <1>1 DEF ProcInv, Rooted
<1> QED BY <1>1, <1>3, <1>4, <1>5, <1>6

-----------------------------------------------------------------------------
(* The steps of the shell                                                  *)

LEMMA FailsTyped ==
  ASSUME TypeInv, NEW call, ForkFails(call) \/ Fail(call) \/ UNCHANGED failures
  PROVE failures' \in Nat
BY DEF TypeInv, ForkFails, Fail

\* What the shell and its child are after a fork
LEMMA ShellForks ==
  ASSUME ProcInv, At(Shell, "fork"), NewPids # {},
         self' = [self EXCEPT ![NewPid] = Child(Shell, "exec", self[Shell].cmd),
                              ![Shell].left = NewPid, ![Shell].pc = "wait_any"]
  PROVE \E c \in Others, n, w \in Processes :
          /\ c = NewPid /\ ~Exists(c)
          /\ n.pc = "exec" /\ n.cmd = self[Shell].cmd /\ n.parent = Shell
          /\ n.left = None /\ n.right = None /\ n.back = (self[Shell].cmd.type = "BACK")
          /\ w.pc = "wait_any" /\ w.left = c /\ w.cmd = self[Shell].cmd
          /\ w.parent = None /\ w.right = None /\ w.back = FALSE
          /\ self' \in [Proc -> Processes] /\ self'[c] = n /\ self'[Shell] = w
          /\ \A q \in Proc \ {c, Shell} : self'[q] = self[q]
<1>1. /\ Shell \in Proc /\ self[Shell].cmd \in Commands
      /\ self[Shell].parent = None /\ self[Shell].right = None /\ self[Shell].back = FALSE
  <2>1. /\ self[Shell].cmd \in Commands
        /\ self[Shell].parent = None /\ self[Shell].right = None /\ ~self[Shell].back
    BY DEF ProcInv, PcInv, At
  <2>2. Shell \in Proc
    BY ShellAssumption
  <2>3. self[Shell].back \in BOOLEAN
    BY <2>2, SelfTyped DEF ProcInv
  <2> QED BY <2>1, <2>2, <2>3
<1>2. self \in [Proc -> Processes] /\ self[Shell] \in Processes
  BY <1>1 DEF ProcInv, TypeInv
<1>3. PICK c \in Others : c = NewPid /\ ~Exists(c)
  BY NewPidIsNew
<1>4. c \in Proc /\ c # Shell
  BY DEF Others
<1> DEFINE n == Child(Shell, "exec", self[Shell].cmd)
           w == [self[Shell] EXCEPT !.left = c, !.pc = "wait_any"]
<1>5. /\ n \in Processes /\ n.pc = "exec" /\ n.cmd = self[Shell].cmd /\ n.parent = Shell
      /\ n.left = None /\ n.right = None
      /\ n.back = (self[Shell].cmd.type = "BACK")
  <2>1. "exec" \in Pcs /\ self[Shell].cmd \in Runnable /\ Shell \in Proc
    BY <1>1, PartsOfCommands DEF Pcs, Childless
  <2> DEFINE b == (Shell = Shell /\ self[Shell].cmd.type = "BACK") \/ self[Shell].back
  <2>2. b \in BOOLEAN /\ b = (self[Shell].cmd.type = "BACK")
    BY <1>1
  <2>3. n = Process("exec", self[Shell].cmd, Shell, b)
    BY DEF Child
  <2> HIDE DEF b, n
  <2>4. self[Shell].cmd \in Runnable \cup {None} /\ Shell \in Proc \cup {None} /\ b \in BOOLEAN
    BY <2>1, <2>2
  <2>5. /\ n \in Processes
        /\ n.pc = "exec" /\ n.cmd = self[Shell].cmd /\ n.parent = Shell /\ n.back = b
        /\ n.left = None /\ n.right = None
    BY ONLY <2>1, <2>3, <2>4, ProcessTyped
  <2> QED BY <2>2, <2>5
<1>6. /\ w \in Processes /\ w.pc = "wait_any" /\ w.left = c /\ w.cmd = self[Shell].cmd
      /\ w.parent = None /\ w.right = None /\ w.back = FALSE
  <2>1. "wait_any" \in Pcs
    BY DEF Pcs, ShellPcs
  <2> QED BY <2>1, <1>1, <1>2, <1>4 DEF Processes
<1>7. self' = [self EXCEPT ![c] = n, ![Shell] = w]
  BY <1>1, <1>2, <1>3, <1>4
<1> HIDE DEF n, w
<1>8. /\ self' \in [Proc -> Processes] /\ self'[c] = n /\ self'[Shell] = w
      /\ \A q \in Proc \ {c, Shell} : self'[q] = self[q]
  <2>1. Shell \in Proc /\ self \in [Proc -> Processes] /\ n \in Processes /\ w \in Processes
    BY <1>1, <1>2, <1>5, <1>6
  <2> QED BY ONLY <2>1, <1>4, <1>7
<1> n \in Processes /\ w \in Processes
  BY <1>5, <1>6
<1> WITNESS c \in Others, n \in Processes, w \in Processes
<1> QED BY <1>3, <1>5, <1>6, <1>8

LEMMA ForkCommandOk ==
  ASSUME ProcInv, ForkCommand
  PROVE ProcInv'
<1>1. /\ At(Shell, "fork") /\ self[Shell].cmd \in Commands /\ Shell \in Proc
      /\ self[Shell].left = None /\ last \in {Running, NotSimple}
      /\ last # NotSimple => self[Shell].cmd.type \in {"EXEC", "REDIR"}
      /\ self[Shell].parent = None /\ self[Shell].right = None /\ self[Shell].back = FALSE
  <2>1. At(Shell, "fork") /\ Shell \in Proc
    BY ShellAssumption DEF ForkCommand
  <2>2. /\ self[Shell].cmd \in Commands
        /\ self[Shell].parent = None /\ self[Shell].right = None /\ ~self[Shell].back
    BY <2>1 DEF ProcInv, PcInv, At
  <2>3. self[Shell].left = None /\ last \in {Running, NotSimple}
        /\ (last # NotSimple => self[Shell].cmd.type \in {"EXEC", "REDIR"})
    BY <2>1 DEF ProcInv, StatusInv, At
  <2>4. self[Shell].back \in BOOLEAN
    BY <2>1, SelfTyped DEF ProcInv
  <2> QED BY <2>1, <2>2, <2>3, <2>4
<1>2. o \in Systems /\ self \in [Proc -> Processes] /\ line \in Nat /\ status \in Int
      /\ last \in Nat \cup {Running, NotSimple} /\ failures \in Nat
  BY DEF ProcInv, TypeInv
<1>3. self[Shell] \in Processes
  BY <1>1, <1>2
<1>4. \A q \in Others : Exists(q) => (self[q].parent = Shell => self[q].back)
  BY <1>1 DEF ProcInv, ParentInv, ChildOfShell, At
<1>5. CASE /\ NewPids # {} /\ o' = Fork(o, Shell, NewPid)
           /\ self' = [self EXCEPT ![NewPid] = Child(Shell, "exec", self[Shell].cmd),
                                   ![Shell].left = NewPid, ![Shell].pc = "wait_any"]
           /\ UNCHANGED <<last, failures>>
  <2>0. PICK c \in Others, n, w \in Processes :
          /\ c = NewPid /\ ~Exists(c)
          /\ n.pc = "exec" /\ n.cmd = self[Shell].cmd /\ n.parent = Shell
          /\ n.left = None /\ n.right = None /\ n.back = (self[Shell].cmd.type = "BACK")
          /\ w.pc = "wait_any" /\ w.left = c /\ w.cmd = self[Shell].cmd
          /\ w.parent = None /\ w.right = None /\ w.back = FALSE
          /\ self' \in [Proc -> Processes] /\ self'[c] = n /\ self'[Shell] = w
          /\ \A q \in Proc \ {c, Shell} : self'[q] = self[q]
    BY <1>1, <1>5, ShellForks
  <2>1. c \in Proc /\ c # Shell
    BY DEF Others
  <2>2. /\ n \in Processes /\ n.pc = "exec" /\ n.cmd = self[Shell].cmd /\ n.parent = Shell
        /\ n.left = None /\ n.right = None
        /\ n.back = (self[Shell].cmd.type = "BACK")
    BY <2>0
  <2>3. /\ w \in Processes /\ w.pc = "wait_any" /\ w.left = c /\ w.cmd = self[Shell].cmd
        /\ w.parent = None /\ w.right = None /\ w.back = FALSE
    BY <2>0
  <2>5. /\ self' \in [Proc -> Processes] /\ self'[c] = n /\ self'[Shell] = w
        /\ \A q \in Proc \ {c, Shell} : self'[q] = self[q]
    BY <2>0
  <2>6. /\ \A q \in Others : Exists(q) => self[q].parent # c
        /\ \A h \in Others : \A q : IsChild(q, h) => q # c
    BY <2>0, NobodyHas
  <2>7. \A q \in Others : q # c => self'[q] = self[q]
    BY <2>5 DEF Others
  <2>8. Exists(c)' /\ ~At(c, "zombie")'
    BY <2>5, <2>2 DEF Exists, At
  <2>9. TypeInv'
    <3>1. o' \in Systems
      BY <1>1, <1>2, <1>5, <2>0, <2>1, ForkDoes
    <3> QED BY <3>1, <1>2, <1>5, <2>5 DEF ForkCommand, TypeInv
  <2>10. PcInv'
    <3>1. ASSUME NEW q \in Others
          PROVE /\ self'[q].pc \notin ShellPcs
                /\ Alive(q)' => self'[q].cmd \in Runnable
                /\ self'[q].pc \in {"fork_left"} \cup LeftHere \cup RightHere =>
                     self'[q].cmd \in Commands /\ self'[q].cmd.type = "PIPE"
                /\ At(q, "run")' => self'[q].cmd.type = "EXEC"
      <4>1. CASE q = c
        <5>1. self'[c].pc \notin ShellPcs \cup {"run", "fork_left"} \cup LeftHere \cup RightHere
          BY <2>5, <2>2 DEF ShellPcs, LeftHere, RightHere
        <5> QED BY <4>1, <5>1, <1>1, <2>2, <2>5, PartsOfCommands DEF At
      <4>2. CASE q # c
        BY <4>2, <2>7 DEF ProcInv, PcInv, Alive, Exists, At
      <4> QED BY <4>1, <4>2
    <3> QED BY <3>1, <2>3, <2>5, <1>1 DEF PcInv, ShellPcs, At
  <2>11. ParentInv'
    <3> SUFFICES ASSUME NEW q \in Others, Exists(q)'
                 PROVE /\ self'[q].parent \in Proc \ {q}
                       /\ self'[q].parent = Shell => self'[q].back \/ ChildOfShell(q)'
                       /\ \A h \in Others : self'[q].parent = h => ChildOf(q, h)'
      BY DEF ParentInv
    <3>1. CASE q = c
      <4>1. self'[c].parent = Shell /\ Shell \notin Others
        BY <2>2, <2>5 DEF Others
      <4>2. self'[c].back = (self[Shell].cmd.type = "BACK")
        BY <2>2, <2>5
      <4>3. self[Shell].cmd.type # "BACK" => ChildOfShell(c)'
        BY <2>3, <2>5 DEF ChildOfShell
      <4> QED BY <3>1, <4>1, <4>2, <4>3, <1>1, <2>1
    <3>2. CASE q # c
      <4>1. self'[q] = self[q] /\ Exists(q)
        BY <3>2, <2>7 DEF Exists, At
      <4>2. ASSUME NEW h \in Others, self[q].parent = h PROVE ChildOf(q, h)'
        <5>1. ChildOf(q, h) /\ h # c
          BY <4>1, <4>2, <2>6 DEF ProcInv, ParentInv
        <5> QED BY <5>1, <4>1, <2>7 DEF ChildOf
      <4> QED BY <4>1, <4>2, <1>4 DEF ProcInv, ParentInv
    <3> QED BY <3>1, <3>2
  <2>12. ChildInv'
    <3>1. \A h \in Others : \A q : IsChild(q, h) => IsChild(q, h)'
      BY <2>6, <2>7 DEF IsChild, Exists, At
    <3> SUFFICES ASSUME NEW h \in Others
                 PROVE /\ self'[h].pc \in LeftHere => IsChild(self[h].left, h)'
                       /\ self'[h].pc \in RightHere /\ self'[h].right # None => IsChild(self[h].right, h)'
                       /\ self'[h].pc \in {"close_read", "wait_right"} => self'[h].right # None
                       /\ self'[h].pc \in (Childless \ {"exit"}) \cup {"close", "fork_right"} => self'[h].right = None
                       /\ self'[h].pc \in Childless \ {"exit"} => self'[h].left = None
                       /\ self'[h].right # None => self'[h].left # self'[h].right
      BY DEF ChildInv
    <3>2. CASE h = c
      <4>1. self'[c].pc \notin LeftHere \cup RightHere \cup {"close_read", "wait_right"}
        BY <2>2, <2>5 DEF LeftHere, RightHere
      <4> QED BY <3>2, <4>1, <2>2, <2>5
    <3>3. CASE h # c
      <4>1. self'[h] = self[h]
        BY <3>3, <2>7
      <4>2. /\ self[h].pc \in LeftHere => IsChild(self[h].left, h)
            /\ self[h].pc \in RightHere /\ self[h].right # None => IsChild(self[h].right, h)
            /\ self[h].pc \in {"close_read", "wait_right"} => self[h].right # None
            /\ self[h].pc \in (Childless \ {"exit"}) \cup {"close", "fork_right"} => self[h].right = None
            /\ self[h].pc \in Childless \ {"exit"} => self[h].left = None
            /\ self[h].right # None => self[h].left # self[h].right
        BY DEF ProcInv, ChildInv
      <4>3. /\ self'[h].pc \in LeftHere => IsChild(self[h].left, h)'
            /\ self'[h].pc \in RightHere /\ self'[h].right # None => IsChild(self[h].right, h)'
        BY <3>1, <4>1, <4>2
      <4> QED BY <4>1, <4>2, <4>3
    <3> QED BY <3>2, <3>3
  <2>13. Rooted'
    <3> SUFFICES ASSUME NEW S \in SUBSET {q \in Others : Exists(q)'}, S # {}
                 PROVE \E q \in S : self'[q].parent \notin S
      BY DEF Rooted
    <3> DEFINE T == S \ {c}
    <3>1. T \in SUBSET {q \in Others : Exists(q)}
      BY <2>7 DEF Exists, At
    <3>2. CASE T = {}
      <4>1. c \in S /\ Shell \notin S /\ self'[c].parent = Shell
        BY <3>2, <2>1, <2>2, <2>5
      <4> QED BY <4>1
    <3>3. CASE T # {}
      <4>1. PICK q \in T : self[q].parent \notin T
        BY <3>1, <3>3 DEF ProcInv, Rooted
      <4>2. self[q].parent # c /\ self'[q].parent = self[q].parent /\ q \in S
        BY <4>1, <3>1, <2>6, <2>7
      <4> QED BY <4>1, <4>2
    <3> QED BY <3>2, <3>3
  <2>14. StatusInv'
    <3>1. last' = last /\ (last # NotSimple => last = Running)
      BY <1>1, <1>5
    <3>2. last # NotSimple => Awaits(c)'
      BY <3>1, <2>2, <2>5, <2>8 DEF Awaits
    <3> QED BY <3>1, <3>2, <1>1, <2>3, <2>5 DEF StatusInv, At
  <2> QED BY <2>9, <2>10, <2>11, <2>12, <2>13, <2>14 DEF ProcInv
<1>6. CASE /\ ForkFails("fork") /\ self' = [self EXCEPT ![Shell].pc = "wait_any"]
           /\ last' = NotSimple /\ UNCHANGED o
  <2> DEFINE w == [self[Shell] EXCEPT !.pc = "wait_any"]
  <2>1. /\ w \in Processes /\ w.pc = "wait_any" /\ w.left = None /\ w.cmd = self[Shell].cmd
        /\ w.parent = None /\ w.right = None /\ w.back = FALSE
    <3>1. "wait_any" \in Pcs
      BY DEF Pcs, ShellPcs
    <3> QED BY <3>1, <1>1, <1>3 DEF Processes
  <2>2. self' = [self EXCEPT ![Shell] = w]
    BY <1>6, <1>1, <1>2
  <2> HIDE DEF w
  <2>3. /\ self' \in [Proc -> Processes] /\ self'[Shell] = w
        /\ \A q \in Others : self'[q] = self[q]
    BY <2>1, <2>2, <1>1, <1>2 DEF Others
  <2>4. TypeInv'
    BY <1>2, <1>6, <2>3, FailsTyped DEF ProcInv, ForkCommand, TypeInv
  <2>5. /\ \A q \in Others : Exists(q)' => Exists(q) /\ self'[q] = self[q]
        /\ \A q \in Others :
             /\ self'[q].pc \notin ShellPcs
             /\ Alive(q)' => self'[q].cmd \in Runnable
             /\ self'[q].pc \in {"fork_left"} \cup LeftHere \cup RightHere =>
                  self'[q].cmd \in Commands /\ self'[q].cmd.type = "PIPE"
             /\ At(q, "run")' => self'[q].cmd.type = "EXEC"
        /\ \A q, h \in Others : Exists(q)' /\ self'[q].parent = h => ChildOf(q, h)'
        /\ ChildInv' /\ Rooted'
    BY <2>3, OthersKept
  <2>6. PcInv'
    BY <2>5, <2>1, <2>3, <1>1 DEF PcInv, ShellPcs, At
  <2>7. ParentInv'
    BY <2>5, <1>4 DEF ProcInv, ParentInv
  <2>8. StatusInv'
    BY <1>6, <2>1, <2>3 DEF StatusInv, At, Running, NotSimple
  <2> QED BY <2>4, <2>5, <2>6, <2>7, <2>8 DEF ProcInv
<1> QED BY <1>5, <1>6 DEF ForkCommand

\* The shell goes on to wait or to read, and may have reaped the process c; its new
\* state is told by what waits for whom.
GoesOn(c, next) ==
  /\ self' \in [Proc -> Processes]
  /\ self'[Shell].pc = next /\ self'[Shell].cmd = self[Shell].cmd
  /\ self'[Shell].left = self[Shell].left /\ self'[Shell].right = self[Shell].right
  /\ self'[Shell].parent = self[Shell].parent /\ self'[Shell].back = self[Shell].back
  /\ c \in Others => At(c, "zombie") /\ self[c].parent = Shell /\ self'[c] = NoProc
  /\ \A q \in Others \ {c} : self'[q] = self[q]

LEMMA ShellReaps ==
  ASSUME ProcInv, NEW next \in {"wait", "prompt"}, NEW c \in Proc, self[c].parent = Shell,
         At(c, "zombie"),
         self' = [self EXCEPT ![c] = NoProc, ![Shell].pc = next]
  PROVE c \in Others /\ GoesOn(c, next)
<1>1. Shell \in Proc /\ self \in [Proc -> Processes] /\ next \in Pcs /\ Shell # None
  BY ShellAssumption, NoneAssumption DEF ProcInv, TypeInv, Pcs, ShellPcs
<1>2. c # Shell
  BY <1>1 DEF ProcInv, PcInv
<1> DEFINE w == [self[Shell] EXCEPT !.pc = next]
<1>3. /\ w \in Processes /\ w.pc = next /\ w.cmd = self[Shell].cmd /\ w.left = self[Shell].left
      /\ w.right = self[Shell].right /\ w.parent = self[Shell].parent /\ w.back = self[Shell].back
  <2>1. self[Shell] \in Processes
    BY <1>1
  <2> QED BY <1>1, <2>1 DEF Processes
<1>4. self' = [self EXCEPT ![c] = NoProc, ![Shell] = w]
  BY <1>1, <1>2
<1> HIDE DEF w
<1>5. /\ self' \in [Proc -> Processes] /\ self'[Shell] = w /\ self'[c] = NoProc
      /\ \A q \in Others \ {c} : self'[q] = self[q]
  BY <1>1, <1>2, <1>3, <1>4, NoProcTyped DEF Others
<1> QED BY <1>2, <1>3, <1>5 DEF GoesOn, Others

LEMMA ShellGoes ==
  ASSUME ProcInv, NEW next \in {"wait", "prompt"}, Goto(Shell, next)
  PROVE GoesOn(None, next)
<1>1. Shell \in Proc /\ self \in [Proc -> Processes] /\ next \in Pcs /\ None \notin Others
  BY ShellAssumption, NoneAssumption DEF ProcInv, TypeInv, Pcs, ShellPcs, Others
<1>2. PICK s \in Processes :
        /\ self' = [self EXCEPT ![Shell] = s]
        /\ s.pc = next /\ s.cmd = self[Shell].cmd /\ s.parent = self[Shell].parent
        /\ s.back = self[Shell].back /\ s.left = self[Shell].left /\ s.right = self[Shell].right
  BY <1>1, GotoIs DEF ProcInv
<1>3. /\ self' \in [Proc -> Processes] /\ self'[Shell] = s /\ \A q \in Others : self'[q] = self[q]
  BY <1>1, <1>2 DEF Others
<1> QED BY <1>1, <1>2, <1>3 DEF GoesOn

LEMMA GoesOnOk ==
  ASSUME ProcInv, NEW next \in {"wait", "prompt"}, NEW c, GoesOn(c, next),
         self[Shell].pc \in {"wait_any", "wait"},
         next = "prompt" => \A q \in Others \ {c} : ~(Exists(q) /\ self[q].parent = Shell /\ ChildOfShell(q)),
         status' \in Int, UNCHANGED <<o, line, last, failures>>, StatusInv'
  PROVE ProcInv'
<1>1. TypeInv'
  BY DEF ProcInv, TypeInv, GoesOn
<1>2. \A q \in Others : \/ self'[q] = self[q]
                        \/ At(q, "zombie") /\ self[q].parent = Shell /\ self'[q] = NoProc
  BY DEF GoesOn
<1>3. self' \in [Proc -> Processes]
  BY DEF GoesOn
<1>4. /\ \A q \in Others : Exists(q)' => Exists(q) /\ self'[q] = self[q]
      /\ \A q \in Others :
           /\ self'[q].pc \notin ShellPcs
           /\ Alive(q)' => self'[q].cmd \in Runnable
           /\ self'[q].pc \in {"fork_left"} \cup LeftHere \cup RightHere =>
                self'[q].cmd \in Commands /\ self'[q].cmd.type = "PIPE"
           /\ At(q, "run")' => self'[q].cmd.type = "EXEC"
      /\ \A q, h \in Others : Exists(q)' /\ self'[q].parent = h => ChildOf(q, h)'
      /\ ChildInv' /\ Rooted'
  BY <1>2, <1>3, OthersKept
<1>5. PcInv'
  <2>1. self[Shell].cmd \in Commands /\ self[Shell].parent = None /\ self[Shell].right = None
        /\ ~self[Shell].back
    BY DEF ProcInv, PcInv
  <2>2. self'[Shell].pc \in ShellPcs /\ self'[Shell].pc # "none" /\ self'[Shell].cmd \in Commands
        /\ self'[Shell].parent = None /\ self'[Shell].right = None
    BY <2>1 DEF GoesOn, ShellPcs
  <2>3. ~self'[Shell].back
    BY <2>1 DEF GoesOn
  <2> QED BY <1>4, <2>2, <2>3 DEF PcInv, At
<1>6. ParentInv'
  <2> SUFFICES ASSUME NEW q \in Others, Exists(q)'
               PROVE /\ self'[q].parent \in Proc \ {q}
                     /\ self'[q].parent = Shell => self'[q].back \/ ChildOfShell(q)'
                     /\ \A h \in Others : self'[q].parent = h => ChildOf(q, h)'
    BY DEF ParentInv
  <2>1. Exists(q) /\ self'[q] = self[q]
    BY <1>4
  <2>2. self[q].parent = Shell => self[q].back \/ ChildOfShell(q)
    BY <2>1 DEF ProcInv, ParentInv
  <2>3. q # c
    BY <2>1, NoProcTyped DEF GoesOn, Exists, At
  <2>4. self[q].parent = Shell /\ ChildOfShell(q) => ChildOfShell(q)'
    BY <2>1, <2>3 DEF GoesOn, ChildOfShell
  <2> QED BY <1>4, <2>1, <2>2, <2>4 DEF ProcInv, ParentInv
<1> QED BY <1>1, <1>4, <1>5, <1>6 DEF ProcInv

LEMMA WaitAnyOk ==
  ASSUME ProcInv, WaitAny
  PROVE ProcInv'
<1> DEFINE next == IF self[Shell].cmd.type = "BACK" THEN "prompt" ELSE "wait"
<1>1. /\ At(Shell, "wait_any") /\ self[Shell].cmd \in Commands
      /\ last # NotSimple => /\ self[Shell].cmd.type \in {"EXEC", "REDIR"}
                             /\ self[Shell].left \in Others /\ Awaits(self[Shell].left)
  BY DEF WaitAny, ProcInv, PcInv, StatusInv, At
<1>2. next \in {"wait", "prompt"}
  OBVIOUS
<1>3. next = "prompt" => \A q : ~ChildOfShell(q)
  BY DEF ChildOfShell
<1>4. status \in Int /\ last \in Nat \cup {Running, NotSimple}
  BY DEF ProcInv, TypeInv
<1>5. ASSUME NEW c \in Zombies, status' = self[c].ret,
             self' = [self EXCEPT ![c] = NoProc, ![Shell].pc = next]
      PROVE ProcInv'
  <2>1. c \in Proc /\ self[c].parent = Shell /\ At(c, "zombie")
    BY <1>5 DEF Zombies
  <2>2. c \in Others /\ GoesOn(c, next)
    BY <1>2, <1>5, <2>1, ShellReaps
  <2>3. self[c].ret \in Nat
    BY <2>1, SelfTyped DEF ProcInv
  <2>4. UNCHANGED <<o, line, last, failures>>
    BY DEF WaitAny
  <2>5. self'[Shell].pc = next /\ self'[Shell].left = self[Shell].left
        /\ self'[Shell].cmd = self[Shell].cmd
    BY <2>2 DEF GoesOn
  <2>6. ASSUME last # NotSimple
        PROVE /\ next = "wait"
              /\ \/ Awaits(self[Shell].left)'
                 \/ /\ ~(Exists(self[Shell].left)' /\ self'[self[Shell].left].parent = Shell)
                    /\ last' # Running /\ status' = last'
    <3>1. next = "wait"
      BY <1>1, <2>6
    <3>2. PICK l \in Others : l = self[Shell].left /\ Awaits(l)
      BY <1>1, <2>6
    <3>3. CASE l = c
      <4>1. last = self[c].ret
        BY <3>2, <3>3, <2>1 DEF Awaits
      <4>2. ~Exists(c)'
        BY <2>2, NoProcTyped DEF GoesOn, Exists, At
      <4>3. last # Running /\ last' = last /\ status' = last
        BY <4>1, <2>3, <2>4, <1>5 DEF Running
      <4>4. self'[Shell].left = c
        BY <3>2, <3>3, <2>5
      <4>5. ~Exists(self[Shell].left)'
        BY <4>2, <4>4 DEF Exists, At
      <4> QED BY <3>1, <4>3, <4>5
    <3>4. CASE l # c
      <4>1. self'[l] = self[l] /\ last' = last
        BY <3>4, <2>2, <2>4 DEF GoesOn
      <4>2. Awaits(l)'
        BY <4>1, <3>2 DEF Awaits, Exists, At
      <4> QED BY <3>1, <3>2, <4>2, <2>5
    <3> QED BY <3>3, <3>4
  <2>7. StatusInv'
    <3>1. last' = last /\ (last # NotSimple => next = "wait" /\ self'[Shell].left \in Others
                                                /\ self'[Shell].cmd.type \in {"EXEC", "REDIR"})
      BY <2>4, <2>5, <2>6, <1>1
    <3>2. self'[Shell].pc = next /\ next \in {"wait", "prompt"}
      BY <2>5, <1>2
    <3> HIDE DEF next
    <3> QED BY <3>1, <3>2, <2>6, <2>5 DEF StatusInv, At
  <2>8. status' \in Int
    BY <1>5, <2>3
  <2>9. self[Shell].pc \in {"wait_any", "wait"}
    BY <1>1 DEF At
  <2> HIDE DEF next
  <2> QED BY <1>2, <1>3, <2>2, <2>4, <2>7, <2>8, <2>9, GoesOnOk
<1>6. ASSUME Goto(Shell, next), UNCHANGED status
      PROVE ProcInv'
  <2>1. GoesOn(None, next) /\ None \notin Others
    BY <1>2, <1>6, ShellGoes, NoneAssumption DEF Others
  <2>2. UNCHANGED <<o, line, last, failures>>
    BY DEF WaitAny
  <2>3. self'[Shell].pc = next /\ self'[Shell].left = self[Shell].left
        /\ self'[Shell].cmd = self[Shell].cmd /\ \A q \in Others : self'[q] = self[q]
    BY <2>1 DEF GoesOn
  <2>4. \A q \in Others : Awaits(q) => Awaits(q)'
    BY <2>2, <2>3 DEF Awaits, Exists, At
  <2>5. StatusInv'
    <3>1. last' = last /\ (last # NotSimple => next = "wait" /\ self'[Shell].left \in Others
                                                /\ self'[Shell].cmd.type \in {"EXEC", "REDIR"}
                                                /\ Awaits(self[Shell].left)')
      BY <2>2, <2>3, <2>4, <1>1
    <3>2. self'[Shell].pc = next /\ next \in {"wait", "prompt"}
      BY <2>3, <1>2
    <3> HIDE DEF next
    <3> QED BY <3>1, <3>2, <2>3 DEF StatusInv, At
  <2>6. self[Shell].pc \in {"wait_any", "wait"}
    BY <1>1 DEF At
  <2> HIDE DEF next
  <2> QED BY <1>2, <1>3, <1>4, <1>6, <2>1, <2>2, <2>5, <2>6, GoesOnOk
<1> QED BY <1>5, <1>6 DEF WaitAny

LEMMA WaitForegroundOk ==
  ASSUME ProcInv, WaitForeground
  PROVE ProcInv'
<1>1. /\ At(Shell, "wait") /\ UNCHANGED <<o, line, last, failures>>
      /\ self[Shell].pc \in {"wait_any", "wait"}
  BY DEF WaitForeground, At
<1>2. ASSUME last # NotSimple
      PROVE /\ self[Shell].cmd.type # "PIPE" /\ self[Shell].left \in Others
            /\ \/ Awaits(self[Shell].left)
               \/ /\ ~(Exists(self[Shell].left) /\ self[self[Shell].left].parent = Shell)
                  /\ last # Running /\ status = last
  BY <1>1, <1>2 DEF ProcInv, StatusInv, At
<1>3. \A q \in Others : Exists(q) /\ self[q].parent = Shell /\ ChildOfShell(q) =>
        q \in Awaited /\ q = self[Shell].left
  BY DEF Awaited, ChildOfShell, Others
<1>4. status \in Int /\ last \in Nat \cup {Running, NotSimple} /\ Shell \in Proc
  BY ShellAssumption DEF ProcInv, TypeInv
<1>5. ASSUME NEW c \in Awaited, At(c, "zombie"), PrintStatusInfo(self[c].ret),
             self' = [self EXCEPT ![c] = NoProc, ![Shell].pc = "prompt"]
      PROVE ProcInv'
  <2>1. c \in Proc /\ self[c].parent = Shell /\ Exists(c) /\ self[Shell].left \in {c, None}
    BY <1>5 DEF Awaited
  <2>2. c \in Others /\ GoesOn(c, "prompt")
    BY <1>5, <2>1, ShellReaps
  <2>3. self[c].ret \in Nat
    BY <2>1, SelfTyped DEF ProcInv
  <2>4. status' \in Int
    BY <1>5, <2>3, DecodedTyped DEF PrintStatusInfo
  <2>5. self'[Shell].pc = "prompt"
    BY <2>2 DEF GoesOn
  <2>6. ASSUME last # NotSimple PROVE last # Running /\ status' = Decoded(last)
    <3>1. self[Shell].left = c
      BY <2>1, <1>2, <2>6, NoneAssumption DEF Others
    <3>2. last = self[c].ret
      BY <3>1, <2>1, <1>2, <1>5, <2>6 DEF Awaits
    <3>3. status' = Decoded(self[c].ret)
      BY <1>5, <1>2, <2>6 DEF PrintStatusInfo
    <3> QED BY <3>2, <3>3, <2>3 DEF Running
  <2>7. StatusInv'
    BY <2>5, <2>6, <1>1 DEF StatusInv, At, Decoded
  <2>8. \A q \in Others \ {c} : ~(Exists(q) /\ self[q].parent = Shell /\ ChildOfShell(q))
    BY <1>3, <2>1, NoneAssumption DEF Others
  <2> QED BY <1>1, <2>2, <2>4, <2>7, <2>8, GoesOnOk
<1>6. ASSUME Awaited = {}, PrintStatusInfo(status), Goto(Shell, "prompt")
      PROVE ProcInv'
  <2>1. GoesOn(None, "prompt")
    BY <1>6, ShellGoes
  <2>2. self'[Shell].pc = "prompt"
    BY <2>1 DEF GoesOn
  <2>3. status' \in Int
    BY <1>4, <1>6, DecodedTyped DEF PrintStatusInfo
  <2>4. ASSUME last # NotSimple PROVE last # Running /\ status' = Decoded(last)
    <3>1. ~(Exists(self[Shell].left) /\ self[self[Shell].left].parent = Shell)
      BY <1>2, <2>4, <1>6 DEF Awaited, Others
    <3>2. last # Running /\ status = last
      BY <3>1, <1>2, <2>4 DEF Awaits
    <3>3. status' = Decoded(status)
      BY <1>6, <1>2, <2>4 DEF PrintStatusInfo
    <3> QED BY <3>2, <3>3
  <2>5. StatusInv'
    BY <2>2, <2>4, <1>1 DEF StatusInv, At, Decoded
  <2>6. \A q \in Others : ~(Exists(q) /\ self[q].parent = Shell /\ ChildOfShell(q))
    BY <1>3, <1>6
  <2> QED BY <1>1, <2>1, <2>3, <2>5, <2>6, GoesOnOk
<1> QED BY <1>1, <1>5, <1>6 DEF WaitForeground

LEMMA ReadLineOk ==
  ASSUME ProcInv, ReadLine
  PROVE ProcInv'
<1>1. /\ At(Shell, "prompt") /\ Shell \in Proc /\ Shell \notin Others
      /\ self \in [Proc -> Processes] /\ failures' = failures
      /\ self[Shell].parent = None /\ self[Shell].right = None /\ self[Shell].back = FALSE
      /\ last # Running
  <2>1. At(Shell, "prompt") /\ failures' = failures
    BY DEF ReadLine
  <2>2. last # Running
    BY <2>1 DEF ProcInv, StatusInv, At, Running, NotSimple
  <2>3. self[Shell].parent = None /\ self[Shell].right = None /\ ~self[Shell].back
    BY DEF ProcInv, PcInv
  <2>4. Shell \in Proc /\ self \in [Proc -> Processes]
    BY ShellAssumption DEF ProcInv, TypeInv
  <2>5. self[Shell].back \in BOOLEAN
    BY <2>4, SelfTyped DEF ProcInv
  <2> QED BY <2>1, <2>2, <2>3, <2>4, <2>5 DEF Others
<1>2. \A q \in Others : Exists(q) => (self[q].parent = Shell => self[q].back)
  BY <1>1 DEF ProcInv, ParentInv, ChildOfShell, At
<1>3. ASSUME NEW cmd \in Lines, line' = line + 1,
             self' = [self EXCEPT ![Shell].pc = "fork", ![Shell].cmd = cmd, ![Shell].left = None],
             last' = IF cmd.type \in {"EXEC", "REDIR"} THEN Running ELSE NotSimple,
             UNCHANGED <<o, status>>
      PROVE ProcInv'
  <2> DEFINE w == [self[Shell] EXCEPT !.pc = "fork", !.cmd = cmd, !.left = None]
  <2>1. cmd \in Commands /\ cmd \in Runnable /\ "fork" \in Pcs
    BY CommandAssumption, PartsOfCommands DEF Pcs, ShellPcs
  <2>2. /\ w \in Processes /\ w.pc = "fork" /\ w.cmd = cmd /\ w.left = None
        /\ w.right = None /\ w.parent = None /\ w.back = FALSE
    <3>1. self[Shell] \in Processes
      BY <1>1
    <3> QED BY <1>1, <2>1, <3>1 DEF Processes
  <2>3. self' = [self EXCEPT ![Shell] = w]
    BY <1>1, <1>3
  <2> HIDE DEF w
  <2>4. /\ self' \in [Proc -> Processes] /\ self'[Shell] = w
        /\ \A q \in Others : self'[q] = self[q]
    BY <1>1, <2>2, <2>3 DEF Others
  <2>5. TypeInv'
    BY <1>1, <1>3, <2>4 DEF ProcInv, TypeInv
  <2>6. /\ \A q \in Others : Exists(q)' => Exists(q) /\ self'[q] = self[q]
        /\ \A q \in Others :
             /\ self'[q].pc \notin ShellPcs
             /\ Alive(q)' => self'[q].cmd \in Runnable
             /\ self'[q].pc \in {"fork_left"} \cup LeftHere \cup RightHere =>
                  self'[q].cmd \in Commands /\ self'[q].cmd.type = "PIPE"
             /\ At(q, "run")' => self'[q].cmd.type = "EXEC"
        /\ \A q, h \in Others : Exists(q)' /\ self'[q].parent = h => ChildOf(q, h)'
        /\ ChildInv' /\ Rooted'
    BY <2>4, OthersKept
  <2>7. PcInv'
    BY <2>1, <2>2, <2>4, <2>6 DEF PcInv, ShellPcs, At
  <2>8. ParentInv'
    BY <2>6, <1>2 DEF ProcInv, ParentInv
  <2>9. StatusInv'
    BY <1>3, <2>2, <2>4 DEF StatusInv, At
  <2> QED BY <2>5, <2>6, <2>7, <2>8, <2>9 DEF ProcInv
<1>4. ASSUME Terminate(Shell, 0)
      PROVE ProcInv'
  <2>1. self' = [q \in Proc |-> IF q = Shell THEN NoProc
                                ELSE IF self[q].parent = Shell /\ At(q, "zombie") THEN NoProc ELSE self[q]]
    BY <1>1, <1>4 DEF Terminate
  <2>2. /\ self' \in [Proc -> Processes] /\ self'[Shell] = NoProc
        /\ \A q \in Others : \/ self'[q] = self[q]
                             \/ At(q, "zombie") /\ self[q].parent = Shell /\ self'[q] = NoProc
    BY <1>1, <2>1, NoProcTyped DEF Others
  <2>3. last' = last /\ UNCHANGED <<line, status>> /\ o' \in Systems
    BY <1>1, <1>4, CloseAllDoes DEF Terminate, ProcInv, TypeInv
  <2>4. TypeInv'
    BY <1>1, <2>2, <2>3 DEF ProcInv, TypeInv
  <2>5. /\ \A q \in Others : Exists(q)' => Exists(q) /\ self'[q] = self[q]
        /\ \A q \in Others :
             /\ self'[q].pc \notin ShellPcs
             /\ Alive(q)' => self'[q].cmd \in Runnable
             /\ self'[q].pc \in {"fork_left"} \cup LeftHere \cup RightHere =>
                  self'[q].cmd \in Commands /\ self'[q].cmd.type = "PIPE"
             /\ At(q, "run")' => self'[q].cmd.type = "EXEC"
        /\ \A q, h \in Others : Exists(q)' /\ self'[q].parent = h => ChildOf(q, h)'
        /\ ChildInv' /\ Rooted'
    BY <2>2, OthersKept
  <2>6. PcInv'
    <3>1. ~self'[Shell].back
      BY <2>2 DEF NoProc, Process
    <3> QED BY <3>1, <2>2, <2>5, NoProcTyped DEF PcInv, ShellPcs, At
  <2>7. ParentInv'
    BY <2>5, <1>2 DEF ProcInv, ParentInv
  <2>8. StatusInv'
    BY <1>1, <2>2, <2>3, NoProcTyped DEF StatusInv, At
  <2> QED BY <2>4, <2>5, <2>6, <2>7, <2>8 DEF ProcInv
<1> QED BY <1>1, <1>3, <1>4 DEF ReadLine

-----------------------------------------------------------------------------
(* The steps of the other processes                                        *)

LEMMA RedirectedDoes ==
  ASSUME NEW x \in Systems, NEW p \in Proc, NEW file, File(file) \in Descriptions,
         File(file) # None, NEW fd \in {0, 1, 2},
         x.fds[p][0] # None, x.fds[p][1] # None, x.fds[p][2] # None, x.fds[p][READ] = None
  PROVE /\ Redirected(x, p, file, fd) \in Systems
        /\ \A q \in Proc, g \in FD :
             Redirected(x, p, file, fd).fds[q][g] = IF q = p /\ g = fd THEN File(file) ELSE x.fds[q][g]
<1>1. FreeFd(x, p) = READ /\ READ \in FD /\ fd \in FD /\ READ # fd
  BY FreeFdIs, Descriptors DEF READ
<1> DEFINE y == Open(x, p, File(file))
           z == Dup2(y, p, READ, fd)
<1>2. /\ y \in Systems
      /\ \A q \in Proc, g \in FD :
           y.fds[q][g] = IF q = p /\ g = READ THEN File(file) ELSE x.fds[q][g]
  BY <1>1, OpenDoes
<1> HIDE DEF y
<1>3. /\ z \in Systems
      /\ \A q \in Proc, g \in FD :
           z.fds[q][g] = IF q = p /\ g = fd THEN y.fds[p][READ] ELSE y.fds[q][g]
  BY <1>1, <1>2, Dup2Does
<1> HIDE DEF z
<1>4. /\ Close(z, p, READ) \in Systems
      /\ \A q \in Proc, g \in FD :
           Close(z, p, READ).fds[q][g] = IF q = p /\ g = READ THEN None ELSE z.fds[q][g]
  <2>1. \A v \in Systems : /\ Close(v, p, READ) \in Systems
                           /\ \A q \in Proc, g \in FD :
                                Close(v, p, READ).fds[q][g] = IF q = p /\ g = READ THEN None ELSE v.fds[q][g]
    BY <1>1, CloseDoes
  <2> QED BY <1>3, <2>1
<1>5. Redirected(x, p, file, fd) = Close(z, p, READ)
  BY <1>1 DEF Redirected, y, z
<1> QED BY <1>1, <1>2, <1>3, <1>4, <1>5

\* What exec_cmd has done to the descriptors when it calls execvp
LEMMA RedirectionsDo ==
  ASSUME o \in Systems, NEW p \in Proc, NEW c \in Commands, c.type = "REDIR",
         o.fds[p][0] # None, o.fds[p][1] # None, o.fds[p][2] # None, o.fds[p][READ] = None
  PROVE LET r == Redirections(p, c)
        IN /\ r \in Systems
           /\ \A q \in Proc \ {p}, g \in FD : r.fds[q][g] = o.fds[q][g]
           /\ \A g \in FD : g \notin {0, 1, 2} => r.fds[p][g] = o.fds[p][g]
           /\ r.fds[p][0] = IF c.in # None THEN File(c.in) ELSE o.fds[p][0]
           /\ r.fds[p][1] = IF c.out # None THEN File(c.out) ELSE o.fds[p][1]
           /\ r.fds[p][2] = IF c.err = None THEN o.fds[p][2]
                            ELSE IF c.err = "&1" THEN r.fds[p][1] ELSE File(c.err)
<1>1. /\ File(c.in) \in Descriptions /\ File(c.out) \in Descriptions /\ File(c.err) \in Descriptions
      /\ File(c.in) # None /\ File(c.out) # None /\ File(c.err) # None
  BY NoneAssumption DEF Descriptions
<1>2. 0 \in FD /\ 1 \in FD /\ 2 \in FD /\ READ \in FD /\ READ \notin {0, 1, 2}
  BY Descriptors DEF READ
<1> DEFINE out == IF c.out = None THEN o ELSE Redirected(o, p, c.out, 1)
           in == IF c.in = None THEN out ELSE Redirected(out, p, c.in, 0)
           err == IF c.err = None THEN in ELSE IF c.err = "&1" THEN Dup2(in, p, 1, 2)
                  ELSE Redirected(in, p, c.err, 2)
<1>3. /\ out \in Systems
      /\ \A q \in Proc, g \in FD :
           out.fds[q][g] = IF q = p /\ g = 1 /\ c.out # None THEN File(c.out) ELSE o.fds[q][g]
  BY <1>1, RedirectedDoes
<1> HIDE DEF out
<1>4. out.fds[p][0] # None /\ out.fds[p][1] # None /\ out.fds[p][2] # None /\ out.fds[p][READ] = None
  BY <1>1, <1>2, <1>3
<1>5. /\ in \in Systems
      /\ \A q \in Proc, g \in FD :
           in.fds[q][g] = IF q = p /\ g = 0 /\ c.in # None THEN File(c.in) ELSE out.fds[q][g]
  BY <1>1, <1>3, <1>4, RedirectedDoes
<1> HIDE DEF in
<1>6. in.fds[p][0] # None /\ in.fds[p][1] # None /\ in.fds[p][2] # None /\ in.fds[p][READ] = None
  BY <1>1, <1>2, <1>4, <1>5
<1>7. /\ err \in Systems
      /\ \A q \in Proc, g \in FD :
           err.fds[q][g] = IF q = p /\ g = 2 /\ c.err # None
                           THEN IF c.err = "&1" THEN in.fds[p][1] ELSE File(c.err)
                           ELSE in.fds[q][g]
  <2>1. CASE c.err = None
    BY <2>1, <1>5
  <2>2. CASE c.err # None /\ c.err = "&1"
    <3>1. /\ Dup2(in, p, 1, 2) \in Systems
          /\ \A q \in Proc, g \in FD :
               Dup2(in, p, 1, 2).fds[q][g] = IF q = p /\ g = 2 THEN in.fds[p][1] ELSE in.fds[q][g]
      BY <1>2, <1>5, Dup2Does
    <3> QED BY <2>2, <3>1
  <2>3. CASE c.err # None /\ c.err # "&1"
    <3>1. /\ Redirected(in, p, c.err, 2) \in Systems
          /\ \A q \in Proc, g \in FD :
               Redirected(in, p, c.err, 2).fds[q][g] = IF q = p /\ g = 2 THEN File(c.err) ELSE in.fds[q][g]
      BY <1>1, <1>5, <1>6, RedirectedDoes
    <3> QED BY <2>3, <3>1
  <2> QED BY <2>1, <2>2, <2>3
<1>8. Redirections(p, c) = err
  BY DEF Redirections, in, out
<1> HIDE DEF err
<1> QED BY <1>2, <1>3, <1>5, <1>7, <1>8

Moves ==
  {<<"exec", "run">>, <<"exec", "fork_left">>, <<"left", "exec">>, <<"right", "exec">>,
   <<"close", "fork_right">>, <<"fork_right", "wait_left">>, <<"close_read", "wait_left">>}

LEMMA GotoOk ==
  ASSUME ProcInv, NEW p \in Others, NEW from, NEW to, <<from, to>> \in Moves,
         At(p, from), Goto(p, to),
         to = "run" => self[p].cmd.type = "EXEC", to = "fork_left" => self[p].cmd.type = "PIPE",
         o' \in Systems, failures' \in Nat, UNCHANGED <<line, status, last>>
  PROVE ProcInv'
<1>1. p \in Proc /\ Alive(p) /\ self[p].pc = from /\ to \in Pcs
      /\ from \notin {"none", "zombie"}
  BY DEF Others, Alive, Exists, At, Moves, Pcs, Childless, LeftHere, RightHere
<1>2. PICK s \in Processes :
        /\ self' = [self EXCEPT ![p] = s]
        /\ s.pc = to /\ s.cmd = self[p].cmd /\ s.parent = self[p].parent
        /\ s.back = self[p].back /\ s.left = self[p].left /\ s.right = self[p].right
  BY <1>1, GotoIs DEF ProcInv
<1>3. /\ self[p].cmd \in Runnable
      /\ self[p].pc \in {"fork_left"} \cup LeftHere \cup RightHere =>
           self[p].cmd \in Commands /\ self[p].cmd.type = "PIPE"
      /\ self[p].pc = "fork_right" => self[p].right = None
  BY <1>1 DEF ProcInv, PcInv, ChildInv
<1>4. to = "fork_left" => self[p].cmd \in Commands
  BY <1>3, RunnableIs
<1>5. Continues(p, s)
  BY <1>1, <1>2, <1>3, <1>4 DEF Continues, Moves, Childless, LeftHere, RightHere
<1> QED BY <1>1, <1>2, <1>5, ContinuesOk

\* What `exec' and the other positions without children are
LEMMA ChildlessAt ==
  ASSUME ProcInv, NEW p \in Others, self[p].pc \in Childless
  PROVE /\ p \in Proc /\ Alive(p) /\ self[p] \in Processes /\ self[p].cmd \in Runnable
        /\ o \in Systems /\ failures \in Nat
<1>1. p \in Proc /\ Alive(p)
  BY PcSets DEF Others, Alive, Exists, At
<1> QED BY <1>1, SelfTyped DEF ProcInv, TypeInv, PcInv

\* Before exec the descriptors 0, 1 and 2 are open, and the next is 3.
LEMMA ExecDescriptors ==
  ASSUME OpenInv, NEW p \in Others, At(p, "exec")
  PROVE /\ o.fds[p][0] # None /\ o.fds[p][1] # None /\ o.fds[p][2] # None
        /\ o.fds[p][READ] = None /\ o.fds[p][WRITE] = None
<1>1. Alive(p) /\ self[p].pc = "exec"
  BY DEF Alive, Exists, At
<1>2. /\ \A f \in FD : f < 3 => o.fds[p][f] # None
      /\ self[p].pc \notin {"wait_left", "wait_right", "exit"} =>
           \A f \in FD : f >= 3 =>
             (o.fds[p][f] # None <=> \/ f = READ /\ self[p].pc \in Reads
                                     \/ f = WRITE /\ self[p].pc \in Writes)
  BY <1>1 DEF OpenInv, OpenAt
<1>3. 0 < 3 /\ 1 < 3 /\ 2 < 3 /\ READ >= 3 /\ WRITE >= 3
  BY DEF READ, WRITE
<1>4. self[p].pc \notin Reads /\ self[p].pc \notin Writes
  BY <1>1 DEF Reads, Writes
<1>5. self[p].pc \notin {"wait_left", "wait_right", "exit"}
  BY <1>1
<1> QED BY <1>2, <1>3, <1>4, <1>5, Descriptors

LEMMA ExecBackOk ==
  ASSUME ProcInv, NEW p \in Others, ExecBack(p)
  PROVE ProcInv'
<1>1. self[p].pc = "exec" /\ self[p].pc \in Childless /\ self[p].cmd.type = "BACK"
  BY DEF ExecBack, At, Childless
<1>2. /\ p \in Proc /\ Alive(p) /\ self[p] \in Processes /\ self[p].cmd \in Runnable
      /\ o \in Systems /\ failures \in Nat
  BY <1>1, ChildlessAt
<1>3. self[p].cmd.c \in Commands /\ self[p].cmd.c \in Runnable
  BY <1>1, <1>2, RunnableIs, PartsOfCommands
<1> DEFINE s == [self[p] EXCEPT !.cmd = self[p].cmd.c]
<1>4. self' = [self EXCEPT ![p] = s]
  BY DEF ExecBack
<1>5. /\ s \in Processes /\ s.pc = "exec" /\ s.cmd = self[p].cmd.c /\ s.parent = self[p].parent
      /\ s.back = self[p].back /\ s.left = self[p].left /\ s.right = self[p].right
  BY <1>1, <1>2, <1>3 DEF Processes
<1> HIDE DEF s
<1>6. Continues(p, s)
  BY <1>1, <1>3, <1>5 DEF Continues, Childless, LeftHere, RightHere
<1>7. o' \in Systems /\ failures' \in Nat /\ UNCHANGED <<line, status, last>>
  BY <1>2 DEF ExecBack
<1> QED BY <1>2, <1>4, <1>6, <1>7, ContinuesOk

LEMMA ExecRedirOk ==
  ASSUME ProcInv, OpenInv, NEW p \in Others, ExecRedir(p)
  PROVE ProcInv'
<1>1. self[p].pc = "exec" /\ self[p].pc \in Childless /\ self[p].cmd.type = "REDIR"
      /\ failures' = failures
  BY DEF ExecRedir, At, Childless
<1>2. /\ p \in Proc /\ Alive(p) /\ self[p] \in Processes /\ self[p].cmd \in Runnable
      /\ o \in Systems /\ failures \in Nat
  BY <1>1, ChildlessAt
<1>3. self[p].cmd \in Commands
  BY <1>1, <1>2, RunnableIs
<1>4. CASE CanOpen(self[p].cmd.in)
  <2> DEFINE c == [self[p].cmd EXCEPT !.type = "EXEC"]
             s == [self[p] EXCEPT !.cmd = c]
  <2>1. c \in Runnable /\ c.type = "EXEC"
    BY <1>1, <1>3, OpenedCommand
  <2>2. self' = [self EXCEPT ![p] = s]
    BY <1>1, <1>4 DEF ExecRedir
  <2> HIDE DEF c
  <2>3. /\ s \in Processes /\ s.pc = "exec" /\ s.cmd = c /\ s.parent = self[p].parent
        /\ s.back = self[p].back /\ s.left = self[p].left /\ s.right = self[p].right
    BY <1>1, <1>2, <2>1 DEF Processes
  <2> HIDE DEF s
  <2>4. Continues(p, s)
    BY <1>1, <2>1, <2>3 DEF Continues, Childless, LeftHere, RightHere
  <2>5. o' = Redirections(p, self[p].cmd) /\ UNCHANGED <<line, status, last>>
    BY <1>4 DEF ExecRedir
  <2>6. o' \in Systems
    BY <1>1, <1>2, <1>3, <2>5, ExecDescriptors, RedirectionsDo DEF At
  <2> QED BY <1>1, <1>2, <2>2, <2>4, <2>5, <2>6, ContinuesOk
<1>5. CASE ~CanOpen(self[p].cmd.in)
  <2>1. Terminate(p, Code(-1))
    BY <1>5 DEF ExecRedir
  <2> QED BY <1>1, <1>2, <2>1, StatusTyped, TerminateOk
<1> QED BY <1>4, <1>5

LEMMA ExecProgramOk ==
  ASSUME ProcInv, NEW p \in Others, ExecProgram(p)
  PROVE ProcInv'
<1>1. self[p].pc = "exec" /\ self[p].pc \in Childless /\ self[p].cmd.type = "EXEC"
      /\ failures' = failures
  BY DEF ExecProgram, At, Childless
<1>2. o \in Systems /\ failures \in Nat
  BY <1>1, ChildlessAt
<1>3. CASE Terminate(p, Code(-1))
  BY <1>1, <1>2, <1>3, StatusTyped, TerminateOk
<1>4. CASE Goto(p, "run") /\ UNCHANGED <<o, line, status, last>>
  <2>1. <<"exec", "run">> \in Moves
    BY DEF Moves
  <2> QED BY <1>1, <1>2, <1>4, <2>1, GotoOk DEF At
<1> QED BY <1>3, <1>4 DEF ExecProgram

LEMMA MakePipeOk ==
  ASSUME ProcInv, OpenInv, NEW p \in Others, MakePipe(p)
  PROVE ProcInv'
<1>1. At(p, "exec") /\ self[p].pc \in Childless /\ self[p].cmd.type = "PIPE"
  BY DEF MakePipe, At, Childless
<1>2. o \in Systems /\ failures \in Nat /\ p \in Proc
  BY <1>1, ChildlessAt
<1>3. CASE /\ FreePipes # {} /\ o' = PipeCall(o, p, FreePipe) /\ Goto(p, "fork_left")
           /\ UNCHANGED <<line, status, last, failures>>
  <2>1. <<"exec", "fork_left">> \in Moves
    BY DEF Moves
  <2>2. FreePipe \in Pipe
    BY <1>3, FreePipeIsFree
  <2>3. FreeFd(o, p) = READ /\ FreeFd2(o, p) = WRITE
    BY <1>1, <1>2, ExecDescriptors, FreeFdIs
  <2>4. o' \in Systems
    BY <1>2, <1>3, <2>2, <2>3, PipeCallDoes
  <2> QED BY <1>1, <1>2, <1>3, <2>1, <2>4, GotoOk
<1>4. CASE /\ IF FreePipes = {} THEN UNCHANGED failures ELSE Fail("pipe")
           /\ Terminate(p, Exited(0))
  <2>1. failures' \in Nat
    BY <1>2, <1>4 DEF Fail
  <2> QED BY <1>1, <1>4, <2>1, StatusTyped, TerminateOk
<1> QED BY <1>3, <1>4 DEF MakePipe

\* What a process and its child are after a fork
Forked(p, pc, cmd, s) == self' = [self EXCEPT ![NewPid] = Child(p, pc, cmd), ![p] = s]
LEMMA ForkedAre ==
  ASSUME ProcInv, NEW p \in Others, NEW pc \in {"left", "right"}, NEW cmd \in Commands,
         NewPids # {}, NEW s \in Processes,
         Forked(p, pc, cmd, s), p # NewPid
  PROVE /\ self' \in [Proc -> Processes]
        /\ \A q \in Proc \ {p, NewPid} : self'[q] = self[q]
        /\ self'[NewPid].pc = pc /\ self'[NewPid].cmd = cmd /\ self'[NewPid].parent = p
        /\ self'[NewPid].back = self[p].back
        /\ self'[NewPid].left = None /\ self'[NewPid].right = None
        /\ self'[p] = s
<1>1. p \in Proc /\ p # Shell /\ NewPid \in Proc /\ self \in [Proc -> Processes]
  BY NewPidIsNew DEF Others, ProcInv, TypeInv
<1>2. self[p].back \in BOOLEAN
  BY <1>1, SelfTyped DEF ProcInv
<1> DEFINE n == Child(p, pc, cmd)
<1>3. /\ n \in Processes /\ n.pc = pc /\ n.cmd = cmd /\ n.parent = p
      /\ n.left = None /\ n.right = None /\ n.back = self[p].back
  <2>1. pc \in Pcs /\ cmd \in Runnable \cup {None} /\ p \in Proc \cup {None}
    BY <1>1, PartsOfCommands DEF Pcs, Childless
  <2>2. ((p = Shell /\ cmd.type = "BACK") \/ self[p].back) = self[p].back
    BY <1>1, <1>2
  <2>3. n = Process(pc, cmd, p, self[p].back)
    BY <2>2 DEF Child
  <2> HIDE DEF n
  <2> QED BY ONLY <2>1, <2>3, <1>2, ProcessTyped
<1> HIDE DEF n
<1>4. self' = [self EXCEPT ![NewPid] = n, ![p] = s]
  BY DEF n, Forked
<1>5. /\ self' \in [Proc -> Processes] /\ self'[NewPid] = n /\ self'[p] = s
      /\ \A q \in Proc \ {p, NewPid} : self'[q] = self[q]
  BY <1>1, <1>3, <1>4
<1> QED BY <1>3, <1>5

LEMMA ForkLeftOk ==
  ASSUME ProcInv, NEW p \in Others, ForkLeft(p)
  PROVE ProcInv'
<1>1. self[p].pc = "fork_left" /\ self[p].pc \in Childless
  BY DEF ForkLeft, At, Childless
<1>2. p \in Proc /\ self[p] \in Processes /\ o \in Systems /\ failures \in Nat
      /\ self \in [Proc -> Processes] /\ Exists(p)
  BY <1>1, ChildlessAt DEF ProcInv, TypeInv, Alive
<1>3. CASE /\ NewPids # {} /\ o' = Fork(o, p, NewPid)
           /\ self' = [self EXCEPT ![NewPid] = Child(p, "left", self[p].cmd.left),
                                   ![p].left = NewPid, ![p].pc = "close"]
           /\ UNCHANGED <<line, status, last, failures>>
  <2>1. NewPid \in Others /\ NewPid \in Proc /\ ~Exists(NewPid) /\ NewPid # p
    BY <1>2, <1>3, NewPidIsNew DEF Others
  <2>2. self[p].cmd.left \in Commands
    BY <1>1, PartsOfCommands DEF ProcInv, PcInv
  <2> DEFINE s == [self[p] EXCEPT !.left = NewPid, !.pc = "close"]
  <2>3. /\ s \in Processes /\ s.pc = "close" /\ s.left = NewPid /\ s.right = self[p].right
        /\ s.parent = self[p].parent /\ s.cmd = self[p].cmd /\ s.back = self[p].back
    <3>1. "close" \in Pcs
      BY DEF Pcs, LeftHere
    <3> QED BY <1>2, <2>1, <3>1 DEF Processes
  <2>4. Forked(p, "left", self[p].cmd.left, s)
    BY <1>2, <1>3, <2>1 DEF Forked
  <2> HIDE DEF s
  <2>5. /\ self' \in [Proc -> Processes]
        /\ \A q \in Proc \ {p, NewPid} : self'[q] = self[q]
        /\ self'[NewPid].pc = "left" /\ self'[NewPid].cmd = self[p].cmd.left
        /\ self'[NewPid].parent = p /\ self'[NewPid].back = self[p].back
        /\ self'[NewPid].left = None /\ self'[NewPid].right = None
        /\ self'[p] = s
    <3>1. NewPids # {}
      BY <1>3
    <3>2. s \in Processes
      BY <2>3
    <3> QED BY ONLY ProcInv, p \in Others, <3>1, <3>2, <2>1, <2>2, <2>4, ForkedAre
  <2>6. o' \in Systems
    BY <1>2, <1>3, <2>1, ForkDoes
  <2>7. failures' \in Nat /\ UNCHANGED <<line, status, last>>
    BY <1>1, <1>2, <1>3
  <2> QED BY ONLY ProcInv, p \in Others, <1>1, <2>1, <2>2, <2>3, <2>5, <2>6, <2>7, ForkOk
<1>4. CASE ForkFails("fork_left") /\ Terminate(p, Exited(0))
  <2>1. failures' \in Nat
    BY <1>2, <1>4 DEF ForkFails, Fail
  <2> QED BY <1>1, <1>4, <2>1, StatusTyped, TerminateOk
<1> QED BY <1>3, <1>4 DEF ForkLeft

LEMMA ForkRightOk ==
  ASSUME ProcInv, NEW p \in Others, ForkRight(p)
  PROVE ProcInv'
<1>1. self[p].pc = "fork_right" /\ UNCHANGED <<line, status, last>>
  BY DEF ForkRight, At
<1>2. p \in Proc /\ self[p] \in Processes /\ o \in Systems /\ failures \in Nat
      /\ self \in [Proc -> Processes] /\ Exists(p)
  BY <1>1 DEF ProcInv, TypeInv, Exists, At, Others
<1>3. CASE /\ NewPids # {} /\ o' = Fork(o, p, NewPid)
           /\ self' = [self EXCEPT ![NewPid] = Child(p, "right", self[p].cmd.right),
                                   ![p].right = NewPid, ![p].pc = "close_read"]
           /\ UNCHANGED failures
  <2>1. NewPid \in Others /\ NewPid \in Proc /\ ~Exists(NewPid) /\ NewPid # p
    BY <1>2, <1>3, NewPidIsNew DEF Others
  <2>2. self[p].cmd.right \in Commands
    BY <1>1, PartsOfCommands DEF ProcInv, PcInv, LeftHere
  <2> DEFINE s == [self[p] EXCEPT !.right = NewPid, !.pc = "close_read"]
  <2>3. /\ s \in Processes /\ s.pc = "close_read" /\ s.left = self[p].left /\ s.right = NewPid
        /\ s.parent = self[p].parent /\ s.cmd = self[p].cmd /\ s.back = self[p].back
    <3>1. "close_read" \in Pcs
      BY DEF Pcs, LeftHere
    <3> QED BY <1>2, <2>1, <3>1 DEF Processes
  <2>4. Forked(p, "right", self[p].cmd.right, s)
    BY <1>2, <1>3, <2>1 DEF Forked
  <2> HIDE DEF s
  <2>5. /\ self' \in [Proc -> Processes]
        /\ \A q \in Proc \ {p, NewPid} : self'[q] = self[q]
        /\ self'[NewPid].pc = "right" /\ self'[NewPid].cmd = self[p].cmd.right
        /\ self'[NewPid].parent = p /\ self'[NewPid].back = self[p].back
        /\ self'[NewPid].left = None /\ self'[NewPid].right = None
        /\ self'[p] = s
    <3>1. NewPids # {}
      BY <1>3
    <3>2. s \in Processes
      BY <2>3
    <3> QED BY ONLY ProcInv, p \in Others, <3>1, <3>2, <2>1, <2>2, <2>4, ForkedAre
  <2>6. o' \in Systems
    BY <1>2, <1>3, <2>1, ForkDoes
  <2>7. failures' \in Nat /\ UNCHANGED <<line, status, last>>
    BY <1>1, <1>2, <1>3
  <2> QED BY ONLY ProcInv, p \in Others, <1>1, <2>1, <2>2, <2>3, <2>5, <2>6, <2>7, ForkOk
<1>4. CASE ForkFails("fork_right") /\ Goto(p, "wait_left") /\ UNCHANGED o
  <2>1. failures' \in Nat
    BY <1>2, <1>4 DEF ForkFails, Fail
  <2>2. <<"fork_right", "wait_left">> \in Moves
    BY DEF Moves
  <2> QED BY <1>1, <1>2, <1>4, <2>1, <2>2, GotoOk DEF At
<1> QED BY <1>3, <1>4 DEF ForkRight

LEMMA LeftChildOk ==
  ASSUME ProcInv, NEW p \in Others, LeftChild(p)
  PROVE ProcInv'
<1>1. At(p, "left") /\ self[p].pc \in Childless
  BY DEF LeftChild, At, Childless
<1>2. o \in Systems /\ failures \in Nat /\ p \in Proc /\ READ \in FD /\ WRITE \in FD /\ 1 \in FD
  BY <1>1, ChildlessAt, Descriptors
<1>3. CASE /\ o' = Close(Dup2(Close(o, p, READ), p, WRITE, 1), p, WRITE) /\ Goto(p, "exec")
           /\ UNCHANGED <<line, status, last, failures>>
  <2>1. <<"left", "exec">> \in Moves
    BY DEF Moves
  <2>2. Close(o, p, READ) \in Systems
    BY <1>2, CloseDoes
  <2>3. Dup2(Close(o, p, READ), p, WRITE, 1) \in Systems
    BY <1>2, <2>2, Dup2Does
  <2>4. o' \in Systems
    BY <1>2, <1>3, <2>3, CloseDoes
  <2> QED BY <1>1, <1>2, <1>3, <2>1, <2>4, GotoOk
<1>4. CASE Fail("dup2") /\ Terminate(p, Exited(0))
  <2>1. failures' \in Nat
    BY <1>2, <1>4 DEF Fail
  <2> QED BY <1>1, <1>4, <2>1, StatusTyped, TerminateOk
<1> QED BY <1>3, <1>4 DEF LeftChild

LEMMA RightChildOk ==
  ASSUME ProcInv, NEW p \in Others, RightChild(p)
  PROVE ProcInv'
<1>1. At(p, "right") /\ self[p].pc \in Childless
  BY DEF RightChild, At, Childless
<1>2. o \in Systems /\ failures \in Nat /\ p \in Proc /\ READ \in FD /\ 0 \in FD
  BY <1>1, ChildlessAt, Descriptors
<1>3. CASE /\ o' = Close(Dup2(o, p, READ, 0), p, READ) /\ Goto(p, "exec")
           /\ UNCHANGED <<line, status, last, failures>>
  <2>1. <<"right", "exec">> \in Moves
    BY DEF Moves
  <2>2. Dup2(o, p, READ, 0) \in Systems
    BY <1>2, Dup2Does
  <2>3. o' \in Systems
    BY <1>2, <1>3, <2>2, CloseDoes
  <2> QED BY <1>1, <1>2, <1>3, <2>1, <2>3, GotoOk
<1>4. CASE Fail("dup2") /\ Terminate(p, Exited(0))
  <2>1. failures' \in Nat
    BY <1>2, <1>4 DEF Fail
  <2> QED BY <1>1, <1>4, <2>1, StatusTyped, TerminateOk
<1> QED BY <1>3, <1>4 DEF RightChild

\* The parent closes its end of the pipe.
LEMMA CloseEndOk ==
  ASSUME ProcInv, NEW p \in Others, CloseWriteEnd(p) \/ CloseReadEnd(p)
  PROVE ProcInv'
<1>1. o \in Systems /\ failures \in Nat /\ p \in Proc /\ READ \in FD /\ WRITE \in FD
  BY Descriptors DEF ProcInv, TypeInv, Others
<1>2. <<"close", "fork_right">> \in Moves /\ <<"close_read", "wait_left">> \in Moves
  BY DEF Moves
<1>3. CASE CloseWriteEnd(p)
  <2>1. /\ At(p, "close") /\ o' = Close(o, p, WRITE) /\ Goto(p, "fork_right")
        /\ UNCHANGED <<line, status, last, failures>>
    BY <1>3 DEF CloseWriteEnd
  <2>2. o' \in Systems
    BY <1>1, <2>1, CloseDoes
  <2> QED BY <1>1, <1>2, <2>1, <2>2, GotoOk
<1>4. CASE CloseReadEnd(p)
  <2>1. /\ At(p, "close_read") /\ o' = Close(o, p, READ) /\ Goto(p, "wait_left")
        /\ UNCHANGED <<line, status, last, failures>>
    BY <1>4 DEF CloseReadEnd
  <2>2. o' \in Systems
    BY <1>1, <2>1, CloseDoes
  <2> QED BY <1>1, <1>2, <2>1, <2>2, GotoOk
<1> QED BY <1>3, <1>4

LEMMA WaitLeftOk ==
  ASSUME ProcInv, NEW p \in Others, WaitLeft(p)
  PROVE ProcInv'
<1> DEFINE next == IF self[p].right = None THEN "exit" ELSE "wait_right"
           w == [self[p] EXCEPT !.pc = next]
<1>1. /\ self[p].pc = "wait_left" /\ At(self[p].left, "zombie")
      /\ self' = [self EXCEPT ![self[p].left] = NoProc, ![p].pc = next]
      /\ UNCHANGED <<o, line, status, last, failures>>
  BY DEF WaitLeft, At
<1>2. PICK c \in Others : c = self[p].left /\ self[c].parent = p
  BY <1>1 DEF ProcInv, ChildInv, IsChild, LeftHere
<1>3. p \in Proc /\ c \in Proc /\ self[p] \in Processes /\ self \in [Proc -> Processes] /\ c # p
  <2>1. p \in Proc /\ c \in Proc
    BY DEF Others
  <2>2. c # p
    BY <1>1, <1>2 DEF At
  <2> QED BY <2>1, <2>2 DEF ProcInv, TypeInv
<1>4. next \in Pcs
  BY DEF Pcs, Childless, RightHere
<1>5. /\ w \in Processes /\ w.pc = next /\ w.parent = self[p].parent /\ w.cmd = self[p].cmd
      /\ w.back = self[p].back /\ w.left = self[p].left /\ w.right = self[p].right
  <2> HIDE DEF next
  <2> QED BY <1>3, <1>4 DEF Processes
<1>6. self' = [self EXCEPT ![c] = NoProc, ![p] = w]
  BY <1>1, <1>2, <1>3
<1> HIDE DEF w
<1>7. /\ self' \in [Proc -> Processes] /\ self'[c] = NoProc /\ self'[p] = w
      /\ \A q \in Proc \ {p, c} : self'[q] = self[q]
  BY <1>3, <1>5, <1>6, NoProcTyped
<1> HIDE DEF next
<1>8. /\ self[p].pc = "wait_left" /\ c = self[p].left
      /\ self'[p].pc = IF self[p].right = None THEN "exit" ELSE "wait_right"
  BY <1>1, <1>2, <1>5, <1>7 DEF next
<1>9. UNCHANGED <<o, line, status, last, failures>> /\ At(c, "zombie") /\ self[c].parent = p
  BY <1>1, <1>2
<1> QED BY ONLY ProcInv, p \in Others, c \in Others, <1>3, <1>5, <1>7, <1>8, <1>9, ReapOk

LEMMA WaitRightOk ==
  ASSUME ProcInv, NEW p \in Others, WaitRight(p)
  PROVE ProcInv'
<1> DEFINE w == [self[p] EXCEPT !.pc = "exit"]
<1>1. /\ self[p].pc = "wait_right" /\ At(self[p].right, "zombie")
      /\ self' = [self EXCEPT ![self[p].right] = NoProc, ![p].pc = "exit"]
      /\ UNCHANGED <<o, line, status, last, failures>>
  BY DEF WaitRight, At
<1>2. PICK c \in Others : c = self[p].right /\ self[c].parent = p
  <2>1. self[p].right # None
    BY <1>1 DEF ProcInv, ChildInv
  <2> QED BY <1>1, <2>1 DEF ProcInv, ChildInv, IsChild, RightHere
<1>3. p \in Proc /\ c \in Proc /\ self[p] \in Processes /\ self \in [Proc -> Processes] /\ c # p
  <2>1. p \in Proc /\ c \in Proc
    BY DEF Others
  <2>2. c # p
    BY <1>1, <1>2 DEF At
  <2> QED BY <2>1, <2>2 DEF ProcInv, TypeInv
<1>4. "exit" \in Pcs
  BY DEF Pcs, Childless
<1>5. /\ w \in Processes /\ w.pc = "exit" /\ w.parent = self[p].parent /\ w.cmd = self[p].cmd
      /\ w.back = self[p].back /\ w.left = self[p].left /\ w.right = self[p].right
  BY <1>3, <1>4 DEF Processes
<1>6. self' = [self EXCEPT ![c] = NoProc, ![p] = w]
  BY <1>1, <1>2, <1>3
<1> HIDE DEF w
<1>7. /\ self' \in [Proc -> Processes] /\ self'[c] = NoProc /\ self'[p] = w
      /\ \A q \in Proc \ {p, c} : self'[q] = self[q]
  BY <1>3, <1>5, <1>6, NoProcTyped
<1>8. self[p].pc = "wait_right" /\ c = self[p].right /\ self'[p].pc = "exit"
  BY <1>1, <1>2, <1>5, <1>7
<1>9. UNCHANGED <<o, line, status, last, failures>> /\ At(c, "zombie") /\ self[c].parent = p
  BY <1>1, <1>2
<1> QED BY ONLY ProcInv, p \in Others, c \in Others, <1>3, <1>5, <1>7, <1>8, <1>9, ReapOk

LEMMA ExitOk ==
  ASSUME ProcInv, NEW p \in Others, Exit(p)
  PROVE ProcInv'
<1>1. self[p].pc \in Childless /\ Terminate(p, Exited(0)) /\ failures' = failures
  BY DEF Exit, At, Childless
<1> QED BY <1>1, ChildlessAt, StatusTyped, TerminateOk

\* A program stays a program, or ends.
LEMMA ProgramIs ==
  ASSUME ProcInv, OpenInv, NEW p \in Others, Program(p)
  PROVE /\ self[p].pc = "run" /\ failures' = failures
        /\ \/ \E ret \in Nat : Terminate(p, ret)
           \/ /\ \E n \in {0, 1} : self' = [self EXCEPT ![p] = [self[p] EXCEPT !.n = n]]
              /\ o' \in Systems /\ o'.fds = o.fds /\ UNCHANGED <<line, status, last>>
<1>1. self[p].pc = "run" /\ self[p].pc \in Childless /\ failures' = failures
  BY DEF Program, At, Childless
<1>2. p \in Proc /\ Alive(p) /\ self[p] \in Processes /\ o \in Systems /\ 0 \in FD /\ 1 \in FD
  BY <1>1, ChildlessAt, Descriptors
<1>3. self[p] = [self[p] EXCEPT !.n = self[p].n] /\ self[p].n \in {0, 1}
  BY <1>2 DEF Processes
<1> DEFINE Count(k) == [self[p] EXCEPT !.n = k]
           Goal == \/ \E ret \in Nat : Terminate(p, ret)
                   \/ /\ \E n \in {0, 1} : self' = [self EXCEPT ![p] = Count(n)]
                      /\ o' \in Systems /\ o'.fds = o.fds /\ UNCHANGED <<line, status, last>>
<1>4. ASSUME NEW k \in {0, 1}, Emit(p, Count(k)) PROVE Goal
  <2>1. 13 \in Nat
    OBVIOUS
  <2>2. ASSUME IF IsPipe(p, 1) THEN CanWrite(o, p, 1) /\ o' = Write(o, p, 1, "x") ELSE UNCHANGED o
        PROVE o' \in Systems /\ o'.fds = o.fds
    BY <1>2, <2>2, ItemsDo DEF IsPipe
  <2> QED BY <1>4, <2>1, <2>2 DEF Emit
<1>5. ASSUME NEW k \in {0, 1}, Take(p, Count(k)) PROVE Goal
  <2>1. o' \in Systems /\ o'.fds = o.fds
    BY <1>2, <1>5, ItemsDo DEF Take, IsPipe
  <2> QED BY <1>5, <2>1 DEF Take
<1>6. 0 \in {0, 1} /\ 1 \in {0, 1} /\ Exited(0) \in Nat /\ Exited(1) \in Nat
  BY StatusTyped
<1>7. Emit(p, self[p]) => Emit(p, Count(self[p].n))
  BY <1>3
<1>8. \/ Emit(p, self[p]) \/ Emit(p, Count(1)) \/ Emit(p, Count(0)) \/ Take(p, Count(1))
      \/ Terminate(p, Exited(0)) \/ Terminate(p, Exited(1))
  BY DEF Program
<1>9. Goal
  <2> HIDE DEF Goal, Count
  <2>1. Terminate(p, Exited(0)) \/ Terminate(p, Exited(1)) => Goal
    BY <1>6 DEF Goal
  <2> QED BY <1>3, <1>4, <1>5, <1>6, <1>7, <1>8, <2>1
<1> QED BY <1>1, <1>9

LEMMA ProgramOk ==
  ASSUME ProcInv, OpenInv, NEW p \in Others, Program(p)
  PROVE ProcInv'
<1>1. /\ self[p].pc = "run" /\ failures' = failures
      /\ \/ \E ret \in Nat : Terminate(p, ret)
         \/ /\ \E n \in {0, 1} : self' = [self EXCEPT ![p] = [self[p] EXCEPT !.n = n]]
            /\ o' \in Systems /\ o'.fds = o.fds /\ UNCHANGED <<line, status, last>>
  BY ProgramIs
<1>2. self[p].pc \in Childless
  BY <1>1 DEF Childless
<1>3. /\ p \in Proc /\ Alive(p) /\ self[p] \in Processes /\ self[p].cmd \in Runnable
      /\ failures \in Nat /\ self[p].cmd.type = "EXEC"
  BY <1>1, <1>2, ChildlessAt DEF ProcInv, PcInv, At
<1>4. CASE \E ret \in Nat : Terminate(p, ret)
  BY <1>1, <1>2, <1>3, <1>4, TerminateOk
<1>5. CASE /\ \E n \in {0, 1} : self' = [self EXCEPT ![p] = [self[p] EXCEPT !.n = n]]
           /\ o' \in Systems /\ UNCHANGED <<line, status, last>>
  <2>1. PICK n \in {0, 1} : self' = [self EXCEPT ![p] = [self[p] EXCEPT !.n = n]]
    BY <1>5
  <2> DEFINE s == [self[p] EXCEPT !.n = n]
  <2>2. /\ s \in Processes /\ s.pc = "run" /\ s.cmd = self[p].cmd /\ s.parent = self[p].parent
        /\ s.back = self[p].back /\ s.left = self[p].left /\ s.right = self[p].right
    BY <1>1, <1>3 DEF Processes
  <2>3. self' = [self EXCEPT ![p] = s]
    BY <2>1
  <2> HIDE DEF s
  <2>4. Continues(p, s)
    BY <1>1, <1>3, <2>2 DEF Continues, Childless, LeftHere, RightHere
  <2> QED BY <1>1, <1>3, <1>5, <2>3, <2>4, ContinuesOk
<1> QED BY <1>1, <1>4, <1>5

LEMMA StepOk ==
  ASSUME ProcInv, OpenInv, NEW p \in Others, Step(p)
  PROVE ProcInv'
BY ExecBackOk, ExecRedirOk, ExecProgramOk, MakePipeOk, ForkLeftOk, LeftChildOk, CloseEndOk,
   ForkRightOk, RightChildOk, WaitLeftOk, WaitRightOk, ExitOk, ProgramOk DEF Step

LEMMA ProcInit ==
  ASSUME Init
  PROVE ProcInv
<1>1. Shell \in Proc /\ Shell \notin Others
  BY ShellAssumption DEF Others
<1> DEFINE w == Process("prompt", None, None, FALSE)
<1>2. /\ w \in Processes /\ w.pc = "prompt" /\ w.parent = None /\ w.right = None /\ w.back = FALSE
  <2>1. "prompt" \in Pcs /\ None \in Runnable \cup {None} /\ None \in Proc \cup {None} /\ FALSE \in BOOLEAN
    BY DEF Pcs, ShellPcs
  <2> QED BY <2>1 DEF Process, Processes
<1>3. /\ self \in [Proc -> Processes] /\ self[Shell] = w
      /\ \A p \in Others : self[p] = NoProc
  <2> HIDE DEF w
  <2>1. self = [p \in Proc |-> IF p = Shell THEN w ELSE NoProc]
    BY DEF Init, w
  <2> QED BY <1>1, <1>2, <2>1, NoProcTyped DEF Others
<1> HIDE DEF w
<1>4. \A p \in Others : self[p].pc = "none" /\ ~Exists(p) /\ ~Alive(p) /\ self[p].right = None
  BY <1>3, NoProcTyped DEF Exists, Alive, At
<1>5. TypeInv
  <2>1. o \in Systems
    <3>1. <<>> \in Seq({"x"})
      OBVIOUS
    <3> QED BY <3>1, NoneDescribed DEF Init, Systems
  <2>2. line = 0 /\ status = 0 /\ last = NotSimple /\ failures = 0
    BY DEF Init
  <2> QED BY <1>3, <2>1, <2>2 DEF TypeInv
<1>6. PcInv
  <2>1. ~self[Shell].back
    BY <1>2, <1>3
  <2>2. "none" \notin ShellPcs \cup {"fork_left", "run"} \cup LeftHere \cup RightHere
    BY DEF ShellPcs, LeftHere, RightHere
  <2> QED BY <1>2, <1>3, <1>4, <2>1, <2>2 DEF PcInv, ShellPcs, At
<1>7. ParentInv
  BY <1>4 DEF ParentInv
<1>8. ChildInv
  <2>1. "none" \notin LeftHere \cup RightHere \cup {"close_read", "wait_right"} \cup Childless \cup {"close", "fork_right"}
    BY DEF LeftHere, RightHere, Childless
  <2> QED BY <1>4, <2>1 DEF ChildInv
<1>9. Rooted
  BY <1>4 DEF Rooted
<1>10. StatusInv
  BY <1>2, <1>3 DEF Init, StatusInv, At
<1> QED BY <1>5, <1>6, <1>7, <1>8, <1>9, <1>10 DEF ProcInv

-----------------------------------------------------------------------------
(* What the steps do to the descriptors                                    *)

\* q looks the same; and its parent, to q.
SameView(q) ==
  /\ self'[q].cmd = self[q].cmd /\ self'[q].parent = self[q].parent /\ o'.fds[q] = o.fds[q]
  /\ self'[q].pc = self[q].pc \/ {self'[q].pc, self[q].pc} \cap {"left", "right"} = {}
SameHome(q, h) ==
  /\ q = self'[h].left <=> q = self[h].left
  /\ q = self'[h].right <=> q = self[h].right
  /\ o'.fds[h][0] = o.fds[h][0] /\ o'.fds[h][1] = o.fds[h][1]

LEMMA ViewKept ==
  ASSUME NEW q \in Others, SameView(q)
  PROVE /\ In(q)' = In(q) /\ Out(q)' = Out(q)
        /\ Opened(q)' <=> Opened(q)
        /\ OwnIn(q)' <=> OwnIn(q)
        /\ OwnOut(q)' <=> OwnOut(q)
        /\ At(q, "left")' <=> At(q, "left")
        /\ At(q, "right")' <=> At(q, "right")
<1>1. At(q, "left")' <=> At(q, "left")
  BY DEF SameView, At
<1>2. At(q, "right")' <=> At(q, "right")
  BY DEF SameView, At
<1>3. self'[q].cmd = self[q].cmd /\ o'.fds[q] = o.fds[q]
  BY DEF SameView
<1> QED BY <1>1, <1>2, <1>3 DEF In, Out, Opened, OwnIn, OwnOut

LEMMA StandardKept ==
  ASSUME NEW q \in Others, SameView(q), SideAt(q), InAt(q), OutAt(q), ErrAt(q),
         self[q].parent # Shell => SameHome(q, self[q].parent)
  PROVE SideAt(q)' /\ InAt(q)' /\ OutAt(q)' /\ ErrAt(q)'
<1>1. /\ In(q)' = In(q) /\ Out(q)' = Out(q)
      /\ Opened(q)' <=> Opened(q)
      /\ OwnIn(q)' <=> OwnIn(q)
      /\ OwnOut(q)' <=> OwnOut(q)
      /\ At(q, "left")' <=> At(q, "left")
      /\ At(q, "right")' <=> At(q, "right")
  BY ViewKept
<1>2. self'[q].cmd = self[q].cmd /\ self'[q].parent = self[q].parent /\ o'.fds[q] = o.fds[q]
  BY DEF SameView
<1>3. ReadsPipe(q)' <=> ReadsPipe(q)
  BY <1>2 DEF ReadsPipe, SameHome
<1>4. WritesPipe(q)' <=> WritesPipe(q)
  BY <1>2 DEF WritesPipe, SameHome
<1>5. SideAt(q)'
  <2>1. self'[q].pc \in {"left", "right"} => self[q].pc \in {"left", "right"}
    BY <1>1 DEF At
  <2> QED BY <2>1, <1>1, <1>2, <1>3, <1>4 DEF SideAt
<1>6. self[q].parent # Shell =>
        /\ o'.fds[self[q].parent][0] = o.fds[self[q].parent][0]
        /\ o'.fds[self[q].parent][1] = o.fds[self[q].parent][1]
  BY DEF SameHome
<1>7. InAt(q)'
  BY <1>1, <1>2, <1>3, <1>6 DEF InAt
<1>8. OutAt(q)'
  BY <1>1, <1>2, <1>4, <1>6 DEF OutAt
<1>9. ErrAt(q)'
  BY <1>1, <1>2 DEF ErrAt
<1> QED BY <1>5, <1>7, <1>8, <1>9

LEMMA SamePipeKept ==
  ASSUME NEW q \in Others, NEW h, NEW k \in Pipe, SamePipe(q, h, k), Out(q)' = Out(q),
         self'[h].pc \in Reads => self[h].pc \in Reads /\ o'.fds[h][READ] = o.fds[h][READ],
         \A r \in Others : Alive(r)' /\ self'[r].parent = h /\ r = self'[h].right /\ OwnIn(r)' =>
           /\ Alive(r) /\ self[r].parent = h /\ r = self[h].right /\ OwnIn(r)
           /\ In(r)' = In(r)
  PROVE SamePipe(q, h, k)'
BY DEF SamePipe

LEMMA OpenKept ==
  ASSUME NEW q \in Others, OpenAt(q), self'[q].pc = self[q].pc, o'.fds[q] = o.fds[q]
  PROVE OpenAt(q)'
BY DEF OpenAt

DescriptorInv == OpenInv /\ StandardInv /\ PipeInv

\* The parent of a process
LEMMA ParentIs ==
  ASSUME ProcInv, NEW q \in Others, Alive(q), self[q].parent # Shell
  PROVE /\ self[q].parent \in Others \ {q} /\ Alive(self[q].parent)
        /\ self[self[q].parent].pc \in LeftHere \cup RightHere
        /\ ChildOf(q, self[q].parent)
<1>1. Exists(q)
  BY DEF Alive
<1>2. /\ self[q].parent \in Others /\ Alive(self[q].parent)
      /\ self[self[q].parent].pc \in LeftHere \cup RightHere
  BY <1>1, ParentExists DEF ProcInv
<1> QED BY <1>1, <1>2 DEF ProcInv, ParentInv

\* p goes on: its descriptors are what In and Out said they would be.
Moved(p) ==
  /\ Alive(p) /\ Alive(p)' /\ self'[p].pc \notin {"left", "right"}
  /\ self'[p].parent = self[p].parent /\ self'[p].left = self[p].left /\ self'[p].right = self[p].right
  /\ \A q \in Proc \ {p} : self'[q] = self[q] /\ o'.fds[q] = o.fds[q]
  /\ IF OwnIn(p)' THEN OwnIn(p) /\ o'.fds[p][0] = In(p) ELSE o'.fds[p][0] = File(self'[p].cmd.in)
  /\ IF OwnOut(p)' THEN OwnOut(p) /\ o'.fds[p][1] = Out(p) ELSE o'.fds[p][1] = File(self'[p].cmd.out)
  /\ ErrAt(p)' /\ OpenAt(p)'
  /\ self[p].pc \in LeftHere \cup RightHere =>
       /\ o'.fds[p][0] = o.fds[p][0] /\ o'.fds[p][1] = o.fds[p][1]
       /\ self'[p].pc \in Reads => self[p].pc \in Reads /\ o'.fds[p][READ] = o.fds[p][READ]

LEMMA MovedOk ==
  ASSUME ProcInv, DescriptorInv, NEW p \in Others, Moved(p)
  PROVE DescriptorInv'
<1>1. p \in Proc /\ p # Shell /\ Shell \in Proc
  BY ShellAssumption DEF Others
<1>2. \A q \in Others : q # p => self'[q] = self[q] /\ o'.fds[q] = o.fds[q]
  BY DEF Moved, Others
<1>3. self'[Shell] = self[Shell] /\ o'.fds[Shell] = o.fds[Shell]
  BY <1>1 DEF Moved
<1>4. \A q \in Others : Alive(q)' <=> Alive(q)
  BY <1>2 DEF Moved, Alive, Exists, At
<1>5. \A q \in Proc : self'[q].parent = self[q].parent /\ self'[q].left = self[q].left
                      /\ self'[q].right = self[q].right
  BY DEF Moved
<1>6. /\ OwnIn(p)' => OwnIn(p) /\ In(p)' = In(p)
      /\ OwnOut(p)' => OwnOut(p) /\ Out(p)' = Out(p)
  BY DEF Moved, In, Out, At
<1>7. \A q \in Others : q # p => SameView(q)
  BY <1>2 DEF SameView
<1>8. OpenInv'
  <2>1. Alive(Shell)' => Alive(Shell)
    BY <1>3 DEF Alive, Exists, At
  <2>2. ASSUME NEW q \in Others, Alive(q)' PROVE OpenAt(q)'
    <3>1. CASE q = p
      BY <3>1 DEF Moved
    <3>2. CASE q # p
      BY <3>2, <2>2, <1>2, <1>4, OpenKept DEF DescriptorInv, OpenInv
    <3> QED BY <3>1, <3>2
  <2> QED BY <2>1, <2>2, <1>3 DEF DescriptorInv, OpenInv
<1>9. StandardInv'
  <2> SUFFICES ASSUME NEW q \in Others, Alive(q)'
               PROVE SideAt(q)' /\ InAt(q)' /\ OutAt(q)' /\ ErrAt(q)'
    BY DEF StandardInv
  <2>1. Alive(q) /\ SideAt(q) /\ InAt(q) /\ OutAt(q) /\ ErrAt(q)
    BY <1>4 DEF DescriptorInv, StandardInv
  <2>2. self[q].parent # Shell =>
          /\ self[q].parent \in Others \ {q}
          /\ self[self[q].parent].pc \in LeftHere \cup RightHere
    BY <2>1, ParentIs
  <2>3. self[q].parent # Shell => SameHome(q, self[q].parent)
    <3>1. SUFFICES ASSUME NEW h \in Others, h = self[q].parent, self[h].pc \in LeftHere \cup RightHere
                   PROVE SameHome(q, h)
      BY <2>2
    <3>2. o'.fds[h][0] = o.fds[h][0] /\ o'.fds[h][1] = o.fds[h][1]
      BY <3>1, <1>2 DEF Moved
    <3>3. self'[h].left = self[h].left /\ self'[h].right = self[h].right
      BY <1>5 DEF Others
    <3> QED BY <3>2, <3>3 DEF SameHome
  <2>4. CASE q = p
    <3>1. ReadsPipe(p)' <=> ReadsPipe(p)
      BY <2>3, <2>4, <1>5, <1>1 DEF ReadsPipe, SameHome
    <3>2. WritesPipe(p)' <=> WritesPipe(p)
      BY <2>3, <2>4, <1>5, <1>1 DEF WritesPipe, SameHome
    <3>3. SideAt(p)'
      BY DEF Moved, SideAt, At
    <3>4. self[p].parent # Shell => /\ o'.fds[self[p].parent][0] = o.fds[self[p].parent][0]
                                    /\ o'.fds[self[p].parent][1] = o.fds[self[p].parent][1]
      BY <2>3, <2>4 DEF SameHome
    <3>5. InAt(p)'
      <4>1. CASE ~OwnIn(p)'
        BY <4>1 DEF InAt, Moved
      <4>2. CASE OwnIn(p)'
        <5>1. OwnIn(p) /\ o'.fds[p][0] = In(p) /\ In(p)' = In(p)
          BY <4>2, <1>6 DEF Moved
        <5>2. CASE ReadsPipe(p)
          <6>1. \E k \in Pipe : In(p) = RdEnd(k)
            BY <5>1, <5>2, <2>1, <2>4 DEF InAt
          <6> QED BY <4>2, <5>1, <5>2, <6>1, <3>1 DEF InAt
        <5>3. CASE ~ReadsPipe(p)
          <6>1. In(p) = o.fds[p][0]
            BY <5>3, <2>1, <2>4 DEF SideAt, In
          <6>2. o.fds[p][0] = IF self[p].parent = Shell THEN TTY ELSE o.fds[self[p].parent][0]
            BY <5>1, <5>3, <2>1, <2>4 DEF InAt
          <6>3. self'[p].parent = self[p].parent
            BY <1>1, <1>5
          <6> QED BY <4>2, <5>1, <5>3, <6>1, <6>2, <6>3, <3>1, <3>4 DEF InAt
        <5> QED BY <5>2, <5>3
      <4> QED BY <4>1, <4>2
    <3>6. OutAt(p)'
      <4>1. CASE ~OwnOut(p)'
        BY <4>1 DEF OutAt, Moved
      <4>2. CASE OwnOut(p)'
        <5>1. OwnOut(p) /\ o'.fds[p][1] = Out(p) /\ Out(p)' = Out(p)
          BY <4>2, <1>6 DEF Moved
        <5>2. CASE WritesPipe(p)
          <6>1. \E k \in Pipe : Out(p) = WrEnd(k)
            BY <5>1, <5>2, <2>1, <2>4 DEF OutAt
          <6> QED BY <4>2, <5>1, <5>2, <6>1, <3>2 DEF OutAt
        <5>3. CASE ~WritesPipe(p)
          <6>1. Out(p) = o.fds[p][1]
            BY <5>3, <2>1, <2>4 DEF SideAt, Out
          <6>2. o.fds[p][1] = IF self[p].parent = Shell THEN TTY ELSE o.fds[self[p].parent][1]
            BY <5>1, <5>3, <2>1, <2>4 DEF OutAt
          <6>3. self'[p].parent = self[p].parent
            BY <1>1, <1>5
          <6> QED BY <4>2, <5>1, <5>3, <6>1, <6>2, <6>3, <3>2, <3>4 DEF OutAt
        <5> QED BY <5>2, <5>3
      <4> QED BY <4>1, <4>2
    <3>7. ErrAt(p)'
      BY DEF Moved
    <3> QED BY <2>4, <3>3, <3>5, <3>6, <3>7
  <2>5. CASE q # p
    BY <2>1, <2>3, <2>5, <1>7, StandardKept
  <2> QED BY <2>4, <2>5
<1>10. PipeInv'
  <2> SUFFICES ASSUME NEW q \in Others, Alive(q)', WritesPipe(q)', OwnOut(q)'
               PROVE \E k \in Pipe : SamePipe(q, self[q].parent, k)'
    BY DEF PipeInv
  <2>1. Alive(q) /\ self[q].parent # Shell /\ self'[q].parent = self[q].parent
    BY <1>4, <1>5 DEF WritesPipe, Others
  <2>2. PICK h \in Others : h = self[q].parent /\ self[h].pc \in LeftHere \cup RightHere
    BY <2>1, ParentIs
  <2>3. self'[h].left = self[h].left /\ self'[h].right = self[h].right
    BY <1>5 DEF Others
  <2>4. WritesPipe(q)
    BY <2>1, <2>2, <2>3 DEF WritesPipe
  <2>5. OwnOut(q) /\ Out(q)' = Out(q)
    BY <1>6, <1>7, ViewKept
  <2>6. PICK k \in Pipe : SamePipe(q, h, k)
    BY <2>1, <2>2, <2>4, <2>5 DEF DescriptorInv, PipeInv
  <2>7. self'[h].pc \in Reads => self[h].pc \in Reads /\ o'.fds[h][READ] = o.fds[h][READ]
    BY <1>2, <2>2 DEF Moved
  <2>8. ASSUME NEW r \in Others, Alive(r)', self'[r].parent = h, r = self'[h].right, OwnIn(r)'
        PROVE /\ Alive(r) /\ self[r].parent = h /\ r = self[h].right /\ OwnIn(r)
              /\ In(r)' = In(r)
    <3>1. OwnIn(r) /\ In(r)' = In(r)
      BY <2>8, <1>6, <1>7, ViewKept
    <3> QED BY <3>1, <2>3, <2>8, <1>4, <1>5 DEF Others
  <2>9. SamePipe(q, h, k)'
    BY <2>5, <2>6, <2>7, <2>8, SamePipeKept
  <2> QED BY <2>1, <2>2, <2>9
<1> QED BY <1>8, <1>9, <1>10 DEF DescriptorInv

\* Nobody's descriptors change; whoever lives on lived before, and has gone on at most to
\* wait for another child or to exit.
Kept(q) ==
  /\ Alive(q) /\ o'.fds[q] = o.fds[q]
  /\ \/ self'[q] = self[q]
     \/ /\ self'[q].pc \in {"wait_right", "exit"} /\ self[q].pc \notin {"left", "right"}
        /\ self'[q].cmd = self[q].cmd /\ self'[q].parent = self[q].parent
        /\ self'[q].left = self[q].left /\ self'[q].right = self[q].right

LEMMA KeptOk ==
  ASSUME ProcInv, ProcInv', DescriptorInv,
         \A q \in Others : Alive(q)' => Kept(q),
         Alive(Shell)' => Alive(Shell) /\ o'.fds[Shell] = o.fds[Shell]
  PROVE DescriptorInv'
<1>1. \A q \in Others : Alive(q)' => SameView(q)
  BY DEF Kept, SameView
<1>2. \A q \in Others : Alive(q)' => /\ self'[q].parent = self[q].parent
                                     /\ self'[q].left = self[q].left /\ self'[q].right = self[q].right
  BY DEF Kept
<1>3. ASSUME NEW q \in Others, Alive(q)', self[q].parent # Shell
      PROVE Alive(self[q].parent)' /\ self[q].parent \in Others
  <2>1. Exists(q)' /\ self'[q].parent # Shell /\ self'[q].parent = self[q].parent
    BY <1>2, <1>3 DEF Alive
  <2>2. self'[q].parent \in Others
    BY <2>1 DEF ProcInv, ParentInv, Others
  <2>3. ChildOf(q, self[q].parent)'
    BY <2>1, <2>2 DEF ProcInv, ParentInv
  <2>4. self'[self'[q].parent].pc \in LeftHere \cup RightHere
    BY <2>3 DEF ChildOf
  <2>5. Alive(self[q].parent)'
    BY <2>4, PcSets DEF Alive, Exists, At
  <2> QED BY <2>1, <2>2, <2>5
<1>4. OpenInv'
  <2>1. ASSUME NEW q \in Others, Alive(q)' PROVE OpenAt(q)'
    <3>1. OpenAt(q) /\ Kept(q)
      BY <2>1 DEF Kept, DescriptorInv, OpenInv
    <3>2. CASE self'[q] = self[q]
      BY <3>1, <3>2, OpenKept DEF Kept
    <3>3. CASE self'[q].pc \in {"wait_right", "exit"}
      <4>1. self'[q].pc \notin Reads /\ o'.fds[q] = o.fds[q]
        BY <3>1, <3>3 DEF Kept, Reads
      <4> QED BY <3>1, <3>3, <4>1 DEF OpenAt
    <3> QED BY <3>1, <3>2, <3>3 DEF Kept
  <2> QED BY <2>1 DEF DescriptorInv, OpenInv
<1>5. StandardInv'
  <2> SUFFICES ASSUME NEW q \in Others, Alive(q)'
               PROVE SideAt(q)' /\ InAt(q)' /\ OutAt(q)' /\ ErrAt(q)'
    BY DEF StandardInv
  <2>1. Alive(q) /\ SideAt(q) /\ InAt(q) /\ OutAt(q) /\ ErrAt(q)
    BY DEF Kept, DescriptorInv, StandardInv
  <2>2. self[q].parent # Shell => SameHome(q, self[q].parent)
    <3>1. SUFFICES ASSUME NEW h \in Others, h = self[q].parent, Alive(h)' PROVE SameHome(q, h)
      BY <1>2, <1>3
    <3>2. Kept(h)
      BY <3>1
    <3>3. self'[h].left = self[h].left /\ self'[h].right = self[h].right
      BY <3>1, <1>2
    <3> QED BY <3>2, <3>3 DEF SameHome, Kept
  <2> QED BY <2>1, <2>2, <1>1, StandardKept
<1>6. PipeInv'
  <2> SUFFICES ASSUME NEW q \in Others, Alive(q)', WritesPipe(q)', OwnOut(q)'
               PROVE \E k \in Pipe : SamePipe(q, self[q].parent, k)'
    BY DEF PipeInv
  <2>1. Alive(q) /\ self[q].parent # Shell /\ self'[q].parent = self[q].parent
    BY <1>2 DEF WritesPipe, Kept
  <2>2. PICK h \in Others : h = self[q].parent /\ Alive(h)'
    BY <2>1, <1>3
  <2>3. self'[h].left = self[h].left /\ self'[h].right = self[h].right /\ Kept(h)
    BY <1>2, <2>2
  <2>4. WritesPipe(q) /\ OwnOut(q) /\ Out(q)' = Out(q)
    <3>1. OwnOut(q) /\ Out(q)' = Out(q)
      BY <1>1, ViewKept
    <3> QED BY <3>1, <2>1, <2>2, <2>3 DEF WritesPipe
  <2>5. PICK k \in Pipe : SamePipe(q, h, k)
    BY <2>1, <2>2, <2>4 DEF DescriptorInv, PipeInv
  <2>6. self'[h].pc \in Reads => self[h].pc \in Reads /\ o'.fds[h][READ] = o.fds[h][READ]
    BY <2>3 DEF Kept, Reads
  <2>7. ASSUME NEW r \in Others, Alive(r)', self'[r].parent = h, r = self'[h].right, OwnIn(r)'
        PROVE /\ Alive(r) /\ self[r].parent = h /\ r = self[h].right /\ OwnIn(r)
              /\ In(r)' = In(r)
    <3>1. OwnIn(r) /\ In(r)' = In(r)
      BY <2>7, <1>1, ViewKept
    <3>2. Alive(r) /\ self[r].parent = self'[r].parent
      BY <2>7, <1>2 DEF Kept
    <3> QED BY <3>1, <3>2, <2>3, <2>7
  <2>8. SamePipe(q, h, k)'
    BY <2>4, <2>5, <2>6, <2>7, SamePipeKept
  <2> QED BY <2>1, <2>2, <2>8
<1> QED BY <1>4, <1>5, <1>6 DEF DescriptorInv

\* The child of a fork has its parent's descriptors: those of a pipe that has been made,
\* for the one side or the other.
LEMMA ForkedOk ==
  ASSUME ProcInv, ProcInv', DescriptorInv, NEW p \in Others, NEW c \in Others, ~Exists(c),
         \A q \in Proc \ {p, c} : self'[q] = self[q],
         \A q \in Proc : o'.fds[q] = IF q = c THEN o.fds[p] ELSE o.fds[q],
         self'[c].cmd \in Commands, self'[c].parent = p,
         self'[p].parent = self[p].parent, self'[p].cmd = self[p].cmd,
         \/ /\ self[p].pc = "fork_left" /\ self'[p].pc = "close" /\ self'[c].pc = "left"
            /\ self'[p].left = c /\ self'[p].right = self[p].right
         \/ /\ self[p].pc = "fork_right" /\ self'[p].pc = "close_read" /\ self'[c].pc = "right"
            /\ self'[p].left = self[p].left /\ self'[p].right = c
  PROVE DescriptorInv'
<1>1. /\ p \in Proc /\ c \in Proc /\ p # Shell /\ c # Shell /\ Shell \in Proc /\ p # c
      /\ self'[Shell] = self[Shell] /\ Alive(p) /\ Alive(p)' /\ Alive(c)' /\ c # None
  BY ShellAssumption, NoneAssumption DEF Others, Alive, Exists, At
<1>2. /\ \A q \in Others : Exists(q) => self[q].parent # c
      /\ \A h \in Others : self[h].pc \in LeftHere => self[h].left # c
      /\ \A h \in Others : self[h].pc \in RightHere => self[h].right # c
  BY NobodyHas
<1>3. \A q \in Others : q \notin {p, c} => self'[q] = self[q] /\ (Alive(q)' <=> Alive(q))
  BY DEF Others, Alive, Exists, At
<1>4. /\ \A q \in Others : q # c => o'.fds[q] = o.fds[q] /\ self'[q].parent = self[q].parent
      /\ o'.fds[c] = o.fds[p] /\ o'.fds[Shell] = o.fds[Shell]
  BY <1>1, <1>3 DEF Others
<1>5. \A q \in Others : q # c => SameView(q)
  <2>1. SameView(p)
    BY <1>1, <1>4 DEF SameView
  <2> QED BY <2>1, <1>3, <1>4 DEF SameView
<1>6. self[p].cmd.type = "PIPE" /\ self[p].right = None
  BY <1>1 DEF ProcInv, PcInv, ChildInv, LeftHere, Childless
<1>7. /\ OpenAt(p) /\ SideAt(p) /\ InAt(p) /\ OutAt(p) /\ ErrAt(p)
      /\ o.fds[p][2] = TTY
  <2>1. OpenAt(p) /\ SideAt(p) /\ InAt(p) /\ OutAt(p) /\ ErrAt(p)
    BY <1>1 DEF DescriptorInv, OpenInv, StandardInv
  <2> QED BY <2>1, <1>6 DEF ErrAt, Opened
<1>8. PICK k \in Pipe : o.fds[p][READ] = RdEnd(k) /\ (self[p].pc = "fork_left" => o.fds[p][WRITE] = WrEnd(k))
  BY <1>7 DEF OpenAt, Reads, Writes
<1>9. OpenInv'
  <2>1. Alive(Shell)' => Alive(Shell)
    BY <1>1 DEF Alive, Exists, At
  <2>2. OpenAt(p)' /\ OpenAt(c)'
    <3>1. CASE self[p].pc = "fork_left"
      <4>1. self'[p].pc = "close" /\ self'[c].pc = "left"
        BY <3>1
      <4> QED BY <3>1, <4>1, <1>1, <1>4, <1>7, <1>8 DEF OpenAt, Reads, Writes
    <3>2. CASE self[p].pc = "fork_right"
      <4>1. self'[p].pc = "close_read" /\ self'[c].pc = "right"
        BY <3>2
      <4> QED BY <3>2, <4>1, <1>1, <1>4, <1>7, <1>8 DEF OpenAt, Reads, Writes
    <3> QED BY <3>1, <3>2
  <2>3. ASSUME NEW q \in Others, Alive(q)', q \notin {p, c} PROVE OpenAt(q)'
    BY <2>3, <1>3, <1>4, OpenKept DEF DescriptorInv, OpenInv
  <2> QED BY <2>1, <2>2, <2>3, <1>4 DEF DescriptorInv, OpenInv
<1>10. OwnIn(c)' /\ OwnOut(c)' /\ o'.fds[c][2] = TTY /\ ErrAt(c)'
  <2>1. self'[c].cmd.type = "EXEC" =>
          self'[c].cmd.in = None /\ self'[c].cmd.out = None /\ self'[c].cmd.err = None
    BY PartsOfCommands
  <2>2. o'.fds[c][2] = TTY
    BY <1>4, <1>7
  <2>3. None # "&1"
    BY NoneAssumption
  <2> QED BY <2>1, <2>2, <2>3 DEF OwnIn, OwnOut, Opened, ErrAt
<1>11. StandardInv'
  <2>1. CASE self[p].pc = "fork_left"
    <3>1. /\ self'[p].pc = "close" /\ self'[c].pc = "left" /\ self'[p].left = c
          /\ self'[p].right = None
      BY <2>1, <1>6
    <3>2. WritesPipe(c)' /\ ~ReadsPipe(c)' /\ SideAt(c)'
      BY <3>1, <1>1 DEF WritesPipe, ReadsPipe, SideAt, At
    <3>3. OutAt(c)'
      <4>1. o'.fds[c][WRITE] = WrEnd(k)
        BY <2>1, <1>4, <1>8
      <4>2. Out(c)' = WrEnd(k)
        BY <3>1, <4>1 DEF Out, At
      <4> QED BY <3>2, <4>2, <1>10 DEF OutAt
    <3>4. InAt(c)'
      <4>1. o'.fds[c][0] = o'.fds[p][0]
        BY <1>1, <1>4
      <4> QED BY <3>2, <4>1, <1>1, <1>10 DEF InAt
    <3>5. \A q \in Others : q # c /\ Alive(q) /\ self[q].parent # Shell => SameHome(q, self[q].parent)
      <4> SUFFICES ASSUME NEW q \in Others, q # c, Alive(q), NEW h \in Others, h = self[q].parent,
                          self[h].pc \in LeftHere \cup RightHere, h # c
                   PROVE SameHome(q, h)
        BY ParentIs, <1>2 DEF Alive
      <4>1. h # p
        BY <2>1 DEF LeftHere, RightHere
      <4> QED BY <4>1, <1>3, <1>4 DEF SameHome
    <3>6. ASSUME NEW q \in Others, q # c, Alive(q)'
          PROVE SideAt(q)' /\ InAt(q)' /\ OutAt(q)' /\ ErrAt(q)'
      <4>1. Alive(q)
        BY <3>6, <1>1, <1>3
      <4>2. SideAt(q) /\ InAt(q) /\ OutAt(q) /\ ErrAt(q)
        BY <4>1 DEF DescriptorInv, StandardInv
      <4> QED BY <3>5, <3>6, <4>1, <4>2, <1>5, StandardKept
    <3> QED BY <3>2, <3>3, <3>4, <3>6, <1>10 DEF StandardInv
  <2>2. CASE self[p].pc = "fork_right"
    <3>1. /\ self'[p].pc = "close_read" /\ self'[c].pc = "right" /\ self'[p].left = self[p].left
          /\ self'[p].right = c /\ self[p].left # c
      BY <2>2, <1>2 DEF LeftHere
    <3>2. ~WritesPipe(c)' /\ ReadsPipe(c)' /\ SideAt(c)'
      BY <3>1, <1>1 DEF WritesPipe, ReadsPipe, SideAt, At
    <3>3. InAt(c)'
      <4>1. o'.fds[c][READ] = RdEnd(k)
        BY <1>4, <1>8
      <4>2. In(c)' = RdEnd(k)
        BY <3>1, <4>1 DEF In, At
      <4> QED BY <3>2, <4>2, <1>10 DEF InAt
    <3>4. OutAt(c)'
      <4>1. o'.fds[c][1] = o'.fds[p][1]
        BY <1>1, <1>4
      <4> QED BY <3>2, <4>1, <1>1, <1>10 DEF OutAt
    <3>5. \A q \in Others : q # c /\ Alive(q) /\ self[q].parent # Shell => SameHome(q, self[q].parent)
      <4> SUFFICES ASSUME NEW q \in Others, q # c, Alive(q), NEW h \in Others, h = self[q].parent, h # c
                   PROVE SameHome(q, h)
        BY ParentIs, <1>2 DEF Alive
      <4>1. o'.fds[h] = o.fds[h]
        BY <1>4
      <4>2. CASE h = p
        <5>1. q # None
          BY NoneAssumption DEF Others
        <5> QED BY <4>1, <4>2, <5>1, <3>1, <1>6 DEF SameHome
      <4>3. CASE h # p
        BY <4>1, <4>3, <1>3 DEF SameHome
      <4> QED BY <4>2, <4>3
    <3>6. ASSUME NEW q \in Others, q # c, Alive(q)'
          PROVE SideAt(q)' /\ InAt(q)' /\ OutAt(q)' /\ ErrAt(q)'
      <4>1. Alive(q)
        BY <3>6, <1>1, <1>3
      <4>2. SideAt(q) /\ InAt(q) /\ OutAt(q) /\ ErrAt(q)
        BY <4>1 DEF DescriptorInv, StandardInv
      <4> QED BY <3>5, <3>6, <4>1, <4>2, <1>5, StandardKept
    <3> QED BY <3>2, <3>3, <3>4, <3>6, <1>10 DEF StandardInv
  <2> QED BY <2>1, <2>2
<1>12. PipeInv'
  <2> SUFFICES ASSUME NEW q \in Others, Alive(q)', WritesPipe(q)', OwnOut(q)'
               PROVE \E j \in Pipe : SamePipe(q, self[q].parent, j)'
    BY DEF PipeInv
  <2>1. CASE q = c
    <3>1. self[p].pc = "fork_left"
      <4>1. self[p].pc = "fork_right" => self'[p].left # c
        BY <1>2 DEF LeftHere
      <4> QED BY <2>1, <4>1 DEF WritesPipe
    <3>2. self'[c].pc = "left" /\ self'[p].right = None
      BY <3>1, <1>6
    <3>3. Out(c)' = WrEnd(k)
      BY <3>1, <3>2, <1>4, <1>8 DEF Out, At
    <3>4. o'.fds[p][READ] = RdEnd(k)
      BY <1>1, <1>4, <1>8
    <3>5. \A r \in Others : r # self'[p].right
      BY <3>2, NoneAssumption DEF Others
    <3>6. SamePipe(c, p, k)'
      BY <3>3, <3>4, <3>5 DEF SamePipe
    <3> QED BY <2>1, <3>6
  <2>2. CASE q # c
    <3>1. Alive(q) /\ self'[q].parent = self[q].parent /\ self[q].parent # Shell
      BY <2>2, <1>1, <1>3, <1>4 DEF WritesPipe
    <3>2. PICK h \in Others : h = self[q].parent /\ h # c /\ self[h].pc \in LeftHere \cup RightHere
      BY <3>1, <1>2, ParentIs DEF Alive
    <3>3. OwnOut(q) /\ Out(q)' = Out(q)
      BY <2>2, <1>5, ViewKept
    <3>4. CASE h = p
      <4>1. self[p].pc = "fork_right" /\ self'[p].left = self[p].left /\ self'[p].right = c
            /\ self'[p].pc = "close_read" /\ self'[c].pc = "right"
        BY <3>2, <3>4 DEF LeftHere, RightHere
      <4>2. WritesPipe(q)
        BY <3>1, <3>2, <3>4, <4>1 DEF WritesPipe
      <4>3. PICK j \in Pipe : SamePipe(q, p, j)
        BY <3>1, <3>2, <3>3, <3>4, <4>2 DEF DescriptorInv, PipeInv
      <4>4. o.fds[p][READ] = RdEnd(j) /\ Out(q) = WrEnd(j)
        BY <4>1, <4>3 DEF SamePipe, Reads
      <4>5. o'.fds[p][READ] = RdEnd(j)
        BY <4>4, <1>1, <1>4
      <4>6. In(c)' = RdEnd(j)
        BY <4>1, <4>4, <1>4 DEF In, At
      <4>7. SamePipe(q, p, j)'
        BY <3>3, <4>1, <4>4, <4>5, <4>6 DEF SamePipe
      <4> QED BY <3>1, <3>2, <3>4, <4>7
    <3>5. CASE h # p
      <4>1. self'[h] = self[h] /\ o'.fds[h] = o.fds[h]
        BY <3>2, <3>5, <1>3, <1>4
      <4>2. WritesPipe(q)
        BY <3>1, <3>2, <4>1 DEF WritesPipe
      <4>3. PICK j \in Pipe : SamePipe(q, h, j)
        BY <3>1, <3>2, <3>3, <4>2 DEF DescriptorInv, PipeInv
      <4>4. ASSUME NEW r \in Others, Alive(r)', self'[r].parent = h, r = self'[h].right, OwnIn(r)'
            PROVE /\ Alive(r) /\ self[r].parent = h /\ r = self[h].right /\ OwnIn(r)
                  /\ In(r)' = In(r)
        <5>1. r # c
          BY <4>4, <3>5
        <5>2. OwnIn(r) /\ In(r)' = In(r)
          BY <4>4, <5>1, <1>5, ViewKept
        <5> QED BY <4>1, <4>4, <5>1, <5>2, <1>1, <1>3, <1>4
      <4>5. SamePipe(q, h, j)'
        BY <3>3, <4>1, <4>3, <4>4, SamePipeKept
      <4> QED BY <3>1, <3>2, <4>5
    <3> QED BY <3>4, <3>5
  <2> QED BY <2>1, <2>2
<1> QED BY <1>9, <1>11, <1>12 DEF DescriptorInv

\* Before it executes anything a child has the command as it was parsed.
LEMMA NothingOpened ==
  ASSUME NEW p \in Others, SideAt(p), self[p].pc \in {"left", "right"}
  PROVE OwnIn(p) /\ OwnOut(p) /\ (Opened(p) => self[p].cmd.err = None)
<1>1. self[p].cmd \in Commands
  BY DEF SideAt
<1> QED BY <1>1, PartsOfCommands DEF OwnIn, OwnOut, Opened

LEMMA ErrKept ==
  ASSUME NEW p \in Others, ErrAt(p), self'[p].cmd = self[p].cmd, o'.fds[p][2] = o.fds[p][2],
         Opened(p) => o'.fds[p][1] = o.fds[p][1] \/ self[p].cmd.err = None
  PROVE ErrAt(p)'
<1>1. None # "&1"
  BY NoneAssumption
<1>2. Opened(p)' <=> Opened(p)
  BY DEF Opened
<1> QED BY <1>1, <1>2 DEF ErrAt

\* p has at most moved: its descriptors 0 and 1 are what it was to have.
LEMMA SteppedMoved ==
  ASSUME ProcInv, DescriptorInv, NEW p \in Others, Alive(p), Alive(p)',
         self'[p].pc \notin {"left", "right"}, self'[p].cmd = self[p].cmd,
         self'[p].parent = self[p].parent, self'[p].left = self[p].left,
         self'[p].right = self[p].right,
         \A q \in Proc \ {p} : self'[q] = self[q] /\ o'.fds[q] = o.fds[q],
         o'.fds[p][0] = In(p), o'.fds[p][1] = Out(p), o'.fds[p][2] = o.fds[p][2],
         OpenAt(p)',
         self[p].pc \in LeftHere \cup RightHere /\ self'[p].pc \in Reads =>
           self[p].pc \in Reads /\ o'.fds[p][READ] = o.fds[p][READ]
  PROVE Moved(p)
<1>1. SideAt(p) /\ InAt(p) /\ OutAt(p) /\ ErrAt(p)
  BY DEF DescriptorInv, StandardInv
<1>2. /\ OwnIn(p)' <=> OwnIn(p)
      /\ OwnOut(p)' <=> OwnOut(p)
  BY DEF OwnIn, OwnOut, Opened
<1>3. self[p].pc \in {"left", "right"} => OwnIn(p) /\ OwnOut(p) /\ (Opened(p) => self[p].cmd.err = None)
  BY <1>1, NothingOpened
<1>4. self[p].pc \notin {"left", "right"} => In(p) = o.fds[p][0] /\ Out(p) = o.fds[p][1]
  BY DEF In, Out, At
<1>5. IF OwnIn(p)' THEN OwnIn(p) /\ o'.fds[p][0] = In(p) ELSE o'.fds[p][0] = File(self'[p].cmd.in)
  <2>1. ~OwnIn(p) => o'.fds[p][0] = File(self'[p].cmd.in)
    BY <1>1, <1>3, <1>4 DEF InAt
  <2> QED BY <1>2, <2>1
<1>6. IF OwnOut(p)' THEN OwnOut(p) /\ o'.fds[p][1] = Out(p) ELSE o'.fds[p][1] = File(self'[p].cmd.out)
  <2>1. ~OwnOut(p) => o'.fds[p][1] = File(self'[p].cmd.out)
    BY <1>1, <1>3, <1>4 DEF OutAt
  <2> QED BY <1>2, <2>1
<1>7. ErrAt(p)'
  BY <1>1, <1>3, <1>4, ErrKept
<1>8. self[p].pc \in LeftHere \cup RightHere => o'.fds[p][0] = o.fds[p][0] /\ o'.fds[p][1] = o.fds[p][1]
  <2>1. self[p].pc \in LeftHere \cup RightHere => self[p].pc \notin {"left", "right"}
    BY DEF LeftHere, RightHere
  <2> QED BY <2>1, <1>4
<1> QED BY <1>5, <1>6, <1>7, <1>8 DEF Moved

LEMMA GotoMoved ==
  ASSUME ProcInv, DescriptorInv, NEW p \in Others, NEW from, NEW to, <<from, to>> \in Moves,
         At(p, from), Goto(p, to),
         \A q \in Proc \ {p} : o'.fds[q] = o.fds[q],
         o'.fds[p][0] = In(p), o'.fds[p][1] = Out(p), o'.fds[p][2] = o.fds[p][2],
         OpenAt(p)', to = "fork_right" => o'.fds[p][READ] = o.fds[p][READ]
  PROVE DescriptorInv'
<1>1. /\ p \in Proc /\ self[p].pc = from /\ to \in Pcs /\ from \notin {"none", "zombie"}
      /\ to \notin {"none", "zombie", "left", "right"}
  BY DEF Others, At, Moves, Pcs, Childless, LeftHere, RightHere
<1>2. PICK s \in Processes :
        /\ self' = [self EXCEPT ![p] = s]
        /\ s.pc = to /\ s.cmd = self[p].cmd /\ s.parent = self[p].parent
        /\ s.back = self[p].back /\ s.left = self[p].left /\ s.right = self[p].right
  BY <1>1, GotoIs DEF ProcInv
<1>3. self'[p] = s /\ \A q \in Proc \ {p} : self'[q] = self[q]
  BY <1>1, <1>2 DEF ProcInv, TypeInv
<1>4. Alive(p) /\ Alive(p)' /\ self'[p].pc = to
  BY <1>1, <1>2, <1>3 DEF Alive, Exists, At
<1>5. from \in LeftHere \cup RightHere /\ to \in Reads => from = "close" /\ to = "fork_right"
  BY DEF Moves, LeftHere, RightHere, Reads
<1>6. self[p].pc \in LeftHere \cup RightHere /\ self'[p].pc \in Reads =>
        self[p].pc \in Reads /\ o'.fds[p][READ] = o.fds[p][READ]
  BY <1>1, <1>4, <1>5 DEF Reads
<1>7. Moved(p)
  BY <1>1, <1>2, <1>3, <1>4, <1>6, SteppedMoved
<1> QED BY <1>7, MovedOk

LEMMA TerminatedOk ==
  ASSUME ProcInv, ProcInv', DescriptorInv, NEW p \in Others, self[p].pc \in Childless, NEW ret \in Nat,
         Terminate(p, ret)
  PROVE DescriptorInv'
<1>1. /\ \A q \in Proc \ {p} : self'[q] = self[q]
      /\ self'[p].pc = "zombie" \/ self'[p] = NoProc
      /\ \A q \in Proc \ {p} : o'.fds[q] = o.fds[q]
  BY TerminateIs
<1>2. ~Alive(p)' /\ p # Shell /\ Shell \in Proc
  BY <1>1, NoProcTyped, ShellAssumption DEF Others, Alive, Exists, At
<1>3. \A q \in Others : Alive(q)' => Kept(q)
  <2> SUFFICES ASSUME NEW q \in Others, Alive(q)' PROVE Kept(q)
    OBVIOUS
  <2>1. q \in Proc \ {p}
    BY <1>2 DEF Others
  <2> QED BY <2>1, <1>1 DEF Kept, Alive, Exists, At
<1>4. Alive(Shell)' => Alive(Shell) /\ o'.fds[Shell] = o.fds[Shell]
  BY <1>1, <1>2 DEF Alive, Exists, At
<1> QED BY <1>3, <1>4, KeptOk

-----------------------------------------------------------------------------
(* The steps again, for the descriptors                                    *)

\* The system call leaves the others' descriptors alone.
LEMMA AliveIs ==
  ASSUME ProcInv, DescriptorInv, NEW p \in Others, self[p].pc \notin {"none", "zombie"}
  PROVE /\ p \in Proc /\ p # Shell /\ Alive(p) /\ o \in Systems /\ self[p] \in Processes
        /\ self \in [Proc -> Processes]
        /\ OpenAt(p) /\ SideAt(p) /\ InAt(p) /\ OutAt(p) /\ ErrAt(p)
        /\ 0 \in FD /\ 1 \in FD /\ 2 \in FD /\ READ \in FD /\ WRITE \in FD
        /\ \A q \in Proc : o.fds[q] \in [FD -> Descriptions]
<1>1. p \in Proc /\ p # Shell /\ Alive(p) /\ o \in Systems
  BY DEF Others, Alive, Exists, At, ProcInv, TypeInv
<1>2. self[p] \in Processes /\ self \in [Proc -> Processes]
  BY <1>1 DEF ProcInv, TypeInv
<1>3. OpenAt(p) /\ SideAt(p) /\ InAt(p) /\ OutAt(p) /\ ErrAt(p)
  BY <1>1 DEF DescriptorInv, OpenInv, StandardInv
<1>4. \A q \in Proc : o.fds[q] \in [FD -> Descriptions]
  BY <1>1, SystemIs
<1> QED BY <1>1, <1>2, <1>3, <1>4, Descriptors

LEMMA SameFds ==
  ASSUME NEW x \in Systems, NEW y \in Systems, NEW q \in Proc,
         \A g \in FD : x.fds[q][g] = y.fds[q][g]
  PROVE x.fds[q] = y.fds[q]
BY SystemIs

\* While only 0, 1 and 2 are open, as before an exec
LEMMA OpenPlain ==
  ASSUME NEW p \in Others, self'[p].pc \notin Reads,
         o'.fds[p][0] # None, o'.fds[p][1] # None, o'.fds[p][2] # None,
         \A g \in FD : g \notin {0, 1, 2} => o'.fds[p][g] = None
  PROVE OpenAt(p)'
<1>1. self'[p].pc \notin Writes
  BY DEF Reads, Writes
<1>2. \A g \in FD : /\ g < 3 => g \in {0, 1, 2}
                    /\ g >= 3 => g \notin {0, 1, 2}
  BY Descriptors
<1> QED BY <1>1, <1>2 DEF OpenAt

LEMMA PlainExec ==
  ASSUME NEW p \in Others, OpenAt(p), self[p].pc \in {"exec", "run"}
  PROVE /\ o.fds[p][0] # None /\ o.fds[p][1] # None /\ o.fds[p][2] # None
        /\ \A g \in FD : g \notin {0, 1, 2} => o.fds[p][g] = None
<1>1. self[p].pc \notin Reads /\ self[p].pc \notin Writes
      /\ self[p].pc \notin {"wait_left", "wait_right", "exit"}
  BY DEF Reads, Writes
<1>2. \A g \in FD : g \notin {0, 1, 2} => g >= 3
  BY Descriptors
<1>3. 0 < 3 /\ 1 < 3 /\ 2 < 3
  OBVIOUS
<1> QED BY <1>1, <1>2, <1>3, Descriptors DEF OpenAt

LEMMA ExecBackMoves ==
  ASSUME ProcInv, DescriptorInv, NEW p \in Others, ExecBack(p)
  PROVE DescriptorInv'
<1>1. self[p].pc = "exec" /\ self[p].cmd.type = "BACK"
      /\ self' = [self EXCEPT ![p].cmd = self[p].cmd.c] /\ o' = o
  BY DEF ExecBack, At
<1>2. /\ p \in Proc /\ p # Shell /\ Alive(p) /\ o \in Systems /\ self[p] \in Processes
      /\ self \in [Proc -> Processes]
      /\ OpenAt(p) /\ SideAt(p) /\ InAt(p) /\ OutAt(p) /\ ErrAt(p)
  BY <1>1, AliveIs
<1>3. self[p].cmd \in Runnable
  BY <1>2 DEF ProcInv, PcInv
<1>4. self[p].cmd.c \in Commands
  BY <1>1, <1>3, RunnableIs, PartsOfCommands
<1> DEFINE s == [self[p] EXCEPT !.cmd = self[p].cmd.c]
<1>5. self' = [self EXCEPT ![p] = s]
  BY <1>1
<1>6. s.pc = "exec" /\ s.cmd = self[p].cmd.c /\ s.parent = self[p].parent
      /\ s.left = self[p].left /\ s.right = self[p].right
  BY <1>1, <1>2 DEF Processes
<1> HIDE DEF s
<1>7. self'[p] = s /\ \A q \in Proc \ {p} : self'[q] = self[q]
  BY <1>2, <1>5
<1>8. Alive(p)'
  BY <1>6, <1>7 DEF Alive, Exists, At
<1>9. OwnIn(p) /\ OwnOut(p) /\ ~Opened(p)
  BY <1>1 DEF OwnIn, OwnOut, Opened
<1>10. OwnIn(p)' /\ OwnOut(p)' /\ (Opened(p)' => self'[p].cmd.err = None)
  BY <1>4, <1>6, <1>7, PartsOfCommands DEF OwnIn, OwnOut, Opened
<1>11. In(p) = o.fds[p][0] /\ Out(p) = o.fds[p][1]
  BY <1>1 DEF In, Out, At
<1>12. ErrAt(p)'
  <2>1. o'.fds[p][2] = TTY
    BY <1>1, <1>2, <1>9 DEF ErrAt
  <2>2. None # "&1"
    BY NoneAssumption
  <2> QED BY <1>10, <2>1, <2>2 DEF ErrAt
<1>13. OpenAt(p)'
  BY <1>1, <1>2, <1>6, <1>7, OpenKept
<1>14. self[p].pc \notin LeftHere \cup RightHere
  BY <1>1 DEF LeftHere, RightHere
<1>15. Moved(p)
  BY <1>1, <1>2, <1>6, <1>7, <1>8, <1>9, <1>10, <1>11, <1>12, <1>13, <1>14 DEF Moved
<1> QED BY <1>15, MovedOk

LEMMA ExecRedirMoves ==
  ASSUME ProcInv, DescriptorInv, NEW p \in Others, ExecRedir(p)
  PROVE DescriptorInv'
<1>1. self[p].pc = "exec" /\ self[p].cmd.type = "REDIR" /\ self[p].pc \in Childless
  BY DEF ExecRedir, At, Childless
<1>2. /\ p \in Proc /\ p # Shell /\ Alive(p) /\ o \in Systems /\ self[p] \in Processes
      /\ self \in [Proc -> Processes]
      /\ OpenAt(p) /\ SideAt(p) /\ InAt(p) /\ OutAt(p) /\ ErrAt(p)
      /\ 0 \in FD /\ 1 \in FD /\ 2 \in FD /\ READ \in FD
  BY <1>1, AliveIs
<1>3. self[p].cmd \in Commands
  BY <1>1, <1>2, RunnableIs DEF ProcInv, PcInv
<1>4. CASE ~CanOpen(self[p].cmd.in)
  <2>1. Terminate(p, Code(-1))
    BY <1>4 DEF ExecRedir
  <2>2. ProcInv'
    BY ExecRedirOk DEF DescriptorInv
  <2> QED BY <1>1, <2>1, <2>2, StatusTyped, TerminatedOk
<1>5. CASE CanOpen(self[p].cmd.in)
  <2> DEFINE d == self[p].cmd
             c == [d EXCEPT !.type = "EXEC"]
             s == [self[p] EXCEPT !.cmd = c]
  <2>1. c.type = "EXEC" /\ c.in = d.in /\ c.out = d.out /\ c.err = d.err
    BY <1>1, <1>3, OpenedCommand
  <2>2. self' = [self EXCEPT ![p] = s] /\ o' = Redirections(p, d)
    BY <1>1, <1>5 DEF ExecRedir
  <2> HIDE DEF c
  <2>3. /\ s.pc = "exec" /\ s.cmd = c /\ s.parent = self[p].parent
        /\ s.left = self[p].left /\ s.right = self[p].right
    BY <1>1, <1>2 DEF Processes
  <2> HIDE DEF s
  <2>4. self'[p] = s /\ \A q \in Proc \ {p} : self'[q] = self[q]
    BY <1>2, <2>2
  <2>5. Alive(p)'
    BY <2>3, <2>4 DEF Alive, Exists, At
  <2>6. /\ o.fds[p][0] # None /\ o.fds[p][1] # None /\ o.fds[p][2] # None
        /\ \A g \in FD : g \notin {0, 1, 2} => o.fds[p][g] = None
    BY <1>1, <1>2, PlainExec
  <2>7. o.fds[p][READ] = None
    BY <1>2, <2>6 DEF READ
  <2>8. /\ o' \in Systems
        /\ \A q \in Proc \ {p}, g \in FD : o'.fds[q][g] = o.fds[q][g]
        /\ \A g \in FD : g \notin {0, 1, 2} => o'.fds[p][g] = o.fds[p][g]
        /\ o'.fds[p][0] = IF d.in # None THEN File(d.in) ELSE o.fds[p][0]
        /\ o'.fds[p][1] = IF d.out # None THEN File(d.out) ELSE o.fds[p][1]
        /\ o'.fds[p][2] = IF d.err = None THEN o.fds[p][2]
                          ELSE IF d.err = "&1" THEN o'.fds[p][1] ELSE File(d.err)
    BY <1>1, <1>2, <1>3, <2>2, <2>6, <2>7, RedirectionsDo
  <2>9. \A q \in Proc \ {p} : o'.fds[q] = o.fds[q]
    BY <1>2, <2>8, SameFds
  <2>10. OwnIn(p) /\ OwnOut(p) /\ ~Opened(p) /\ In(p) = o.fds[p][0] /\ Out(p) = o.fds[p][1]
         /\ o.fds[p][2] = TTY
    <3>1. OwnIn(p) /\ OwnOut(p) /\ ~Opened(p)
      BY <1>1 DEF OwnIn, OwnOut, Opened
    <3> QED BY <1>1, <1>2, <3>1 DEF In, Out, At, ErrAt
  <2>11. self'[p].cmd.type = "EXEC" /\ self'[p].cmd.in = d.in /\ self'[p].cmd.out = d.out
         /\ self'[p].cmd.err = d.err
    BY <2>1, <2>3, <2>4
  <2> HIDE DEF d
  <2>12. /\ OwnIn(p)' <=> d.in = None
         /\ OwnOut(p)' <=> d.out = None
    BY <2>11 DEF OwnIn, OwnOut, Opened
  <2>13. ErrAt(p)'
    <3>1. None # "&1"
      BY NoneAssumption
    <3> QED BY <2>8, <2>10, <2>11, <3>1 DEF ErrAt, Opened
  <2>14. OpenAt(p)'
    <3>1. /\ File(d.in) # None /\ File(d.out) # None /\ File(d.err) # None
      BY <1>1, <1>3, NoneAssumption DEF d
    <3>2. self'[p].pc \notin Reads
      BY <2>3, <2>4 DEF Reads
    <3> QED BY <2>6, <2>8, <3>1, <3>2, OpenPlain
  <2>15. self[p].pc \notin LeftHere \cup RightHere
    BY <1>1 DEF LeftHere, RightHere
  <2>16. Moved(p)
    BY <1>2, <2>3, <2>4, <2>5, <2>8, <2>9, <2>10, <2>11, <2>12, <2>13, <2>14, <2>15 DEF Moved
  <2> QED BY <2>16, MovedOk
<1> QED BY <1>4, <1>5

LEMMA ExecProgramMoves ==
  ASSUME ProcInv, DescriptorInv, NEW p \in Others, ExecProgram(p)
  PROVE DescriptorInv'
<1>1. self[p].pc = "exec" /\ self[p].pc \in Childless
  BY DEF ExecProgram, At, Childless
<1>2. /\ p \in Proc /\ Alive(p) /\ OpenAt(p)
  BY <1>1, AliveIs
<1>3. CASE Terminate(p, Code(-1))
  <2>1. ProcInv'
    BY ExecProgramOk
  <2> QED BY <1>1, <1>3, <2>1, StatusTyped, TerminatedOk
<1>4. CASE Goto(p, "run") /\ UNCHANGED <<o, line, status, last>>
  <2>1. <<"exec", "run">> \in Moves /\ o' = o
    BY <1>4 DEF Moves
  <2>2. In(p) = o.fds[p][0] /\ Out(p) = o.fds[p][1]
    BY <1>1 DEF In, Out, At
  <2>3. self'[p].pc = "run"
    BY <1>2, <1>4, GotoIs DEF ProcInv, TypeInv, Pcs, Childless
  <2>4. OpenAt(p)'
    <3>1. self'[p].pc \notin Reads
      BY <2>3 DEF Reads
    <3> QED BY <1>1, <1>2, <2>1, <3>1, PlainExec, OpenPlain
  <2> QED BY <1>1, <1>4, <2>1, <2>2, <2>4, GotoMoved DEF At
<1> QED BY <1>3, <1>4 DEF ExecProgram

LEMMA MakePipeMoves ==
  ASSUME ProcInv, DescriptorInv, NEW p \in Others, MakePipe(p)
  PROVE DescriptorInv'
<1>1. self[p].pc = "exec" /\ self[p].pc \in Childless /\ At(p, "exec") /\ ProcInv'
  BY MakePipeOk DEF MakePipe, At, Childless, DescriptorInv
<1>2. /\ p \in Proc /\ Alive(p) /\ o \in Systems /\ OpenAt(p)
      /\ 0 \in FD /\ 1 \in FD /\ 2 \in FD /\ READ \in FD /\ WRITE \in FD
  BY <1>1, AliveIs
<1>3. CASE /\ IF FreePipes = {} THEN UNCHANGED failures ELSE Fail("pipe")
           /\ Terminate(p, Exited(0))
  BY <1>1, <1>3, StatusTyped, TerminatedOk
<1>4. CASE /\ FreePipes # {} /\ o' = PipeCall(o, p, FreePipe) /\ Goto(p, "fork_left")
           /\ UNCHANGED <<line, status, last, failures>>
  <2>1. <<"exec", "fork_left">> \in Moves
    BY DEF Moves
  <2>2. PICK k \in Pipe : o' = PipeCall(o, p, k)
    BY <1>4, FreePipeIsFree
  <2>3. FreeFd(o, p) = READ /\ FreeFd2(o, p) = WRITE
    BY <1>1, <1>2, ExecDescriptors, FreeFdIs DEF DescriptorInv
  <2>4. /\ o' \in Systems
        /\ \A q \in Proc, g \in FD :
             o'.fds[q][g] = IF q = p /\ g = READ THEN RdEnd(k)
                            ELSE IF q = p /\ g = WRITE THEN WrEnd(k)
                            ELSE o.fds[q][g]
    BY <1>2, <2>2, <2>3, PipeCallDoes
  <2>5. \A q \in Proc \ {p} : o'.fds[q] = o.fds[q]
    BY <1>2, <2>4, SameFds
  <2>6. READ \notin {0, 1, 2} /\ WRITE \notin {0, 1, 2} /\ READ # WRITE
    BY DEF READ, WRITE
  <2>7. o'.fds[p][0] = o.fds[p][0] /\ o'.fds[p][1] = o.fds[p][1] /\ o'.fds[p][2] = o.fds[p][2]
    BY <1>2, <2>4, <2>6
  <2>8. In(p) = o.fds[p][0] /\ Out(p) = o.fds[p][1]
    BY <1>1 DEF In, Out, At
  <2>9. self'[p].pc = "fork_left"
    BY <1>2, <1>4, GotoIs DEF ProcInv, TypeInv, Pcs, Childless
  <2>10. OpenAt(p)'
    <3>1. /\ o.fds[p][0] # None /\ o.fds[p][1] # None /\ o.fds[p][2] # None
          /\ \A g \in FD : g \notin {0, 1, 2} => o.fds[p][g] = None
      BY <1>1, <1>2, PlainExec
    <3>2. o'.fds[p][READ] = RdEnd(k) /\ o'.fds[p][WRITE] = WrEnd(k)
      BY <1>2, <2>4, <2>6
    <3>3. \A g \in FD : g \notin {0, 1, 2, READ, WRITE} => o'.fds[p][g] = None
      BY <1>2, <2>4, <3>1
    <3>4. \A g \in FD : /\ g < 3 => g \in {0, 1, 2}
                        /\ g >= 3 => g \notin {0, 1, 2}
      BY Descriptors
    <3>5. RdEnd(k) # None /\ WrEnd(k) # None
      BY EndsDescribed
    <3>6. self'[p].pc \in Reads /\ self'[p].pc \in Writes
      BY <2>9 DEF Reads, Writes
    <3>7. \A g \in FD : g < 3 => o'.fds[p][g] # None
      BY <2>7, <3>1, <3>4
    <3>8. \A g \in FD : g >= 3 => (o'.fds[p][g] # None <=> g = READ \/ g = WRITE)
      BY <3>2, <3>3, <3>4, <3>5
    <3> QED BY <3>2, <3>6, <3>7, <3>8 DEF OpenAt
  <2> QED BY <1>1, <1>4, <2>1, <2>5, <2>7, <2>8, <2>10, GotoMoved
<1> QED BY <1>3, <1>4 DEF MakePipe

LEMMA LeftChildMoves ==
  ASSUME ProcInv, DescriptorInv, NEW p \in Others, LeftChild(p)
  PROVE DescriptorInv'
<1>1. self[p].pc = "left" /\ self[p].pc \in Childless /\ At(p, "left") /\ ProcInv'
  BY LeftChildOk DEF LeftChild, At, Childless
<1>2. /\ p \in Proc /\ Alive(p) /\ o \in Systems /\ OpenAt(p)
      /\ 0 \in FD /\ 1 \in FD /\ 2 \in FD /\ READ \in FD /\ WRITE \in FD
  BY <1>1, AliveIs
<1>3. CASE Fail("dup2") /\ Terminate(p, Exited(0))
  BY <1>1, <1>3, StatusTyped, TerminatedOk
<1>4. CASE /\ o' = Close(Dup2(Close(o, p, READ), p, WRITE, 1), p, WRITE) /\ Goto(p, "exec")
           /\ UNCHANGED <<line, status, last, failures>>
  <2>1. <<"left", "exec">> \in Moves
    BY DEF Moves
  <2>2. PICK x \in Systems :
          /\ x = Close(o, p, READ)
          /\ \A q \in Proc, g \in FD : x.fds[q][g] = IF q = p /\ g = READ THEN None ELSE o.fds[q][g]
    BY <1>2, CloseDoes
  <2>3. PICK y \in Systems :
          /\ y = Dup2(x, p, WRITE, 1)
          /\ \A q \in Proc, g \in FD : y.fds[q][g] = IF q = p /\ g = 1 THEN x.fds[p][WRITE] ELSE x.fds[q][g]
    BY <1>2, Dup2Does
  <2>4. /\ o' \in Systems
        /\ \A q \in Proc, g \in FD : o'.fds[q][g] = IF q = p /\ g = WRITE THEN None ELSE y.fds[q][g]
    <3>1. o' = Close(y, p, WRITE)
      BY <1>4, <2>2, <2>3
    <3>2. /\ Close(y, p, WRITE) \in Systems
          /\ \A q \in Proc, g \in FD :
               Close(y, p, WRITE).fds[q][g] = IF q = p /\ g = WRITE THEN None ELSE y.fds[q][g]
      BY <1>2, CloseDoes
    <3> QED BY <3>1, <3>2
  <2>5. READ \notin {0, 1, 2} /\ WRITE \notin {0, 1, 2} /\ READ # WRITE
    BY DEF READ, WRITE
  <2>6. \A q \in Proc \ {p} : o'.fds[q] = o.fds[q]
    <3>1. \A q \in Proc \ {p} : \A g \in FD : o'.fds[q][g] = o.fds[q][g]
      BY <2>2, <2>3, <2>4
    <3> QED BY <1>2, <2>4, <3>1, SameFds
  <2>7. /\ o'.fds[p][0] = o.fds[p][0] /\ o'.fds[p][1] = o.fds[p][WRITE]
        /\ o'.fds[p][2] = o.fds[p][2] /\ o'.fds[p][READ] = None /\ o'.fds[p][WRITE] = None
        /\ \A g \in FD \ {0, 1, 2, READ, WRITE} : o'.fds[p][g] = o.fds[p][g]
    BY <1>2, <2>2, <2>3, <2>4, <2>5
  <2>8. In(p) = o.fds[p][0] /\ Out(p) = o.fds[p][WRITE]
    BY <1>1 DEF In, Out, At
  <2>9. self'[p].pc = "exec"
    BY <1>2, <1>4, GotoIs DEF ProcInv, TypeInv, Pcs, Childless
  <2>10. OpenAt(p)'
    <3>1. self[p].pc \in Reads /\ self[p].pc \in Writes
          /\ self[p].pc \notin {"wait_left", "wait_right", "exit"}
      BY <1>1 DEF Reads, Writes
    <3>2. \E k \in Pipe : o.fds[p][WRITE] = WrEnd(k)
      BY <1>2, <3>1 DEF OpenAt
    <3>3. o.fds[p][0] # None /\ o.fds[p][2] # None /\ o.fds[p][WRITE] # None
      <4>1. 0 < 3 /\ 2 < 3
        OBVIOUS
      <4> QED BY <1>2, <3>2, <4>1, EndsDescribed DEF OpenAt
    <3>4. \A g \in FD : g \notin {0, 1, 2, READ, WRITE} => o.fds[p][g] = None
      <4>1. \A g \in FD : g \notin {0, 1, 2} => g >= 3
        BY Descriptors
      <4> QED BY <1>2, <3>1, <4>1 DEF OpenAt
    <3>5. self'[p].pc \notin Reads
      BY <2>9 DEF Reads
    <3>6. \A g \in FD : g \notin {0, 1, 2} => o'.fds[p][g] = None
      BY <2>7, <3>4
    <3> QED BY <2>7, <3>3, <3>5, <3>6, OpenPlain
  <2> QED BY <1>1, <1>4, <2>1, <2>6, <2>7, <2>8, <2>10, GotoMoved
<1> QED BY <1>3, <1>4 DEF LeftChild

LEMMA RightChildMoves ==
  ASSUME ProcInv, DescriptorInv, NEW p \in Others, RightChild(p)
  PROVE DescriptorInv'
<1>1. self[p].pc = "right" /\ self[p].pc \in Childless /\ At(p, "right") /\ ProcInv'
  BY RightChildOk DEF RightChild, At, Childless
<1>2. /\ p \in Proc /\ Alive(p) /\ o \in Systems /\ OpenAt(p)
      /\ 0 \in FD /\ 1 \in FD /\ 2 \in FD /\ READ \in FD /\ WRITE \in FD
  BY <1>1, AliveIs
<1>3. CASE Fail("dup2") /\ Terminate(p, Exited(0))
  BY <1>1, <1>3, StatusTyped, TerminatedOk
<1>4. CASE /\ o' = Close(Dup2(o, p, READ, 0), p, READ) /\ Goto(p, "exec")
           /\ UNCHANGED <<line, status, last, failures>>
  <2>1. <<"right", "exec">> \in Moves
    BY DEF Moves
  <2>2. PICK y \in Systems :
          /\ y = Dup2(o, p, READ, 0)
          /\ \A q \in Proc, g \in FD : y.fds[q][g] = IF q = p /\ g = 0 THEN o.fds[p][READ] ELSE o.fds[q][g]
    BY <1>2, Dup2Does
  <2>3. /\ o' \in Systems
        /\ \A q \in Proc, g \in FD : o'.fds[q][g] = IF q = p /\ g = READ THEN None ELSE y.fds[q][g]
    <3>1. o' = Close(y, p, READ)
      BY <1>4, <2>2
    <3>2. /\ Close(y, p, READ) \in Systems
          /\ \A q \in Proc, g \in FD :
               Close(y, p, READ).fds[q][g] = IF q = p /\ g = READ THEN None ELSE y.fds[q][g]
      BY <1>2, CloseDoes
    <3> QED BY <3>1, <3>2
  <2>4. READ \notin {0, 1, 2} /\ WRITE \notin {0, 1, 2} /\ READ # WRITE
    BY DEF READ, WRITE
  <2>5. \A q \in Proc \ {p} : o'.fds[q] = o.fds[q]
    <3>1. \A q \in Proc \ {p} : \A g \in FD : o'.fds[q][g] = o.fds[q][g]
      BY <2>2, <2>3
    <3> QED BY <1>2, <2>3, <3>1, SameFds
  <2>6. /\ o'.fds[p][0] = o.fds[p][READ] /\ o'.fds[p][1] = o.fds[p][1]
        /\ o'.fds[p][2] = o.fds[p][2] /\ o'.fds[p][READ] = None
        /\ \A g \in FD \ {0, 1, 2, READ} : o'.fds[p][g] = o.fds[p][g]
    BY <1>2, <2>2, <2>3, <2>4
  <2>7. In(p) = o.fds[p][READ] /\ Out(p) = o.fds[p][1]
    BY <1>1 DEF In, Out, At
  <2>8. self'[p].pc = "exec"
    BY <1>2, <1>4, GotoIs DEF ProcInv, TypeInv, Pcs, Childless
  <2>9. OpenAt(p)'
    <3>1. self[p].pc \in Reads /\ self[p].pc \notin Writes
          /\ self[p].pc \notin {"wait_left", "wait_right", "exit"}
      BY <1>1 DEF Reads, Writes
    <3>2. \E k \in Pipe : o.fds[p][READ] = RdEnd(k)
      BY <1>2, <3>1 DEF OpenAt
    <3>3. o.fds[p][1] # None /\ o.fds[p][2] # None /\ o.fds[p][READ] # None
      <4>1. 1 < 3 /\ 2 < 3
        OBVIOUS
      <4> QED BY <1>2, <3>2, <4>1, EndsDescribed DEF OpenAt
    <3>4. \A g \in FD : g \notin {0, 1, 2, READ} => o.fds[p][g] = None
      <4>1. \A g \in FD : g \notin {0, 1, 2} => g >= 3
        BY Descriptors
      <4> QED BY <1>2, <3>1, <4>1 DEF OpenAt
    <3>5. self'[p].pc \notin Reads
      BY <2>8 DEF Reads
    <3>6. \A g \in FD : g \notin {0, 1, 2} => o'.fds[p][g] = None
      BY <2>6, <3>4
    <3> QED BY <2>6, <3>3, <3>5, <3>6, OpenPlain
  <2> QED BY <1>1, <1>4, <2>1, <2>5, <2>6, <2>7, <2>9, GotoMoved
<1> QED BY <1>3, <1>4 DEF RightChild

LEMMA CloseEndMoves ==
  ASSUME ProcInv, DescriptorInv, NEW p \in Others, CloseWriteEnd(p) \/ CloseReadEnd(p)
  PROVE DescriptorInv'
<1>1. <<"close", "fork_right">> \in Moves /\ <<"close_read", "wait_left">> \in Moves
  BY DEF Moves
<1>2. READ \notin {0, 1, 2} /\ WRITE \notin {0, 1, 2} /\ READ # WRITE
  BY DEF READ, WRITE
<1>3. self[p].pc \in {"close", "close_read"} /\ ProcInv'
  BY CloseEndOk DEF CloseWriteEnd, CloseReadEnd, At
<1>4. /\ p \in Proc /\ Alive(p) /\ o \in Systems /\ OpenAt(p)
      /\ 0 \in FD /\ 1 \in FD /\ 2 \in FD /\ READ \in FD /\ WRITE \in FD
  BY <1>3, AliveIs
<1>5. In(p) = o.fds[p][0] /\ Out(p) = o.fds[p][1]
  BY <1>3 DEF In, Out, At
<1>6. ASSUME NEW f \in {READ, WRITE}, o' = Close(o, p, f)
      PROVE /\ \A q \in Proc \ {p} : o'.fds[q] = o.fds[q]
            /\ \A g \in FD : o'.fds[p][g] = IF g = f THEN None ELSE o.fds[p][g]
            /\ o'.fds[p][0] = In(p) /\ o'.fds[p][1] = Out(p) /\ o'.fds[p][2] = o.fds[p][2]
  <2>1. /\ o' \in Systems
        /\ \A q \in Proc, g \in FD : o'.fds[q][g] = IF q = p /\ g = f THEN None ELSE o.fds[q][g]
    BY <1>4, <1>6, CloseDoes
  <2>2. \A q \in Proc \ {p} : o'.fds[q] = o.fds[q]
    BY <1>4, <2>1, SameFds
  <2> QED BY <1>2, <1>4, <1>5, <2>1, <2>2
<1>7. CASE CloseWriteEnd(p)
  <2>1. /\ At(p, "close") /\ o' = Close(o, p, WRITE) /\ Goto(p, "fork_right")
    BY <1>7 DEF CloseWriteEnd
  <2>2. /\ \A q \in Proc \ {p} : o'.fds[q] = o.fds[q]
        /\ \A g \in FD : o'.fds[p][g] = IF g = WRITE THEN None ELSE o.fds[p][g]
        /\ o'.fds[p][0] = In(p) /\ o'.fds[p][1] = Out(p) /\ o'.fds[p][2] = o.fds[p][2]
    BY <1>6, <2>1
  <2>3. self'[p].pc = "fork_right"
    BY <1>4, <2>1, GotoIs DEF ProcInv, TypeInv, Pcs, LeftHere
  <2>4. OpenAt(p)'
    <3>1. self[p].pc \in Reads /\ self[p].pc \in Writes
          /\ self[p].pc \notin {"wait_left", "wait_right", "exit"}
          /\ self'[p].pc \in Reads /\ self'[p].pc \notin Writes
      BY <2>1, <2>3 DEF Reads, Writes, At
    <3>2. PICK k \in Pipe : o.fds[p][READ] = RdEnd(k)
      BY <1>4, <3>1 DEF OpenAt
    <3>3. o'.fds[p][READ] = RdEnd(k)
      BY <1>2, <1>4, <2>2, <3>2
    <3>4. \A g \in FD : g < 3 => g # WRITE
      BY DEF WRITE
    <3>5. \A g \in FD : g < 3 => o'.fds[p][g] # None
      BY <1>4, <2>2, <3>4 DEF OpenAt
    <3>6. \A g \in FD : g >= 3 => (o'.fds[p][g] # None <=> g = READ)
      <4>1. \A g \in FD : g >= 3 => (o.fds[p][g] # None <=> g = READ \/ g = WRITE)
        BY <1>4, <3>1 DEF OpenAt
      <4> QED BY <1>2, <2>2, <4>1
    <3> QED BY <3>1, <3>3, <3>5, <3>6 DEF OpenAt
  <2>5. o'.fds[p][READ] = o.fds[p][READ]
    BY <1>2, <1>4, <2>2
  <2> QED BY <1>1, <2>1, <2>2, <2>4, <2>5, GotoMoved
<1>8. CASE CloseReadEnd(p)
  <2>1. /\ At(p, "close_read") /\ o' = Close(o, p, READ) /\ Goto(p, "wait_left")
    BY <1>8 DEF CloseReadEnd
  <2>2. /\ \A q \in Proc \ {p} : o'.fds[q] = o.fds[q]
        /\ \A g \in FD : o'.fds[p][g] = IF g = READ THEN None ELSE o.fds[p][g]
        /\ o'.fds[p][0] = In(p) /\ o'.fds[p][1] = Out(p) /\ o'.fds[p][2] = o.fds[p][2]
    BY <1>6, <2>1
  <2>3. self'[p].pc = "wait_left"
    BY <1>4, <2>1, GotoIs DEF ProcInv, TypeInv, Pcs, LeftHere
  <2>4. OpenAt(p)'
    <3>1. self'[p].pc \notin Reads
      BY <2>3 DEF Reads
    <3>2. \A g \in FD : g < 3 => g # READ
      BY DEF READ
    <3>3. \A g \in FD : g < 3 => o'.fds[p][g] # None
      BY <1>4, <2>2, <3>2 DEF OpenAt
    <3> QED BY <2>3, <3>1, <3>3 DEF OpenAt
  <2> QED BY <1>1, <2>1, <2>2, <2>4, GotoMoved
<1> QED BY <1>7, <1>8

LEMMA ForkLeftMoves ==
  ASSUME ProcInv, DescriptorInv, NEW p \in Others, ForkLeft(p)
  PROVE DescriptorInv'
<1>1. self[p].pc = "fork_left" /\ self[p].pc \in Childless /\ ProcInv'
  BY ForkLeftOk DEF ForkLeft, At, Childless
<1>2. /\ p \in Proc /\ o \in Systems /\ self[p] \in Processes /\ self \in [Proc -> Processes]
      /\ Exists(p)
  BY <1>1, AliveIs DEF Alive
<1>3. CASE ForkFails("fork_left") /\ Terminate(p, Exited(0))
  BY <1>1, <1>3, StatusTyped, TerminatedOk
<1>4. CASE /\ NewPids # {} /\ o' = Fork(o, p, NewPid)
           /\ self' = [self EXCEPT ![NewPid] = Child(p, "left", self[p].cmd.left),
                                   ![p].left = NewPid, ![p].pc = "close"]
           /\ UNCHANGED <<line, status, last, failures>>
  <2>1. NewPid \in Others /\ NewPid \in Proc /\ ~Exists(NewPid) /\ NewPid # p
    BY <1>2, <1>4, NewPidIsNew DEF Others
  <2>2. self[p].cmd.left \in Commands
    BY <1>1, PartsOfCommands DEF ProcInv, PcInv
  <2> DEFINE s == [self[p] EXCEPT !.left = NewPid, !.pc = "close"]
  <2>3. /\ s \in Processes /\ s.pc = "close" /\ s.left = NewPid /\ s.right = self[p].right
        /\ s.parent = self[p].parent /\ s.cmd = self[p].cmd
    <3>1. "close" \in Pcs
      BY DEF Pcs, LeftHere
    <3> QED BY <1>2, <2>1, <3>1 DEF Processes
  <2>4. Forked(p, "left", self[p].cmd.left, s)
    BY <1>2, <1>4, <2>1 DEF Forked
  <2> HIDE DEF s
  <2>5. /\ \A q \in Proc \ {p, NewPid} : self'[q] = self[q]
        /\ self'[NewPid].pc = "left" /\ self'[NewPid].cmd = self[p].cmd.left
        /\ self'[NewPid].parent = p /\ self'[p] = s
    <3>1. NewPids # {}
      BY <1>4
    <3>2. s \in Processes
      BY <2>3
    <3> QED BY ONLY ProcInv, p \in Others, <3>1, <3>2, <2>1, <2>2, <2>4, ForkedAre
  <2>6. \A q \in Proc : o'.fds[q] = IF q = NewPid THEN o.fds[p] ELSE o.fds[q]
    BY <1>2, <1>4, <2>1, ForkDoes
  <2>7. /\ self'[NewPid].cmd \in Commands /\ self'[p].parent = self[p].parent
        /\ self'[p].cmd = self[p].cmd /\ self'[p].pc = "close" /\ self'[p].left = NewPid
        /\ self'[p].right = self[p].right
    BY <2>2, <2>3, <2>5
  <2> QED BY ONLY ProcInv, DescriptorInv, p \in Others, <1>1, <2>1, <2>5, <2>6, <2>7, ForkedOk
<1> QED BY <1>3, <1>4 DEF ForkLeft

LEMMA ForkRightMoves ==
  ASSUME ProcInv, DescriptorInv, NEW p \in Others, ForkRight(p)
  PROVE DescriptorInv'
<1>1. self[p].pc = "fork_right" /\ ProcInv'
  BY ForkRightOk DEF ForkRight, At
<1>2. /\ p \in Proc /\ o \in Systems /\ self[p] \in Processes /\ self \in [Proc -> Processes]
      /\ Exists(p) /\ OpenAt(p)
  BY <1>1, AliveIs DEF Alive
<1>3. CASE Goto(p, "wait_left") /\ UNCHANGED o
  <2>1. <<"fork_right", "wait_left">> \in Moves /\ o' = o
    BY <1>3 DEF Moves
  <2>2. In(p) = o.fds[p][0] /\ Out(p) = o.fds[p][1]
    BY <1>1 DEF In, Out, At
  <2>3. self'[p].pc = "wait_left"
    BY <1>2, <1>3, GotoIs DEF ProcInv, TypeInv, Pcs, LeftHere
  <2>4. OpenAt(p)'
    <3>1. self'[p].pc \notin Reads
      BY <2>3 DEF Reads
    <3> QED BY <1>2, <2>1, <2>3, <3>1 DEF OpenAt
  <2> QED BY <1>1, <1>3, <2>1, <2>2, <2>4, GotoMoved DEF At
<1>4. CASE /\ NewPids # {} /\ o' = Fork(o, p, NewPid)
           /\ self' = [self EXCEPT ![NewPid] = Child(p, "right", self[p].cmd.right),
                                   ![p].right = NewPid, ![p].pc = "close_read"]
           /\ UNCHANGED failures
  <2>1. NewPid \in Others /\ NewPid \in Proc /\ ~Exists(NewPid) /\ NewPid # p
    BY <1>2, <1>4, NewPidIsNew DEF Others
  <2>2. self[p].cmd.right \in Commands
    BY <1>1, PartsOfCommands DEF ProcInv, PcInv, LeftHere
  <2> DEFINE s == [self[p] EXCEPT !.right = NewPid, !.pc = "close_read"]
  <2>3. /\ s \in Processes /\ s.pc = "close_read" /\ s.left = self[p].left /\ s.right = NewPid
        /\ s.parent = self[p].parent /\ s.cmd = self[p].cmd
    <3>1. "close_read" \in Pcs
      BY DEF Pcs, LeftHere
    <3> QED BY <1>2, <2>1, <3>1 DEF Processes
  <2>4. Forked(p, "right", self[p].cmd.right, s)
    BY <1>2, <1>4, <2>1 DEF Forked
  <2> HIDE DEF s
  <2>5. /\ \A q \in Proc \ {p, NewPid} : self'[q] = self[q]
        /\ self'[NewPid].pc = "right" /\ self'[NewPid].cmd = self[p].cmd.right
        /\ self'[NewPid].parent = p /\ self'[p] = s
    <3>1. NewPids # {}
      BY <1>4
    <3>2. s \in Processes
      BY <2>3
    <3> QED BY ONLY ProcInv, p \in Others, <3>1, <3>2, <2>1, <2>2, <2>4, ForkedAre
  <2>6. \A q \in Proc : o'.fds[q] = IF q = NewPid THEN o.fds[p] ELSE o.fds[q]
    BY <1>2, <1>4, <2>1, ForkDoes
  <2>7. /\ self'[NewPid].cmd \in Commands /\ self'[p].parent = self[p].parent
        /\ self'[p].cmd = self[p].cmd /\ self'[p].pc = "close_read" /\ self'[p].left = self[p].left
        /\ self'[p].right = NewPid
    BY <2>2, <2>3, <2>5
  <2> QED BY ONLY ProcInv, DescriptorInv, p \in Others, <1>1, <2>1, <2>5, <2>6, <2>7, ForkedOk
<1> QED BY <1>3, <1>4 DEF ForkRight

\* Who waits for a child changes nothing but where it is.
LEMMA ReapedKept ==
  ASSUME ProcInv, ProcInv', DescriptorInv, NEW p \in Others, NEW c \in Others, o' = o,
         self[p].pc \in {"wait_left", "wait_right"}, NEW next \in {"exit", "wait_right"},
         self' = [self EXCEPT ![c] = NoProc, ![p].pc = next], c # p
  PROVE DescriptorInv'
<1>1. p \in Proc /\ c \in Proc /\ Shell \in Proc /\ p # Shell /\ c # Shell
      /\ self \in [Proc -> Processes] /\ self[p] \in Processes
  BY ShellAssumption DEF Others, ProcInv, TypeInv
<1> DEFINE w == [self[p] EXCEPT !.pc = next]
<1>2. /\ w.pc = next /\ w.parent = self[p].parent /\ w.cmd = self[p].cmd
      /\ w.left = self[p].left /\ w.right = self[p].right
  BY <1>1 DEF Processes
<1>3. self' = [self EXCEPT ![c] = NoProc, ![p] = w]
  BY <1>1
<1> HIDE DEF w
<1>4. /\ self'[c] = NoProc /\ self'[p] = w
      /\ \A q \in Proc \ {p, c} : self'[q] = self[q]
  BY <1>1, <1>3
<1>5. ~Alive(c)'
  BY <1>4, NoProcTyped DEF Alive, Exists, At
<1>6. Kept(p)
  <2>1. Alive(p)
    BY DEF Alive, Exists, At
  <2>2. self'[p].pc \in {"wait_right", "exit"} /\ self[p].pc \notin {"left", "right"}
    BY <1>2, <1>4
  <2> QED BY <1>2, <1>4, <2>1, <2>2 DEF Kept
<1>7. \A q \in Others : Alive(q)' => Kept(q)
  <2> SUFFICES ASSUME NEW q \in Others, Alive(q)', q \notin {p, c} PROVE Kept(q)
    BY <1>5, <1>6
  <2>1. self'[q] = self[q]
    BY <1>4 DEF Others
  <2> QED BY <2>1 DEF Kept, Alive, Exists, At
<1>8. Alive(Shell)' => Alive(Shell) /\ o'.fds[Shell] = o.fds[Shell]
  BY <1>1, <1>4 DEF Alive, Exists, At
<1> QED BY <1>7, <1>8, KeptOk

LEMMA WaitLeftMoves ==
  ASSUME ProcInv, DescriptorInv, NEW p \in Others, WaitLeft(p)
  PROVE DescriptorInv'
<1> DEFINE next == IF self[p].right = None THEN "exit" ELSE "wait_right"
<1>1. /\ self[p].pc = "wait_left" /\ At(self[p].left, "zombie")
      /\ self' = [self EXCEPT ![self[p].left] = NoProc, ![p].pc = next]
      /\ o' = o /\ ProcInv'
  BY WaitLeftOk DEF WaitLeft, At
<1>2. PICK c \in Others : c = self[p].left /\ c # p
  BY <1>1 DEF ProcInv, ChildInv, IsChild, LeftHere, At
<1>3. next \in {"exit", "wait_right"}
  OBVIOUS
<1>4. self' = [self EXCEPT ![c] = NoProc, ![p].pc = next]
  BY <1>1, <1>2
<1> HIDE DEF next
<1> QED BY <1>1, <1>2, <1>3, <1>4, ReapedKept

LEMMA WaitRightMoves ==
  ASSUME ProcInv, DescriptorInv, NEW p \in Others, WaitRight(p)
  PROVE DescriptorInv'
<1>1. /\ self[p].pc = "wait_right" /\ At(self[p].right, "zombie")
      /\ self' = [self EXCEPT ![self[p].right] = NoProc, ![p].pc = "exit"]
      /\ o' = o /\ ProcInv'
  BY WaitRightOk DEF WaitRight, At
<1>2. self[p].right # None
  BY <1>1 DEF ProcInv, ChildInv
<1>3. PICK c \in Others : c = self[p].right /\ c # p
  BY <1>1, <1>2 DEF ProcInv, ChildInv, IsChild, RightHere, At
<1>4. self' = [self EXCEPT ![c] = NoProc, ![p].pc = "exit"]
  BY <1>1, <1>3
<1> QED BY <1>1, <1>3, <1>4, ReapedKept

LEMMA ExitMoves ==
  ASSUME ProcInv, DescriptorInv, NEW p \in Others, Exit(p)
  PROVE DescriptorInv'
<1>1. self[p].pc \in Childless /\ Terminate(p, Exited(0)) /\ ProcInv'
  BY ExitOk DEF Exit, At, Childless
<1> QED BY <1>1, StatusTyped, TerminatedOk

LEMMA ProgramMoves ==
  ASSUME ProcInv, DescriptorInv, NEW p \in Others, Program(p)
  PROVE DescriptorInv'
<1>1. /\ self[p].pc = "run" /\ ProcInv'
      /\ \/ \E ret \in Nat : Terminate(p, ret)
         \/ /\ \E n \in {0, 1} : self' = [self EXCEPT ![p] = [self[p] EXCEPT !.n = n]]
            /\ o' \in Systems /\ o'.fds = o.fds
  BY ProgramIs, ProgramOk DEF DescriptorInv
<1>2. CASE \E ret \in Nat : Terminate(p, ret)
  <2>1. self[p].pc \in Childless
    BY <1>1 DEF Childless
  <2> QED BY <1>1, <1>2, <2>1, TerminatedOk
<1>3. CASE /\ \E n \in {0, 1} : self' = [self EXCEPT ![p] = [self[p] EXCEPT !.n = n]]
           /\ o' \in Systems /\ o'.fds = o.fds
  <2>1. PICK n \in {0, 1} : self' = [self EXCEPT ![p] = [self[p] EXCEPT !.n = n]]
    BY <1>3
  <2>2. /\ p \in Proc /\ self[p] \in Processes /\ self \in [Proc -> Processes]
        /\ Alive(p) /\ OpenAt(p)
    BY <1>1, AliveIs
  <2> DEFINE s == [self[p] EXCEPT !.n = n]
  <2>3. /\ s.pc = "run" /\ s.cmd = self[p].cmd /\ s.parent = self[p].parent
        /\ s.left = self[p].left /\ s.right = self[p].right
    BY <1>1, <2>2 DEF Processes
  <2>4. self' = [self EXCEPT ![p] = s]
    BY <2>1
  <2> HIDE DEF s
  <2>5. self'[p] = s /\ \A q \in Proc \ {p} : self'[q] = self[q]
    BY <2>2, <2>4
  <2>6. /\ self'[p].pc = "run" /\ self'[p].cmd = self[p].cmd /\ self'[p].parent = self[p].parent
        /\ self'[p].left = self[p].left /\ self'[p].right = self[p].right
        /\ \A q \in Proc \ {p} : self'[q] = self[q] /\ o'.fds[q] = o.fds[q]
    BY <1>3, <2>3, <2>5
  <2>7. Alive(p)' /\ self'[p].pc \notin {"left", "right"} /\ self'[p].pc \notin Reads
    BY <2>6 DEF Alive, Exists, At, Reads
  <2>8. o'.fds[p][0] = In(p) /\ o'.fds[p][1] = Out(p) /\ o'.fds[p][2] = o.fds[p][2]
    BY <1>1, <1>3 DEF In, Out, At
  <2>9. OpenAt(p)'
    <3>1. /\ o.fds[p][0] # None /\ o.fds[p][1] # None /\ o.fds[p][2] # None
          /\ \A g \in FD : g \notin {0, 1, 2} => o.fds[p][g] = None
      BY <1>1, <2>2, PlainExec
    <3> QED BY <1>3, <2>7, <3>1, OpenPlain
  <2>10. Moved(p)
    BY <2>2, <2>6, <2>7, <2>8, <2>9, SteppedMoved
  <2> QED BY <2>10, MovedOk
<1> QED BY <1>1, <1>2, <1>3

LEMMA StepMoves ==
  ASSUME ProcInv, DescriptorInv, NEW p \in Others, Step(p)
  PROVE DescriptorInv'
BY ExecBackMoves, ExecRedirMoves, ExecProgramMoves, MakePipeMoves, ForkLeftMoves,
   LeftChildMoves, CloseEndMoves, ForkRightMoves, RightChildMoves, WaitLeftMoves,
   WaitRightMoves, ExitMoves, ProgramMoves DEF Step

\* The child of the shell has the terminal, and its command as it was parsed.
LEMMA ForkCommandMoves ==
  ASSUME ProcInv, DescriptorInv, ForkCommand
  PROVE DescriptorInv'
<1>1. /\ At(Shell, "fork") /\ Shell \in Proc /\ Shell # None /\ Alive(Shell) /\ o \in Systems
      /\ self[Shell].cmd \in Commands /\ self \in [Proc -> Processes]
      /\ o.fds[Shell] = [f \in FD |-> IF f < 3 THEN TTY ELSE None] /\ ProcInv'
  <2>1. At(Shell, "fork") /\ Shell \in Proc /\ Shell # None /\ o \in Systems /\ ProcInv'
        /\ self \in [Proc -> Processes]
    BY ShellAssumption, NoneAssumption, ForkCommandOk DEF ForkCommand, ProcInv, TypeInv
  <2>2. Alive(Shell) /\ self[Shell].cmd \in Commands
    BY <2>1 DEF ProcInv, PcInv, Alive, Exists, At
  <2> QED BY <2>1, <2>2 DEF DescriptorInv, OpenInv
<1>2. CASE o' = o /\ self' = [self EXCEPT ![Shell].pc = "wait_any"]
  <2>1. \A q \in Others : self'[q] = self[q]
    BY <1>1, <1>2 DEF Others
  <2>2. \A q \in Others : Alive(q)' => Kept(q)
    BY <1>2, <2>1 DEF Kept, Alive, Exists, At
  <2> QED BY <1>1, <1>2, <2>2, KeptOk
<1>3. CASE /\ NewPids # {} /\ o' = Fork(o, Shell, NewPid)
           /\ self' = [self EXCEPT ![NewPid] = Child(Shell, "exec", self[Shell].cmd),
                                   ![Shell].left = NewPid, ![Shell].pc = "wait_any"]
  <2>1. PICK c \in Others, n, w \in Processes :
          /\ c = NewPid /\ ~Exists(c)
          /\ n.pc = "exec" /\ n.cmd = self[Shell].cmd /\ n.parent = Shell
          /\ self'[c] = n /\ \A q \in Proc \ {c, Shell} : self'[q] = self[q]
    BY <1>1, <1>3, ShellForks
  <2>2. c \in Proc /\ c # Shell
    BY DEF Others
  <2>3. /\ self'[c].pc = "exec" /\ self'[c].cmd \in Commands /\ self'[c].parent = Shell
        /\ \A q \in Others : q # c => self'[q] = self[q]
    BY <1>1, <2>1, <2>2 DEF Others
  <2>4. \A q \in Proc : o'.fds[q] = IF q = c THEN o.fds[Shell] ELSE o.fds[q]
    BY <1>1, <1>3, <2>1, <2>2, ForkDoes
  <2>5. /\ o'.fds[Shell] = o.fds[Shell]
        /\ \A q \in Others : q # c => o'.fds[q] = o.fds[q]
        /\ o'.fds[c] = [f \in FD |-> IF f < 3 THEN TTY ELSE None]
    BY <1>1, <2>2, <2>4 DEF Others
  <2>6. \A q \in Others : q # c => SameView(q) /\ (Alive(q)' <=> Alive(q))
    BY <2>3, <2>5 DEF SameView, Alive, Exists, At
  <2>7. /\ o'.fds[c][0] = TTY /\ o'.fds[c][1] = TTY /\ o'.fds[c][2] = TTY
        /\ \A g \in FD : g \notin {0, 1, 2} => o'.fds[c][g] = None
    <3>1. \A g \in FD : g < 3 <=> g \in {0, 1, 2}
      BY Descriptors
    <3> QED BY <2>5, <3>1, Descriptors
  <2>8. None # TTY /\ None # "&1"
    BY NoneAssumption
  <2>9. OpenInv'
    <3>1. OpenAt(c)'
      <4>1. self'[c].pc \notin Reads
        BY <2>3 DEF Reads
      <4> QED BY <2>7, <2>8, <4>1, OpenPlain
    <3>2. ASSUME NEW q \in Others, Alive(q)', q # c PROVE OpenAt(q)'
      <4>1. OpenAt(q)
        BY <3>2, <2>6 DEF DescriptorInv, OpenInv
      <4> QED BY <3>2, <4>1, <2>3, <2>5, OpenKept
    <3> QED BY <1>1, <2>5, <3>1, <3>2 DEF OpenInv
  <2>10. \A q \in Others : q # c /\ Alive(q) /\ self[q].parent # Shell =>
           self[q].parent \in Others /\ self[q].parent # c /\ SameHome(q, self[q].parent)
    <3> SUFFICES ASSUME NEW q \in Others, q # c, Alive(q), NEW h \in Others, h = self[q].parent, h # c
                 PROVE SameHome(q, h)
      BY ParentIs, <2>1, NobodyHas DEF Alive
    <3> QED BY <2>3, <2>5 DEF SameHome
  <2>11. OwnIn(c)' /\ OwnOut(c)' /\ ErrAt(c)'
    <3>1. self'[c].cmd.type = "EXEC" =>
            self'[c].cmd.in = None /\ self'[c].cmd.out = None /\ self'[c].cmd.err = None
      BY <2>3, PartsOfCommands
    <3> QED BY <2>7, <2>8, <3>1 DEF OwnIn, OwnOut, Opened, ErrAt
  <2>12. StandardInv'
    <3>1. ~ReadsPipe(c)' /\ ~WritesPipe(c)' /\ SideAt(c)'
      BY <2>3 DEF ReadsPipe, WritesPipe, SideAt, At
    <3>2. InAt(c)' /\ OutAt(c)'
      BY <2>3, <2>7, <2>11, <3>1 DEF InAt, OutAt
    <3>3. ASSUME NEW q \in Others, Alive(q)', q # c
          PROVE SideAt(q)' /\ InAt(q)' /\ OutAt(q)' /\ ErrAt(q)'
      <4>1. SideAt(q) /\ InAt(q) /\ OutAt(q) /\ ErrAt(q) /\ Alive(q)
        BY <3>3, <2>6 DEF DescriptorInv, StandardInv
      <4> QED BY <3>3, <4>1, <2>6, <2>10, StandardKept
    <3> QED BY <2>11, <3>1, <3>2, <3>3 DEF StandardInv
  <2>13. PipeInv'
    <3> SUFFICES ASSUME NEW q \in Others, Alive(q)', WritesPipe(q)', OwnOut(q)'
                 PROVE \E k \in Pipe : SamePipe(q, self[q].parent, k)'
      BY DEF PipeInv
    <3>1. q # c
      BY <2>3 DEF WritesPipe
    <3>2. Alive(q) /\ self'[q] = self[q] /\ self[q].parent # Shell
      BY <3>1, <2>3, <2>6 DEF WritesPipe
    <3>3. PICK h \in Others : h = self[q].parent /\ h # c
      BY <3>1, <3>2, <2>10
    <3>4. self'[h] = self[h] /\ o'.fds[h] = o.fds[h]
      BY <3>3, <2>3, <2>5
    <3>5. WritesPipe(q)
      BY <3>2, <3>3, <3>4 DEF WritesPipe
    <3>6. OwnOut(q) /\ Out(q)' = Out(q)
      BY <3>1, <2>6, ViewKept
    <3>7. PICK k \in Pipe : SamePipe(q, h, k)
      BY <3>2, <3>3, <3>5, <3>6 DEF DescriptorInv, PipeInv
    <3>8. ASSUME NEW r \in Others, Alive(r)', self'[r].parent = h, r = self'[h].right, OwnIn(r)'
          PROVE /\ Alive(r) /\ self[r].parent = h /\ r = self[h].right /\ OwnIn(r)
                /\ In(r)' = In(r)
      <4>1. r # c
        BY <3>8, <2>3 DEF Others
      <4>2. OwnIn(r) /\ In(r)' = In(r)
        BY <3>8, <4>1, <2>6, ViewKept
      <4> QED BY <3>4, <3>8, <4>1, <4>2, <2>3, <2>6
    <3>9. SamePipe(q, h, k)'
      BY <3>4, <3>6, <3>7, <3>8, SamePipeKept
    <3> QED BY <3>2, <3>3, <3>9
  <2> QED BY <2>9, <2>12, <2>13 DEF DescriptorInv
<1> QED BY <1>2, <1>3 DEF ForkCommand

\* The shell waits: it reaps zombies, whose descriptors are closed.
LEMMA ShellWaitMoves ==
  ASSUME ProcInv, DescriptorInv, WaitAny \/ WaitForeground
  PROVE DescriptorInv'
<1>1. /\ o' = o /\ ProcInv' /\ self[Shell].pc \in {"wait_any", "wait"}
  BY WaitAnyOk, WaitForegroundOk DEF WaitAny, WaitForeground, At
<1> DEFINE next == IF self[Shell].cmd.type = "BACK" THEN "prompt" ELSE "wait"
<1>2. \E pc \in {"wait", "prompt"} : \E c : GoesOn(c, pc)
  <2>1. CASE WaitAny
    <3>1. next \in {"wait", "prompt"}
      OBVIOUS
    <3>2. ASSUME NEW c \in Zombies, self' = [self EXCEPT ![c] = NoProc, ![Shell].pc = next]
          PROVE GoesOn(c, next)
      <4> HIDE DEF next
      <4> QED BY <3>1, <3>2, ShellReaps DEF Zombies
    <3>3. Goto(Shell, next) => GoesOn(None, next)
      BY <3>1, ShellGoes
    <3> QED BY <2>1, <3>1, <3>2, <3>3 DEF WaitAny
  <2>2. CASE WaitForeground
    <3>1. ASSUME NEW c \in Awaited, At(c, "zombie"),
                 self' = [self EXCEPT ![c] = NoProc, ![Shell].pc = "prompt"]
          PROVE GoesOn(c, "prompt")
      BY <3>1, ShellReaps DEF Awaited
    <3>2. Goto(Shell, "prompt") => GoesOn(None, "prompt")
      BY ShellGoes
    <3> QED BY <2>2, <3>1, <3>2 DEF WaitForeground
  <2> QED BY <2>1, <2>2
<1>3. PICK pc \in {"wait", "prompt"} : \E c : GoesOn(c, pc)
  BY <1>2
<1>4. \A q \in Others : \/ self'[q] = self[q]
                        \/ self'[q] = NoProc
  BY <1>3 DEF GoesOn
<1>5. \A q \in Others : Alive(q)' => Kept(q)
  <2> SUFFICES ASSUME NEW q \in Others, Alive(q)' PROVE Kept(q)
    OBVIOUS
  <2>1. self'[q] = self[q]
    BY <1>4, NoProcTyped DEF Alive, Exists, At
  <2> QED BY <1>1, <2>1 DEF Kept, Alive, Exists, At
<1>6. Alive(Shell)
  BY <1>1 DEF Alive, Exists, At
<1> QED BY <1>1, <1>5, <1>6, KeptOk

LEMMA ReadLineMoves ==
  ASSUME ProcInv, DescriptorInv, ReadLine
  PROVE DescriptorInv'
<1>1. /\ At(Shell, "prompt") /\ Shell \in Proc /\ Alive(Shell) /\ ProcInv' /\ o \in Systems
      /\ self \in [Proc -> Processes]
  BY ShellAssumption, ReadLineOk DEF ReadLine, Alive, Exists, At, ProcInv, TypeInv
<1>2. ASSUME NEW cmd \in Lines, o' = o,
             self' = [self EXCEPT ![Shell].pc = "fork", ![Shell].cmd = cmd, ![Shell].left = None]
      PROVE DescriptorInv'
  <2>1. \A q \in Others : self'[q] = self[q]
    BY <1>1, <1>2 DEF Others
  <2>2. \A q \in Others : Alive(q)' => Kept(q)
    BY <1>2, <2>1 DEF Kept, Alive, Exists, At
  <2> QED BY <1>1, <1>2, <2>2, KeptOk
<1>3. CASE Terminate(Shell, 0)
  <2>1. self' = [q \in Proc |-> IF q = Shell THEN NoProc
                                ELSE IF self[q].parent = Shell /\ At(q, "zombie") THEN NoProc ELSE self[q]]
    <3>1. self[Shell].parent = None
      BY DEF ProcInv, PcInv
    <3> QED BY <1>1, <1>3, <3>1 DEF Terminate
  <2>2. ~Alive(Shell)'
    BY <1>1, <2>1, NoProcTyped DEF Alive, Exists, At
  <2>3. \A q \in Others : o'.fds[q] = o.fds[q]
    BY <1>1, <1>3, CloseAllDoes DEF Terminate, Others
  <2>4. \A q \in Others : Alive(q)' => Kept(q)
    <3> SUFFICES ASSUME NEW q \in Others, Alive(q)' PROVE Kept(q)
      OBVIOUS
    <3>1. self'[q] = self[q]
      BY <2>1, NoProcTyped DEF Alive, Exists, At, Others
    <3> QED BY <2>3, <3>1 DEF Kept, Alive, Exists, At
  <2> QED BY <1>1, <2>2, <2>4, KeptOk
<1> QED BY <1>1, <1>2, <1>3 DEF ReadLine

LEMMA DescriptorInit ==
  ASSUME Init
  PROVE DescriptorInv
<1>1. \A p \in Others : ~Alive(p)
  BY NoProcTyped DEF Init, Others, Alive, Exists, At
<1>2. o.fds[Shell] = [f \in FD |-> IF f < 3 THEN TTY ELSE None]
  BY ShellAssumption DEF Init
<1> QED BY <1>1, <1>2 DEF DescriptorInv, OpenInv, StandardInv, PipeInv

-----------------------------------------------------------------------------
(* The theorems                                                            *)

\* Stuttering leaves everything as it is.
LEMMA UnchangedOk ==
  ASSUME ProcInv, DescriptorInv, UNCHANGED vars
  PROVE ProcInv' /\ DescriptorInv'
<1>1. /\ o' = o /\ self' = self /\ line' = line /\ status' = status /\ last' = last
      /\ failures' = failures
  BY DEF vars
<1>2. TypeInv' /\ PcInv'
  BY <1>1 DEF ProcInv, TypeInv, PcInv, At, Alive, Exists
<1>3. ParentInv' /\ ChildInv' /\ Rooted'
  BY <1>1 DEF ProcInv, ParentInv, ChildOf, ChildOfShell, ChildInv, IsChild, Rooted, Exists, At
<1>4. StatusInv'
  BY <1>1 DEF ProcInv, StatusInv, Awaits, Exists, At
<1>5. ProcInv'
  BY <1>2, <1>3, <1>4 DEF ProcInv
<1>6. \A q \in Others : Alive(q)' => Kept(q)
  BY <1>1 DEF Kept, Alive, Exists, At
<1>7. Alive(Shell)' => Alive(Shell)
  BY <1>1 DEF Alive, Exists, At
<1> QED BY <1>1, <1>5, <1>6, <1>7, KeptOk

\* The shell's processes and their descriptors are always in order: whoever is not in
\* the background has a parent that waits for it, and holds what its part of the line,
\* and the side of the pipe that it is on, give it.
THEOREM ShellInvariant == Spec => []ShellInv
<1>1. ShellInv <=> ProcInv /\ DescriptorInv
  BY DEF ShellInv, DescriptorInv
<1>2. Init => ShellInv
  BY <1>1, ProcInit, DescriptorInit
<1>3. ShellInv /\ [Next]_vars => ShellInv'
  <2> SUFFICES ASSUME ShellInv, [Next]_vars PROVE ShellInv'
    OBVIOUS
  <2>1. ProcInv /\ DescriptorInv /\ OpenInv
    BY <1>1 DEF DescriptorInv
  <2>2. ProcInv' /\ DescriptorInv'
    <3>1. CASE ReadLine
      BY <2>1, <3>1, ReadLineOk, ReadLineMoves
    <3>2. CASE ForkCommand
      BY <2>1, <3>2, ForkCommandOk, ForkCommandMoves
    <3>3. CASE WaitAny
      BY <2>1, <3>3, WaitAnyOk, ShellWaitMoves
    <3>4. CASE WaitForeground
      BY <2>1, <3>4, WaitForegroundOk, ShellWaitMoves
    <3>5. ASSUME NEW p \in Others, Step(p) PROVE ProcInv' /\ DescriptorInv'
      BY <2>1, <3>5, StepOk, StepMoves
    <3>6. CASE UNCHANGED vars
      BY <2>1, <3>6, UnchangedOk
    <3> QED BY <3>1, <3>2, <3>3, <3>4, <3>5, <3>6 DEF Next, ShellStep, Others
  <2> QED BY <2>2 DEF ShellInv, DescriptorInv
<1> QED BY <1>2, <1>3, PTL DEF Spec

\* Every variable keeps its type: whatever is typed, the shell is in a state the code
\* can be in.
THEOREM ShellTypeOK == Spec => []TypeInv
<1>1. ShellInv => TypeInv
  BY DEF ShellInv, ProcInv
<1> QED BY <1>1, ShellInvariant, PTL

\* When the prompt is back nothing of a line in the foreground is left, and $? is what
\* a simple command ended with: whatever fails, and whoever is reaped first.
THEOREM ShellWaitsRight == Spec => []WaitsRight
<1>1. ASSUME ShellInv, At(Shell, "prompt") PROVE \A p \in Proc \ {Shell} : Exists(p) => self[p].back
  <2>1. ProcInv
    BY <1>1 DEF ShellInv
  <2> DEFINE S == {p \in Others : Exists(p) /\ ~self[p].back}
  <2>2. SUFFICES ASSUME S # {} PROVE FALSE
    BY DEF Others
  <2>3. PICK q \in S : self[q].parent \notin S
    <3>1. S \in SUBSET {p \in Others : Exists(p)}
      OBVIOUS
    <3> HIDE DEF S
    <3> QED BY <2>1, <2>2, <3>1 DEF ProcInv, Rooted
  <2>4. q \in Others /\ Exists(q) /\ ~self[q].back
    OBVIOUS
  <2>5. self[q].parent # Shell
    BY <2>1, <2>4, <1>1 DEF ProcInv, ParentInv, ChildOfShell, At
  <2>6. self[q].parent \in Others /\ Exists(self[q].parent)
    BY <2>1, <2>4, <2>5, ParentExists DEF ProcInv, Alive
  <2>7. self[self[q].parent].back = self[q].back
    BY <2>1, <2>4, <2>6 DEF ProcInv, ParentInv, ChildOf
  <2> QED BY <2>3, <2>4, <2>6, <2>7
<1>2. ShellInv => WaitsRight
  <2>1. ShellInv => ForegroundIsReaped
    BY <1>1 DEF ForegroundIsReaped
  <2>2. ShellInv => StatusIsTheCommands
    BY DEF ShellInv, ProcInv, StatusInv, StatusIsTheCommands
  <2> QED BY <2>1, <2>2 DEF WaitsRight
<1> QED BY <1>2, ShellInvariant, PTL

\* A program has its descriptors 0, 1 and 2, from the files its command names, the pipe
\* it is part of or its parent, and no other: for every line, pipes of pipes included.
THEOREM ShellDescriptorsRight == Spec => []DescriptorsRight
<1>1. ASSUME ShellInv, NEW p \in Proc, At(p, "run")
      PROVE LET c == self[p].cmd
                h == self[p].parent
                fd == o.fds[p]
            IN /\ \A f \in FD : fd[f] # None <=> f < 3
               /\ fd[0] = IF c.in # None THEN File(c.in) ELSE IF h = Shell THEN TTY
                          ELSE IF p = self[h].right THEN RdEnd(PipeOf(o, p, 0)) ELSE o.fds[h][0]
               /\ fd[1] = IF c.out # None THEN File(c.out) ELSE IF h = Shell THEN TTY
                          ELSE IF p = self[h].left THEN WrEnd(PipeOf(o, p, 1)) ELSE o.fds[h][1]
               /\ fd[2] = IF c.err = "&1" THEN fd[1] ELSE IF c.err # None THEN File(c.err) ELSE TTY
               /\ \A q \in Proc :
                    /\ At(q, "run") /\ self[q].parent = h /\ p = self[h].left /\ q = self[h].right
                    /\ c.out = None /\ self[q].cmd.in = None
                    => PipeOf(o, q, 0) = PipeOf(o, p, 1)
  <2> DEFINE c == self[p].cmd
             h == self[p].parent
             fd == o.fds[p]
  <2>1. ProcInv /\ DescriptorInv
    BY <1>1 DEF ShellInv, DescriptorInv
  <2>2. \A q \in Proc : At(q, "run") =>
          /\ q \in Others /\ Alive(q) /\ OpenAt(q) /\ InAt(q) /\ OutAt(q) /\ ErrAt(q)
          /\ Opened(q) /\ In(q) = o.fds[q][0] /\ Out(q) = o.fds[q][1]
    <3> SUFFICES ASSUME NEW q \in Proc, At(q, "run")
                 PROVE /\ q \in Others /\ Alive(q) /\ OpenAt(q) /\ InAt(q) /\ OutAt(q) /\ ErrAt(q)
                       /\ Opened(q) /\ In(q) = o.fds[q][0] /\ Out(q) = o.fds[q][1]
      OBVIOUS
    <3>1. self[q].pc = "run" /\ q \in Others
      BY <2>1 DEF ProcInv, PcInv, ShellPcs, Others, At
    <3>2. Opened(q) /\ In(q) = o.fds[q][0] /\ Out(q) = o.fds[q][1]
      BY <2>1, <3>1 DEF ProcInv, PcInv, Opened, In, Out, At
    <3> QED BY <2>1, <3>1, <3>2, AliveIs
  <2>3. /\ p \in Others /\ Alive(p) /\ OpenAt(p) /\ InAt(p) /\ OutAt(p) /\ ErrAt(p)
        /\ Opened(p) /\ In(p) = o.fds[p][0] /\ Out(p) = o.fds[p][1]
    BY <1>1, <2>2
  <2>4. \A f \in FD : fd[f] # None <=> f < 3
    <3>1. /\ fd[0] # None /\ fd[1] # None /\ fd[2] # None
          /\ \A g \in FD : g \notin {0, 1, 2} => fd[g] = None
      BY <1>1, <2>3, PlainExec DEF At
    <3>2. \A f \in FD : f < 3 <=> f \in {0, 1, 2}
      BY Descriptors
    <3> QED BY <3>1, <3>2
  <2>5. fd[0] = IF c.in # None THEN File(c.in) ELSE IF h = Shell THEN TTY
                ELSE IF p = self[h].right THEN RdEnd(PipeOf(o, p, 0)) ELSE o.fds[h][0]
    <3>1. OwnIn(p) <=> c.in = None
      BY <2>3 DEF OwnIn
    <3>2. CASE ReadsPipe(p) /\ OwnIn(p)
      <4>1. PICK k \in Pipe : fd[0] = RdEnd(k)
        BY <2>3, <3>2 DEF InAt
      <4>2. fd[0] = RdEnd(PipeOf(o, p, 0))
        BY <4>1, EndsDescribed DEF PipeOf
      <4> QED BY <3>1, <3>2, <4>2 DEF ReadsPipe
    <3>3. CASE ~(ReadsPipe(p) /\ OwnIn(p))
      BY <2>3, <3>1, <3>3 DEF InAt, ReadsPipe
    <3> QED BY <3>2, <3>3
  <2>6. fd[1] = IF c.out # None THEN File(c.out) ELSE IF h = Shell THEN TTY
                ELSE IF p = self[h].left THEN WrEnd(PipeOf(o, p, 1)) ELSE o.fds[h][1]
    <3>1. OwnOut(p) <=> c.out = None
      BY <2>3 DEF OwnOut
    <3>2. CASE WritesPipe(p) /\ OwnOut(p)
      <4>1. PICK k \in Pipe : fd[1] = WrEnd(k)
        BY <2>3, <3>2 DEF OutAt
      <4>2. fd[1] = WrEnd(PipeOf(o, p, 1))
        BY <4>1, EndsDescribed DEF PipeOf
      <4> QED BY <3>1, <3>2, <4>2 DEF WritesPipe
    <3>3. CASE ~(WritesPipe(p) /\ OwnOut(p))
      BY <2>3, <3>1, <3>3 DEF OutAt, WritesPipe
    <3> QED BY <3>2, <3>3
  <2>7. fd[2] = IF c.err = "&1" THEN fd[1] ELSE IF c.err # None THEN File(c.err) ELSE TTY
    BY <2>3 DEF ErrAt
  <2>8. ASSUME NEW q \in Proc, At(q, "run"), self[q].parent = h, p = self[h].left, q = self[h].right,
               c.out = None, self[q].cmd.in = None
        PROVE PipeOf(o, q, 0) = PipeOf(o, p, 1)
    <3>1. h # Shell
      <4>1. self[Shell].right = None
        BY <2>1 DEF ProcInv, PcInv
      <4>2. q # None
        BY NoneAssumption
      <4> QED BY <2>8, <4>1, <4>2
    <3>2. WritesPipe(p) /\ OwnOut(p)
      BY <2>3, <2>8, <3>1 DEF WritesPipe, OwnOut
    <3>3. PICK k \in Pipe : SamePipe(p, h, k)
      BY <2>1, <2>3, <3>2 DEF DescriptorInv, PipeInv
    <3>4. q \in Others /\ Alive(q) /\ OwnIn(q) /\ In(q) = o.fds[q][0]
      BY <2>2, <2>8 DEF OwnIn
    <3>5. o.fds[q][0] = RdEnd(k) /\ o.fds[p][1] = WrEnd(k)
      BY <2>3, <2>8, <3>3, <3>4 DEF SamePipe
    <3> QED BY <3>5, EndsDescribed DEF PipeOf
  <2> QED BY <2>4, <2>5, <2>6, <2>7, <2>8
<1>2. ShellInv => DescriptorsRight
  BY <1>1 DEF DescriptorsRight
<1> QED BY <1>2, ShellInvariant, PTL
=============================================================================
