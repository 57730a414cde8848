------------------------------ MODULE ShellMC -------------------------------
(***************************************************************************)
(* The shell for TLC: one line that is a pipe, several lines of simple     *)
(* commands, or what becomes of the text of a line, as "session" says.     *)
(***************************************************************************)
EXTENDS Shell, SequencesExt

CONSTANT NUL

VARIABLES session,
          pc, cmd, heap, ran, twice    \* module ShellParse

E(prog) == [type |-> "EXEC", prog |-> prog, in |-> None, out |-> None, err |-> None]
R(prog, in, out, err) == [type |-> "REDIR", prog |-> prog, in |-> in, out |-> out, err |-> err]
B(c) == [type |-> "BACK", c |-> c]
P(l, r) == [type |-> "PIPE", left |-> l, right |-> r]

MCProc == 0 .. 7
MCPipe == 1 .. 3

\* Writers without end, readers that stop, programs that fail or do not exist
Pipelines == {P(E("yes"), E("head")), P(E("echo"), E("cat")), P(E("yes"), E("false")),
              P(E("missing"), E("cat")), P(E("cat"), B(E("false"))),
              P(R("echo", None, "f", "&1"), R("cat", "g", None, "&1")),
              P(E("yes"), R("head", None, "f", "&1")),
              P(E("yes"), P(E("cat"), E("head"))), P(E("echo"), P(E("head"), E("cat"))),
              P(E("yes"), P(E("false"), E("cat"))), P(E("yes"), P(E("missing"), P(E("cat"), E("false"))))}

\* In the foreground and in the background
Simple == {E("false"), E("echo"), E("missing"), B(E("server")), B(E("false")), B(R("cat", "g", "f", "&1")),
           R("echo", None, "f", "e"), R("cat", "absent", "f", None), P(E("echo"), E("head"))}

\* They and their parts
Parts(S) == S \cup {c.c : c \in {x \in S : x.type = "BACK"}}
              \cup UNION {{c.left, c.right} : c \in {x \in S : x.type = "PIPE"}}
MCCommands == Parts(Parts(Parts(Parts(Pipelines \cup Simple))))

Jobs == INSTANCE Shell WITH Lines <- Simple, LINES <- 3

\* Every line of up to five characters, and every one of up to four of these pieces
Short == BoundedSeq({"a", " ", "|", "&", ">", "=", "$"}, 5)
Piece == {<<"a">>, <<" ">>, <<" ", "a", "=", "-", "a">>, <<" ", "-", "a", "=", "a">>, <<" ", "$", "?">>, <<" ", "$", "a">>,
          <<" ", "2", ">", "&", "1">>, <<"<", "a">>, <<" ", "b", "=", "a", "=">>, <<" ", "|">>, <<"|">>, <<"&">>}
Text == Short \cup {FlattenSeq(s) : s \in BoundedSeq(Piece, 4)}
        \cup {<<"c", "d">>, <<" ", "p", "w", "d">>, <<"e", "x", "i", "t", " ">>}
Environment == (<<"a">> :> <<"a", " ", "a">>) @@ (<<"b">> :> <<>>)

Parse == INSTANCE ShellParse WITH Lines <- Text, ENV <- Environment, status <- <<"1">>

parsing == <<pc, cmd, heap, ran, twice>>
processes == <<o, self, status, last, failures>>

NoParsing == pc = None /\ cmd = None /\ heap = None /\ ran = None /\ twice = None
NoProcesses ==
  /\ o = [fds |-> [p \in Proc |-> NoFds], data |-> [k \in Pipe |-> <<>>]]
  /\ self = [p \in Proc |-> NoProc] /\ status = 0 /\ last = NotSimple /\ failures = 0

MCInit ==
  /\ session \in {"pipes", "jobs", "parse"}
  /\ \/ session = "pipes" /\ Init /\ NoParsing
     \/ session = "jobs" /\ Jobs!Init /\ NoParsing
     \/ session = "parse" /\ Parse!Init /\ NoProcesses

MCNext ==
  \/ session = "pipes" /\ Next /\ UNCHANGED <<session, parsing>>
  \/ session = "jobs" /\ Jobs!Next /\ UNCHANGED <<session, parsing>>
  \/ session = "parse" /\ Parse!Next /\ UNCHANGED <<session, processes>>

MCSpec ==
  /\ MCInit /\ [][MCNext]_<<session, line, parsing, processes>>
  /\ WF_vars(session = "pipes" /\ ShellStep)
  /\ WF_vars(session = "jobs" /\ Jobs!ShellStep)
  /\ \A p \in MCProc \ {Shell} : WF_vars(session = "pipes" /\ Step(p))
  /\ \A p \in MCProc \ {Shell} : WF_vars(session = "jobs" /\ Jobs!Step(p))

-----------------------------------------------------------------------------
Waiting == session # "parse" /\ ~At(Shell, "prompt") /\ Exists(Shell)
Prompt == session # "parse" /\ At(Shell, "prompt")

\* The shell waits for anybody, since its fork failed, and a server is all there is
WaitsForAServer ==
  /\ At(Shell, "wait") /\ self[Shell].left = None
  /\ \E c \in Awaited : At(c, "run") /\ self[c].cmd.prog = "server"

\* The second fork of a pipe failed: p waits for the first child before it closes the
\* read end, which nobody else has, and the child waits for somebody to read
WaitsForItsWriter(p) ==
  LET c == self[p].left
  IN /\ At(p, "wait_left") /\ self[p].right = None
     /\ At(c, "run") /\ IsPipe(c, 1) /\ ~CanWrite(o, c, 1)
     /\ Holders(o, RdEnd(PipeOf(o, c, 1))) = {p}

\* The two ways to wait for ever, each after a fork that failed
Stuck == session # "parse" /\ (WaitsForAServer \/ \E p \in MCProc : WaitsForItsWriter(p))

\* The prompt comes back after every line, although pipes fill up, readers leave, a
\* server runs in the background and a call, of whatever kind, fails; unless that was a
\* fork and the shell, or the process of the pipe, is stuck in one of the two ways above.
ComesBack == <>[]Stuck \/ (Waiting ~> Prompt)

\* Each program gets the words, redirections and variables of its part of the line,
\* if no variable is set to a value with a '-' in it; and the tree and the tokens of
\* the line are freed once, whatever the line.
LineMeansWhatItSays ==
  session = "parse" =>
    /\ Parse!NoDashedValue => Parse!ProgramsGetTheirWords /\ Parse!EnvironmentIsItsOwn
    /\ Parse!FreedOnce
=============================================================================
