----------------------------- MODULE ShellParse -----------------------------
(***************************************************************************)
(* How the shell of lab-shell turns a line into a command tree (parsing.c, *)
(* createcmd.c), what its programs then get (exec.c) and how the tree is   *)
(* freed (freecmd.c).  A string is a sequence of characters; the buffer of *)
(* the line is cut in place, as the code does, and is zero behind its end. *)
(* A block of memory is named after the place in the buffer that it was    *)
(* allocated for.                                                          *)
(***************************************************************************)
EXTENDS Integers, Sequences, SequencesExt

CONSTANTS Lines,     \* what may be typed
          ENV,       \* the shell's environment: names to values
          status,    \* the status of the last command, as text
          NUL        \* END_STRING

VARIABLES
  line,      \* the line as it was typed
  pc,
  cmd,       \* the command parsed, or NUL
  heap,      \* the blocks allocated
  ran,       \* what the programs of the line got
  twice      \* a block was freed that is not allocated

vars == <<line, pc, cmd, heap, ran, twice>>

-----------------------------------------------------------------------------
(* Strings *)

At(b, i) == IF i \in DOMAIN b THEN b[i] ELSE NUL

\* The string that begins at i
EndOf(b, i) == CHOOSE j \in i .. Len(b) + 2 : At(b, j) = NUL /\ \A k \in i .. j - 1 : At(b, k) # NUL
Str(b, i) == SubSeq(b, i, EndOf(b, i) - 1)

\* An index, from 0, or -1
block_contains(s, c) ==
  IF c \in Range(s) THEN (CHOOSE k \in DOMAIN s : s[k] = c /\ \A j \in 1 .. k - 1 : s[j] # c) - 1
  ELSE -1

\* arg + n
From(s, n) == SubSeq(s, n + 1, Len(s))

\* split_line: where the first part ends, and where the second begins
SplitAt(b, i, splitter) ==
  CHOOSE j \in i .. Len(b) + 1 : /\ At(b, j) \in {splitter, NUL}
                                 /\ \A k \in i .. j - 1 : At(b, k) \notin {splitter, NUL}
Cut(b, j) == [k \in DOMAIN b |-> IF k = j THEN NUL ELSE b[k]]
SkipSpaces(b, i) == CHOOSE j \in i .. Len(b) + 2 : At(b, j) # " " /\ \A k \in i .. j - 1 : b[k] = " "

-----------------------------------------------------------------------------
(* parse_exec *)

exec_cmd_create(b, i) ==
  [type |-> "EXEC", id |-> <<"cmd", i>>, argv |-> <<>>, eargv |-> <<>>,
   out |-> <<>>, in |-> <<>>, err |-> <<>>, heap |-> {<<"cmd", i>>}]

Free(c, tok) == [c EXCEPT !.heap = @ \ {tok.id}]

get_token(b, i) == [id |-> <<"tok", i>>, text |-> SubSeq(b, i, SplitAt(b, i, " ") - 1)]

parse_redir_flow(c, tok) ==
  LET gt == block_contains(tok.text, ">")
      r == [Free(c, tok) EXCEPT !.type = "REDIR"]
  IN IF gt = 0 THEN [r EXCEPT !.out = From(tok.text, 1)]
     ELSE IF gt = 1 THEN [r EXCEPT !.err = From(tok.text, 2)]
     ELSE IF gt > 1 THEN r
     ELSE [r EXCEPT !.in = From(tok.text, 1)]
IsRedir(tok) == block_contains(tok.text, ">") >= 0 \/ block_contains(tok.text, "<") >= 0

IsEnvironVar(tok) == block_contains(tok.text, "=") > 0 /\ block_contains(tok.text, "-") < 0

expand_environ_var(s) ==
  IF Len(s) < 2 \/ s[1] # "$" THEN s
  ELSE IF s = <<"$", "?">> THEN status
  ELSE IF From(s, 1) \in DOMAIN ENV THEN ENV[From(s, 1)] ELSE <<>>

\* Mutant of put_argument: an empty token is dropped and not freed.
put_argument_kept(c, tok) ==
  LET s == expand_environ_var(tok.text)
  IN IF s # <<>> THEN [c EXCEPT !.argv = Append(@, [tok EXCEPT !.text = s])] ELSE c

\* An empty token, which two spaces or an unknown variable leave, is freed
put_argument(c, tok) ==
  LET s == expand_environ_var(tok.text)
  IN IF s # <<>> THEN [c EXCEPT !.argv = Append(@, [tok EXCEPT !.text = s])]
     ELSE Free(c, tok)

\* Mutant of put_token: a token that was freed is an argument all the same.
put_token_both(c, tok) ==
  LET d == [c EXCEPT !.heap = @ \cup {tok.id}]
  IN IF IsRedir(tok) THEN put_argument(parse_redir_flow(d, tok), tok)
     ELSE IF IsEnvironVar(tok) THEN [d EXCEPT !.eargv = Append(@, tok)]
     ELSE put_argument(d, tok)

put_token(c, tok) ==
  LET d == [c EXCEPT !.heap = @ \cup {tok.id}]
  IN IF IsRedir(tok) THEN parse_redir_flow(d, tok)
     ELSE IF IsEnvironVar(tok) THEN [d EXCEPT !.eargv = Append(@, tok)]
     ELSE put_argument(d, tok)

RECURSIVE Tokens(_, _, _)
Tokens(b, i, c) ==
  IF At(b, i) = NUL THEN c
  ELSE LET tok == get_token(b, i)
           next == i + Len(tok.text)
       IN Tokens(b, IF At(b, next) = NUL THEN next ELSE next + 1, put_token(c, tok))

parse_exec(b, i) == Tokens(b, i, exec_cmd_create(b, i))

-----------------------------------------------------------------------------
(* parse_line *)

back_cmd_create(c) ==
  [type |-> "BACK", id |-> <<"back", c.id[2]>>, c |-> c, heap |-> c.heap \cup {<<"back", c.id[2]>>}]

pipe_cmd_create(l, r) ==
  IF r = NUL THEN l
  ELSE LET id == <<"pipe", l.id[2]>>
       IN [type |-> "PIPE", id |-> id, left |-> l, right |-> r, heap |-> l.heap \cup r.heap \cup {id}]

parse_back(b, i) == back_cmd_create(parse_exec(Cut(b, SplitAt(b, i, "&")), i))

parse_cmd(b, i) ==
  LET amp == block_contains(Str(b, i), "&")
  IN IF At(b, i) = NUL THEN NUL
     ELSE IF amp >= 0 /\ At(b, i + amp - 1) # ">" THEN parse_back(b, i)
     ELSE parse_exec(b, i)

RECURSIVE parse_line(_, _)
parse_line(buf, i) ==
  LET j == SplitAt(buf, i, "|")
      b == Cut(buf, j)
      right == SkipSpaces(b, j + 1)
  IN pipe_cmd_create(parse_cmd(b, i),
       IF block_contains(Str(b, right), "|") >= 0 THEN parse_line(b, right) ELSE parse_cmd(b, right))

-----------------------------------------------------------------------------
(* What becomes of the tree *)

\* set_environ_vars, in the child: at the first "="
get_environ_key(arg) == SubSeq(arg, 1, block_contains(arg, "="))
\* Mutant of get_environ_value: it begins at the "=".
get_environ_value_eq(arg) == From(arg, block_contains(arg, "="))
get_environ_value(arg) == From(arg, block_contains(arg, "=") + 1)
set_environ_vars(eargv) ==
  FoldLeft(LAMBDA env, tok : [n \in DOMAIN env \cup {get_environ_key(tok.text)} |->
             IF n = get_environ_key(tok.text) THEN get_environ_value(tok.text) ELSE env[n]], ENV, eargv)

Text(tok) == tok.text

\* What the programs get, from left to right
RECURSIVE exec_cmd(_)
exec_cmd(c) ==
  CASE c.type = "PIPE" -> exec_cmd(c.left) \o exec_cmd(c.right)
    [] c.type = "BACK" -> exec_cmd(c.c)
    [] OTHER -> <<[argv |-> [k \in DOMAIN c.argv |-> Text(c.argv[k])], env |-> set_environ_vars(c.eargv),
                   out |-> c.out, in |-> c.in, err |-> c.err]>>

Ids(toks) == [k \in DOMAIN toks |-> toks[k].id]

\* The blocks freed, one after the other
RECURSIVE free_command(_)
free_command(c) ==
  CASE c.type = "PIPE" -> free_command(c.left) \o free_command(c.right) \o <<c.id>>
    [] c.type = "BACK" -> free_command(c.c) \o <<c.id>>
    [] OTHER -> Ids(c.argv) \o Ids(c.eargv) \o <<c.id>>

its_a_common(c, name) == c \in {name, <<" ">> \o name, name \o <<" ">>}
Builtin(l) == l = <<>> \/ \E name \in {<<"c", "d">>, <<"p", "w", "d">>, <<"e", "x", "i", "t">>} :
                            its_a_common(l, name)

-----------------------------------------------------------------------------
\* Each pipe has something on its left, and the line does not begin with &
Init ==
  /\ line \in {l \in Lines : /\ l = <<>> \/ l[1] \notin {"|", "&"}
                             /\ \A i \in DOMAIN l : l[i] = "|" => At(l, SkipSpaces(l, i + 1)) # "|"}
  /\ pc = "read" /\ cmd = NUL /\ heap = {} /\ ran = <<>> /\ twice = FALSE

ParseLine ==
  /\ pc = "read" /\ ~Builtin(line)
  /\ cmd' = parse_line(line, 1)
  /\ heap' = cmd'.heap
  /\ pc' = "run"
  /\ UNCHANGED <<line, ran, twice>>

RunBuiltin ==
  /\ pc = "read" /\ Builtin(line)
  /\ pc' = "prompt"
  /\ UNCHANGED <<line, cmd, heap, ran, twice>>

RunCommand ==
  /\ pc = "run"
  /\ ran' = exec_cmd(cmd)
  /\ pc' = "free"
  /\ UNCHANGED <<line, cmd, heap, twice>>

FreeCommand ==
  /\ pc = "free"
  /\ LET freed == free_command(cmd)
     IN /\ heap' = heap \ Range(freed)
        /\ twice' = (~IsInjective(freed) \/ ~(Range(freed) \subseteq heap))
  /\ pc' = "prompt" /\ cmd' = NUL
  /\ UNCHANGED <<line, ran>>

Next == ParseLine \/ RunBuiltin \/ RunCommand \/ FreeCommand

Spec == Init /\ [][Next]_vars

-----------------------------------------------------------------------------
(* The same said of the line as it was typed *)

RECURSIVE Split(_, _)
Split(s, c) == LET i == block_contains(s, c)
               IN IF i < 0 THEN <<s>> ELSE <<SubSeq(s, 1, i)>> \o Split(From(s, i + 1), c)

\* A command is what is between two pipes and before the &, if it is no redirection
BeforeAmp(s) == LET i == block_contains(s, "&")
                IN IF i > 0 /\ s[i] = ">" THEN s ELSE IF i >= 0 THEN SubSeq(s, 1, i) ELSE s
IsSpaces(s) == Range(s) \subseteq {" "}
Segments == LET parts == Split(line, "|")
            IN IF Len(parts) > 1 /\ IsSpaces(Last(parts)) THEN Front(parts) ELSE parts
Words(s) == Split(BeforeAmp(s), " ")

Has(w, c) == c \in Range(w)

\* A variable is set by KEY=VALUE where "the KEY part of the pair does not contain a
\* '-' char" (parse_environ_var)
Assigns(w) == Has(w, "=") /\ w[1] # "=" /\ ~Has(SubSeq(w, 1, block_contains(w, "=")), "-")
Plain(w) == ~Has(w, ">") /\ ~Has(w, "<") /\ ~Assigns(w)
Value(w) == IF w = <<"$", "?">> THEN status
            ELSE IF Len(w) > 1 /\ w[1] = "$"
            THEN IF Tail(w) \in DOMAIN ENV THEN ENV[Tail(w)] ELSE <<>> ELSE w
Nonempty(s) == s # <<>>
Arguments(s) ==
  LET plain == SelectSeq(Words(s), Plain)
  IN SelectSeq([i \in DOMAIN plain |-> Value(plain[i])], Nonempty)

\* The last redirection of a kind holds
LastOf(s, IsKind(_), n) == LET of == SelectSeq(Words(s), IsKind)
                           IN IF of = <<>> THEN <<>> ELSE From(Last(of), n)
ToOut(w) == w # <<>> /\ w[1] = ">"
ToIn(w) == Has(w, "<") /\ ~Has(w, ">")
ToErr(w) == Len(w) > 1 /\ w[1] # ">" /\ w[2] = ">"

\* A word that sets a variable to a value with a '-' in it, which the code takes for an
\* argument, against its comment
Dashed(w) == Assigns(w) /\ Has(w, "-") /\ ~Has(w, ">") /\ ~Has(w, "<")
NoDashedValue == \A i \in DOMAIN Segments : \A w \in Range(Words(Segments[i])) : ~Dashed(w)

\* Each program of a line gets its own words, with variables replaced, as arguments,
\* and its own redirections of input, output and errors, whatever else stands before,
\* between and behind them.
ProgramsGetTheirWords ==
  pc = "free" =>
    /\ Len(ran) = Len(Segments)
    /\ \A i \in DOMAIN ran : /\ ran[i].argv = Arguments(Segments[i])
                             /\ ran[i].in = LastOf(Segments[i], ToIn, 1)
                             /\ ran[i].out = LastOf(Segments[i], ToOut, 1)
                             /\ ran[i].err = LastOf(Segments[i], ToErr, 2)

\* Each program gets the shell's environment and what its own command sets, and the
\* value of a variable is all that follows the first "=".
EnvironmentIsItsOwn ==
  pc = "free" =>
    \A i \in DOMAIN ran :
      LET set == SelectSeq(Words(Segments[i]), LAMBDA w : Assigns(w) /\ ~Has(w, ">") /\ ~Has(w, "<"))
      IN /\ \A k \in DOMAIN set : \E n \in DOMAIN ran[i].env :
              /\ n \o <<"=">> = SubSeq(set[k], 1, Len(n) + 1) /\ ~Has(n, "=")
              /\ (\A j \in k + 1 .. Len(set) : n \o <<"=">> # SubSeq(set[j], 1, Len(n) + 1)) =>
                   n \o <<"=">> \o ran[i].env[n] = set[k]
         /\ \A n \in DOMAIN ran[i].env : (n \in DOMAIN ENV /\ ran[i].env[n] = ENV[n])
              \/ \E k \in DOMAIN set : set[k] = n \o <<"=">> \o ran[i].env[n]

\* Every block of a line is freed, and once: tokens that are no argument while the
\* line is parsed, the others with the tree.
FreedOnce == ~twice /\ (pc = "prompt" => heap = {})
=============================================================================
