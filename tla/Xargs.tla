------------------------------- MODULE Xargs --------------------------------
(***************************************************************************)
(* xargs (lab-fork xargs.c): lines of stdin become arguments of a command, *)
(* NARGS at a time.  getline gives each line in a buffer of its own, also  *)
(* when it fails; the child that cannot execute the command goes on in the *)
(* same code as its parent, with a copy of everything.  A line stands for  *)
(* itself and for its buffer, EOF for the buffer of a getline that failed. *)
(***************************************************************************)
EXTENDS Integers, Sequences, FiniteSets

CONSTANTS NARGS,      \* arguments per command
          Lengths,    \* how many lines stdin may have
          FAILURES,   \* how many calls of fork and exec may fail
          EOF, None

ASSUME XargsAssumption ==
  /\ NARGS \in Nat \ {0} /\ Lengths \subseteq Nat /\ FAILURES \in Nat
  /\ EOF \notin Nat /\ None \notin Nat /\ EOF # None

Slot == 1 .. NARGS + 1    \* of args_for_the_required_command, after the command

VARIABLES
  length, pos,   \* the lines of stdin, and how many were read
  self,          \* the state of "xargs" and of its "child"
  ran,           \* the arguments of the commands executed
  badFree,       \* somebody freed what is not allocated
  failures

vars == <<length, pos, self, ran, badFree, failures>>

Proc == {"xargs", "child"}

\* Where a process is, amount_of_stored_lines, the slots and the heap, whether
\* getline has said that the input is over, and the result so far
Start(pc) == [pc |-> pc, stored |-> 0, args |-> [i \in Slot |-> None], heap |-> {},
              over |-> FALSE, ret |-> 0]

Init ==
  /\ length \in Lengths /\ pos = 0
  /\ self = [p \in Proc |-> Start(IF p = "xargs" THEN "getline" ELSE "none")]
  /\ ran = <<>> /\ badFree = FALSE /\ failures = 0

At(p, pc) == self[p].pc = pc
Fail == failures < FAILURES /\ failures' = failures + 1

\* free(args[i]); args[i] = NULL
Freed(s, slots) ==
  [s EXCEPT !.heap = @ \ {s.args[i] : i \in slots},
            !.args = [i \in Slot |-> IF i \in slots THEN None ELSE s.args[i]]]
FreesBadly(s, slots) == \E i \in slots : s.args[i] # None /\ s.args[i] \notin s.heap

\* Mutant of FreeAllStoredArgs: the pointers stay.
FreeKeepingPointers(s) == [s EXCEPT !.heap = @ \ {s.args[i] : i \in Slot}]

\* free_all_stored_args: line 206 counts two slots more than there are arguments
StoredSlots(s) == {i \in Slot : i =< s.stored + 1}
FreeAllStoredArgs(s) == Freed(s, StoredSlots(s))

\* Mutant of AfterEof: the buffer of the last call is left.
AfterEofKept(s) == s

\* After the loop's getline has failed, not after the first one: free the buffer
AfterEof(s) == IF pos = 0 THEN s ELSE Freed(s, {s.stored + 1})

\* Mutant of OnEof: the result of getline is not looked at.
OnEofGoOn(s) == AfterEof(s)

\* The loop ends; the lines left get a command of their own
OnEof(s) == [AfterEof(s) EXCEPT !.over = TRUE, !.pc = IF s.stored > 0 THEN "fork" ELSE "exit"]

GetLine(p) ==
  /\ At(p, "getline")
  /\ LET s == self[p]
         line == IF pos < length THEN pos + 1 ELSE EOF
         read == [s EXCEPT !.args[s.stored + 1] = line, !.heap = @ \cup {line}]
     IN IF line # EOF
        THEN /\ pos' = pos + 1
             /\ self' = [self EXCEPT ![p] = [read EXCEPT !.stored = @ + 1,
                           !.pc = IF s.stored + 1 = NARGS THEN "fork" ELSE "getline"]]
        ELSE /\ self' = [self EXCEPT ![p] = OnEof(read)]
             /\ UNCHANGED pos
  /\ UNCHANGED <<length, ran, badFree, failures>>

ForkCommand(p) ==
  /\ At(p, "fork")
  /\ \/ /\ self' = [self EXCEPT ![p].pc = "wait", !["child"] = [self[p] EXCEPT !.pc = "exec"]]
        /\ UNCHANGED failures
     \/ /\ Fail
        /\ self' = [self EXCEPT ![p].pc = "free", ![p].ret = -1]
  /\ UNCHANGED <<length, pos, ran, badFree>>

\* What the command gets: the slots up to the first NULL
Argv(s) ==
  LET n == CHOOSE i \in Slot : s.args[i] = None /\ \A j \in 1 .. i - 1 : s.args[j] # None
  IN [i \in 1 .. n - 1 |-> s.args[i]]

Exec ==
  /\ At("child", "exec")
  /\ \/ /\ self' = [self EXCEPT !["child"].pc = "command"]
        /\ ran' = Append(ran, Argv(self["child"]))
        /\ UNCHANGED failures
     \/ /\ Fail
        /\ self' = [self EXCEPT !["child"].pc = "free", !["child"].ret = -1]
        /\ UNCHANGED ran
  /\ UNCHANGED <<length, pos, badFree>>

CommandEnds ==
  /\ At("child", "command")
  /\ self' = [self EXCEPT !["child"] = Start("zombie")]
  /\ UNCHANGED <<length, pos, ran, badFree, failures>>

Wait ==
  /\ At("xargs", "wait") /\ At("child", "zombie")
  /\ LET s == self["xargs"]
     IN /\ self' = [self EXCEPT !["xargs"] = [FreeAllStoredArgs(s) EXCEPT !.pc = "free"],
                                !["child"] = Start("none")]
        /\ badFree' = (badFree \/ FreesBadly(s, StoredSlots(s)))
  /\ UNCHANGED <<length, pos, ran, failures>>

\* Lines 102-107 and 128-134: again free_all_stored_args
Free(p) ==
  /\ At(p, "free")
  /\ LET s == self[p]
     IN /\ self' = [self EXCEPT ![p] = [FreeAllStoredArgs(s) EXCEPT !.stored = 0,
                      !.pc = IF s.ret = -1 \/ s.over THEN "exit" ELSE "getline"]]
        /\ badFree' = (badFree \/ FreesBadly(s, StoredSlots(s)))
  /\ UNCHANGED <<length, pos, ran, failures>>

Exit(p) ==
  /\ At(p, "exit")
  /\ self' = [self EXCEPT ![p].pc = "zombie"]
  /\ UNCHANGED <<length, pos, ran, badFree, failures>>

Next == Exec \/ CommandEnds \/ Wait
        \/ \E p \in Proc : GetLine(p) \/ ForkCommand(p) \/ Free(p) \/ Exit(p)

Spec == Init /\ [][Next]_vars /\ WF_vars(Next)

-----------------------------------------------------------------------------
\* The arguments of a command that is executed when n lines have gone to others
Batch(n) == [i \in 1 .. (IF n + NARGS =< length THEN NARGS ELSE length - n) |-> n + i]

\* Each command gets the next NARGS lines, the last one those that are left; a
\* command that could not be executed is skipped, and nobody reads lines but xargs.
BatchesInOrder ==
  /\ \A i \in DOMAIN ran : \E k \in 0 .. length - 1 :
       k * NARGS < length /\ ran[i] = Batch(k * NARGS)
  /\ \A i \in 1 .. Len(ran) - 1 : ran[i][1] < ran[i + 1][1]
  /\ At("xargs", "zombie") /\ failures = 0 =>
       length =< Len(ran) * NARGS /\ Len(ran) * NARGS < length + NARGS
  /\ self["child"].pc # "getline"

\* No buffer is freed twice, though two functions free the same slots.
NoBadFree == ~badFree

\* Who returns from main has freed every buffer, the child that could not execute
\* too (the Makefile runs it under valgrind --leak-check=full); but for an empty
\* input, after which the buffer of the first getline is left.
NothingLeaks == length > 0 => \A p \in Proc : At(p, "exit") => self[p].heap = {}

\* xargs: each command gets its lines, whichever fork or exec failed before; and each
\* buffer of getline is freed once, by xargs and by the child that could not execute.
XargsIsRight == BatchesInOrder /\ NoBadFree /\ NothingLeaks
=============================================================================
