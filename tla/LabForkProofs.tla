---------------------------- MODULE LabForkProofs ----------------------------
(***************************************************************************)
(* Programs of lab-fork, however many of their calls fail.  xargs gives    *)
(* each command its lines and frees each buffer once, for any number of    *)
(* lines and of arguments per command.  find prints what matches once, by  *)
(* its path, and closes what it opens, for any tree and whatever becomes   *)
(* of it meanwhile.  pingpong answers with the number it was sent, and in  *)
(* primes a chain of any length holds no end of a pipe too long: both      *)
(* close what they opened, with descriptors and pipes of any number.       *)
(***************************************************************************)
EXTENDS Xargs, FiniteSetTheorems, WellFoundedInduction, TLAPS

-----------------------------------------------------------------------------
(* xargs                                                                   *)

\* xargs and its child
X == self["xargs"]
C == self["child"]

States ==
  [pc : {"none", "getline", "fork", "wait", "exec", "command", "free", "exit", "zombie"},
   stored : 0 .. NARGS, args : [Slot -> Nat \cup {EOF, None}], heap : SUBSET (Nat \cup {EOF}),
   over : BOOLEAN, ret : {0, -1}]

TypeOK ==
  /\ length \in Nat /\ pos \in 0 .. length
  /\ self \in [Proc -> States]
  /\ ran \in Seq(Seq(Nat))
  /\ badFree \in BOOLEAN /\ failures \in Nat

\* s has n lines behind the first `from' in its slots, and their buffers and no others
Holds(s, from, n) ==
  /\ s.args = [i \in Slot |-> IF i =< n THEN from + i ELSE None]
  /\ s.heap = {from + i : i \in 1 .. n}

\* How many lines had gone to commands when the first of those stored was read
Begin == pos - X.stored

\* The lines that go to the next command, or went to the one that is executed
Batched ==
  /\ X.stored =< pos
  /\ \E k \in Nat : Begin = k * NARGS
  /\ X.pc # "getline" =>
       /\ X.stored > 0
       /\ X.over => pos = length
       /\ X.stored = NARGS \/ X.over

\* What each step of xargs may rely on
ParentInv ==
  /\ X.pc \in {"getline", "fork", "wait", "free", "exit", "zombie"}
  /\ X.pc \in {"getline", "fork", "wait", "free"} => Batched
  /\ X.pc \in {"getline", "fork", "wait"} => Holds(X, Begin, X.stored) /\ X.ret = 0
  /\ X.pc = "getline" => X.stored < NARGS /\ ~X.over
  /\ X.pc = "free" => Holds(X, Begin, X.stored) \/ Holds(X, Begin, 0)
  /\ X.pc = "exit" /\ length > 0 => X.heap = {}
  /\ X.ret = -1 => failures > 0
  /\ X.pc \in {"exit", "zombie"} => X.ret = -1 \/ (X.over /\ pos = length)

\* The child has what xargs had when it forked, until it has executed the command or
\* freed all of it.
ChildInv ==
  /\ C.pc \in {"none", "exec", "command", "free", "exit", "zombie"}
  /\ C.pc # "none" <=> X.pc = "wait"
  /\ C.pc \in {"exec", "free"} => C.stored = X.stored /\ Holds(C, Begin, X.stored)
  /\ C.pc = "exit" => C.heap = {}
  /\ C.pc \in {"free", "exit"} => C.ret = -1
  /\ C.ret = -1 => failures > 0

\* The lines stored have not gone to a command yet.
Waiting == X.pc \in {"getline", "fork"} \/ C.pc = "exec"

\* Which commands were executed: for lines before those that wait; all of them if no
\* call has failed
RanInv ==
  /\ \A i \in DOMAIN ran :
       /\ \E k \in Nat : k * NARGS < length /\ ran[i] = Batch(k * NARGS)
       /\ ran[i][1] =< (IF Waiting THEN Begin ELSE pos)
  /\ \A i \in 1 .. Len(ran) - 1 : ran[i][1] < ran[i + 1][1]
  /\ failures = 0 =>
       IF Waiting THEN Len(ran) * NARGS = Begin
       ELSE IF X.over THEN pos =< Len(ran) * NARGS /\ Len(ran) * NARGS < pos + NARGS
       ELSE Len(ran) * NARGS = pos

XargsInv == TypeOK /\ ParentInv /\ ChildInv /\ RanInv /\ ~badFree

-----------------------------------------------------------------------------
(* Slots and buffers                                                       *)

LEMMA Multiples ==
  ASSUME NEW k \in Nat
  PROVE  /\ k * NARGS \in Nat /\ k =< k * NARGS
         /\ (k + 1) * NARGS = k * NARGS + NARGS
<1>1. NARGS \in Nat /\ NARGS >= 1
  BY XargsAssumption
<1> QED
  BY <1>1

\* What is freed was held, and nothing is left.
LEMMA FreesAll ==
  ASSUME NEW s \in States, NEW from \in Nat,
         Holds(s, from, s.stored) \/ Holds(s, from, 0)
  PROVE  LET t == FreeAllStoredArgs(s)
         IN /\ t \in States /\ Holds(t, from, 0) /\ t.heap = {}
            /\ t = [s EXCEPT !.heap = t.heap, !.args = t.args]
            /\ ~FreesBadly(s, StoredSlots(s))
<1> DEFINE t == FreeAllStoredArgs(s)
           n == s.stored
<1>1. n \in 0 .. NARGS /\ NARGS \in Nat /\ None \notin Nat
  BY XargsAssumption DEF States
<1>2. StoredSlots(s) = {i \in Slot : i =< n + 1}
  BY DEF StoredSlots
<1>3. PICK m \in {0, n} : Holds(s, from, m)
  OBVIOUS
<1>4. \A i \in Slot : s.args[i] = IF i =< m THEN from + i ELSE None
  BY <1>3 DEF Holds
<1>5. ~FreesBadly(s, StoredSlots(s))
  <2> SUFFICES ASSUME NEW i \in StoredSlots(s), s.args[i] # None
               PROVE  s.args[i] \in s.heap
    BY DEF FreesBadly
  <2>1. i \in Slot /\ i =< m /\ s.args[i] = from + i
    BY <1>2, <1>4
  <2>2. i \in 1 .. m
    BY <1>1, <2>1 DEF Slot
  <2> QED
    BY <1>3, <2>1, <2>2 DEF Holds
<1>6. t = [s EXCEPT !.heap = t.heap, !.args = t.args]
  BY DEF FreeAllStoredArgs, Freed, States
<1>7. t.args = [i \in Slot |-> None]
  <2>1. t.args = [i \in Slot |-> IF i \in StoredSlots(s) THEN None ELSE s.args[i]]
    BY DEF FreeAllStoredArgs, Freed, States
  <2>2. \A i \in Slot : i \notin StoredSlots(s) => s.args[i] = None
    BY <1>1, <1>2, <1>4 DEF Slot
  <2> QED
    BY <2>1, <2>2
<1>8. t.heap = {}
  <2>1. t.heap = s.heap \ {s.args[i] : i \in StoredSlots(s)}
    BY DEF FreeAllStoredArgs, Freed, States
  <2>2. ASSUME NEW i \in 1 .. m
        PROVE  \E j \in StoredSlots(s) : s.args[j] = from + i
    BY <1>1, <1>2, <1>4 DEF Slot
  <2>3. ASSUME NEW x \in s.heap
        PROVE  x \in {s.args[i] : i \in StoredSlots(s)}
    <3>1. PICK i \in 1 .. m : x = from + i
      BY <1>3 DEF Holds
    <3> QED
      BY <2>2, <3>1
  <2> QED
    BY <2>1, <2>3
<1>9. Holds(t, from, 0)
  BY <1>7, <1>8, <1>1 DEF Holds, Slot
<1>10. t \in States
  BY <1>6, <1>7, <1>8 DEF States
<1> QED
  BY <1>5, <1>6, <1>8, <1>9, <1>10

\* getline puts a line into the next slot.
LEMMA ReadsLine ==
  ASSUME NEW s \in States, NEW from \in Nat, s.stored < NARGS, Holds(s, from, s.stored)
  PROVE  LET line == from + s.stored + 1
             t == [s EXCEPT !.args[s.stored + 1] = line, !.heap = @ \cup {line}]
         IN t \in States /\ Holds(t, from, s.stored + 1)
<1> DEFINE n == s.stored
           line == from + n + 1
           t == [s EXCEPT !.args[n + 1] = line, !.heap = @ \cup {line}]
<1>1. n \in Nat /\ NARGS \in Nat /\ n + 1 \in Slot
  BY XargsAssumption DEF States, Slot
<1>2. t.args = [s.args EXCEPT ![n + 1] = line] /\ t.heap = s.heap \cup {line}
  BY DEF States
<1>3. t.args = [i \in Slot |-> IF i =< n + 1 THEN from + i ELSE None]
  <2>1. \A i \in Slot : t.args[i] = IF i = n + 1 THEN line ELSE s.args[i]
    BY <1>1, <1>2 DEF Holds
  <2>2. \A i \in Slot : s.args[i] = IF i =< n THEN from + i ELSE None
    BY DEF Holds
  <2>3. \A i \in Slot : t.args[i] = IF i =< n + 1 THEN from + i ELSE None
    BY <1>1, <2>1, <2>2 DEF Slot
  <2>4. t.args = [i \in Slot |-> t.args[i]]
    BY <1>2 DEF Holds
  <2> QED
    BY <2>3, <2>4
<1>4. t.heap = {from + i : i \in 1 .. n + 1}
  <2>1. ASSUME NEW x PROVE x \in t.heap <=> \E i \in 1 .. n + 1 : x = from + i
    <3>1. x \in t.heap <=> x = line \/ \E i \in 1 .. n : x = from + i
      BY <1>2 DEF Holds
    <3>2. line = from + (n + 1) /\ n + 1 \in 1 .. n + 1
      BY <1>1
    <3> QED
      BY <1>1, <3>1, <3>2
  <2> QED
    BY <2>1
<1>5. t \in States
  <2>1. line \in Nat
    BY <1>1
  <2>2. t.args \in [Slot -> Nat \cup {EOF, None}] /\ t.heap \in SUBSET (Nat \cup {EOF})
    BY <1>1, <1>2, <2>1 DEF States
  <2>3. t = [s EXCEPT !.args = t.args, !.heap = t.heap]
    OBVIOUS
  <2> QED
    BY <2>2, <2>3 DEF States
<1> QED
  BY <1>3, <1>4, <1>5 DEF Holds

\* getline that fails leaves a buffer, which is freed unless it was the first.
LEMMA ReadsEof ==
  ASSUME TypeOK, NEW s \in States, NEW from \in Nat, s.stored < NARGS, Holds(s, from, s.stored)
  PROVE  LET t == OnEof([s EXCEPT !.args[s.stored + 1] = EOF, !.heap = @ \cup {EOF}])
         IN /\ t \in States /\ t.over /\ t.stored = s.stored /\ t.ret = s.ret
            /\ t.pc = IF s.stored > 0 THEN "fork" ELSE "exit"
            /\ pos > 0 => Holds(t, from, s.stored)
<1> DEFINE n == s.stored
           r == [s EXCEPT !.args[n + 1] = EOF, !.heap = @ \cup {EOF}]
           a == AfterEof(r)
           t == OnEof(r)
<1>1. n \in Nat /\ NARGS \in Nat /\ n + 1 \in Slot
  BY XargsAssumption DEF States, Slot
<1>2. r \in States /\ r.stored = n /\ r.ret = s.ret
  BY <1>1 DEF States
<1>3. a \in States /\ a.stored = n /\ a.ret = s.ret
  BY <1>2 DEF AfterEof, Freed, States
<1>4. t = [a EXCEPT !.over = TRUE, !.pc = IF n > 0 THEN "fork" ELSE "exit"]
  BY <1>2 DEF OnEof
<1>5. t \in States /\ t.over /\ t.stored = n /\ t.ret = s.ret
      /\ t.pc = (IF n > 0 THEN "fork" ELSE "exit") /\ t.args = a.args /\ t.heap = a.heap
  BY <1>3, <1>4 DEF States
<1>6. ASSUME pos > 0 PROVE Holds(t, from, n)
  <2>1. a = Freed(r, {n + 1})
    BY <1>2, <1>6 DEF AfterEof, TypeOK
  <2>2. a.args = [i \in Slot |-> IF i \in {n + 1} THEN None ELSE r.args[i]]
        /\ a.heap = r.heap \ {r.args[i] : i \in {n + 1}}
    BY <1>2, <2>1 DEF Freed, States
  <2>3. r.args = [s.args EXCEPT ![n + 1] = EOF] /\ r.heap = s.heap \cup {EOF}
    BY DEF States
  <2>4. \A i \in Slot : s.args[i] = IF i =< n THEN from + i ELSE None
    BY DEF Holds
  <2>5. DOMAIN s.args = Slot
    BY DEF Holds
  <2>6. \A i \in Slot : (IF i \in {n + 1} THEN None ELSE r.args[i])
                         = IF i =< n THEN from + i ELSE None
    BY <1>1, <2>3, <2>4, <2>5 DEF Slot
  <2>7. EOF \notin s.heap
    <3>1. \A i \in 1 .. n : from + i \in Nat
      BY <1>1
    <3> QED
      BY <3>1, XargsAssumption DEF Holds
  <2>8. r.args[n + 1] = EOF
    BY <1>1, <2>3, <2>5
  <2>9. a.heap = s.heap
    BY <2>2, <2>3, <2>7, <2>8
  <2>10. a.args = [i \in Slot |-> IF i =< n THEN from + i ELSE None]
    BY <2>2, <2>6
  <2> QED
    BY <1>5, <2>9, <2>10 DEF Holds
<1> QED
  BY <1>5, <1>6

\* execvp takes the slots up to the first that is NULL.
LEMMA ArgvIsHeld ==
  ASSUME NEW s \in States, NEW from \in Nat, NEW n \in 0 .. NARGS, Holds(s, from, n)
  PROVE  Argv(s) = [i \in 1 .. n |-> from + i]
<1> DEFINE First(m) == s.args[m] = None /\ \A j \in 1 .. m - 1 : s.args[j] # None
<1>1. NARGS \in Nat /\ None \notin Nat /\ n \in Nat /\ n + 1 \in Slot
  BY XargsAssumption DEF Slot
<1>2. \A i \in Slot : s.args[i] = IF i =< n THEN from + i ELSE None
  BY DEF Holds
<1>3. First(n + 1)
  BY <1>1, <1>2 DEF Slot
<1>4. ASSUME NEW m \in Slot, First(m) PROVE m = n + 1
  BY <1>1, <1>2, <1>4 DEF Slot
<1>5. (CHOOSE m \in Slot : First(m)) = n + 1
  BY <1>1, <1>3, <1>4
<1>6. Argv(s) = [i \in 1 .. n |-> s.args[i]]
  <2> DEFINE end == CHOOSE i \in Slot : First(i)
  <2>1. Argv(s) = [i \in 1 .. end - 1 |-> s.args[i]]
    BY DEF Argv
  <2>2. end = n + 1
    BY <1>5
  <2> HIDE DEF end
  <2>3. end - 1 = n
    BY <1>1, <2>2
  <2> QED
    BY <2>1, <2>3
<1>7. \A i \in 1 .. n : i \in Slot /\ i =< n
  BY <1>1 DEF Slot
<1> QED
  BY <1>2, <1>6, <1>7
-----------------------------------------------------------------------------
(* The invariant holds in every state                                      *)

LEMMA Processes ==
  ASSUME TypeOK
  PROVE  /\ X \in States /\ C \in States /\ Proc = {"xargs", "child"}
         /\ NARGS \in Nat /\ NARGS >= 1 /\ X.stored \in Nat /\ pos \in Nat
BY XargsAssumption DEF TypeOK, X, C, Proc, States

LEMMA InitXargs == Init => XargsInv
<1> SUFFICES ASSUME Init PROVE XargsInv
  OBVIOUS
<1>1. X = Start("getline") /\ C = Start("none") /\ ran = <<>> /\ failures = 0
      /\ badFree = FALSE /\ pos = 0 /\ length \in Nat /\ pos \in 0 .. length
  BY XargsAssumption DEF Init, X, C, Proc
<1>2. \A pc \in {"none", "getline"} : Start(pc) \in States
  BY XargsAssumption DEF Start, States
<1>3. NARGS \in Nat /\ NARGS >= 1 /\ 0 * NARGS = 0
  BY XargsAssumption
<1>4. TypeOK
  <2>1. self \in [Proc -> States]
    BY <1>2 DEF Init
  <2>2. <<>> \in Seq(Seq(Nat))
    OBVIOUS
  <2>3. badFree \in BOOLEAN /\ failures \in Nat
    BY <1>1
  <2> QED
    BY <1>1, <2>1, <2>2, <2>3 DEF TypeOK
<1>5. Holds(X, 0, 0)
  BY <1>1 DEF Holds, Start, Slot
<1>6. Begin = 0 /\ X.stored = 0 /\ X.pc = "getline" /\ ~X.over /\ X.ret = 0 /\ C.pc = "none"
      /\ C.ret = 0
  BY <1>1 DEF Begin, Start
<1>7. ParentInv
  BY <1>1, <1>3, <1>5, <1>6 DEF ParentInv, Batched
<1>8. ChildInv
  BY <1>6 DEF ChildInv
<1>9. RanInv
  BY <1>1, <1>3, <1>6 DEF RanInv, Waiting
<1> QED
  BY <1>1, <1>4, <1>7, <1>8, <1>9 DEF XargsInv

LEMMA BatchBegins ==
  ASSUME length \in Nat, NEW k \in Nat, k * NARGS < length
  PROVE  Batch(k * NARGS)[1] \in Nat
<1> DEFINE n == k * NARGS
<1>1. n \in Nat /\ n < length
  BY Multiples
<1> HIDE DEF n
<1>2. 1 \in 1 .. (IF n + NARGS =< length THEN NARGS ELSE length - n)
  BY <1>1, XargsAssumption
<1>3. Batch(n)[1] = n + 1
  BY <1>2 DEF Batch
<1> QED
  BY <1>1, <1>3 DEF n

\* A step that executes nothing, and after which no fewer lines have gone to commands
LEMMA RanKept ==
  ASSUME XargsInv, TypeOK', UNCHANGED <<ran, length>>,
         (IF Waiting THEN Begin ELSE pos) =< (IF Waiting THEN Begin ELSE pos)',
         failures' = 0 => failures = 0,
         failures' = 0 /\ failures = 0 =>
           (IF Waiting THEN Len(ran) * NARGS = Begin
            ELSE IF X.over THEN pos =< Len(ran) * NARGS /\ Len(ran) * NARGS < pos + NARGS
            ELSE Len(ran) * NARGS = pos)'
  PROVE  RanInv'
<1>1. \A i \in DOMAIN ran : ran[i][1] \in Nat
  BY BatchBegins DEF XargsInv, RanInv, TypeOK
<1>2. Begin \in Int /\ pos \in Int /\ Begin' \in Int /\ pos' \in Int
  BY DEF XargsInv, TypeOK, Begin, X, Proc, States
<1>3. \A n : Batch(n)' = Batch(n)
  BY DEF Batch
<1> QED
  BY <1>1, <1>2, <1>3 DEF XargsInv, RanInv

LEMMA GetLineKeeps ==
  ASSUME XargsInv, NEW p \in Proc, GetLine(p)
  PROVE  XargsInv'
<1>1. p = "xargs" /\ X.pc = "getline" /\ C.pc = "none"
  BY DEF XargsInv, ChildInv, ParentInv, GetLine, At, X, C, Proc
<1> USE Processes DEF XargsInv
<1>2. /\ X.stored =< pos /\ X.stored < NARGS /\ ~X.over /\ X.ret = 0 /\ Holds(X, Begin, X.stored)
      /\ Begin \in Nat
  BY <1>1 DEF ParentInv, Batched, Begin
<1>3. PICK k \in Nat : Begin = k * NARGS
  BY <1>1 DEF ParentInv, Batched
<1>4. UNCHANGED <<length, ran, badFree, failures>>
  BY DEF GetLine
<1>5. CASE pos < length
  <2> DEFINE read == [X EXCEPT !.args[X.stored + 1] = pos + 1, !.heap = @ \cup {pos + 1}]
             next == [read EXCEPT !.stored = @ + 1,
                                  !.pc = IF X.stored + 1 = NARGS THEN "fork" ELSE "getline"]
  <2>1. pos + 1 # EOF
    BY XargsAssumption DEF TypeOK
  <2>2. pos' = pos + 1 /\ self' = [self EXCEPT !["xargs"] = next]
    BY <1>1, <1>5, <2>1 DEF GetLine, X
  <2>3. read \in States /\ Holds(read, Begin, X.stored + 1)
    <3>1. Begin + X.stored + 1 = pos + 1
      BY DEF Begin
    <3> QED
      BY <1>2, <3>1, ReadsLine
  <2>4. /\ next \in States /\ next.stored = X.stored + 1 /\ next.ret = 0 /\ ~next.over
        /\ next.pc = (IF X.stored + 1 = NARGS THEN "fork" ELSE "getline")
        /\ next.args = read.args /\ next.heap = read.heap
    <3>1. read.stored = X.stored /\ read.ret = 0 /\ ~read.over
      BY <1>2 DEF States
    <3>2. X.stored + 1 \in 0 .. NARGS
      BY <1>2
    <3> HIDE DEF read
    <3> QED
      BY <2>3, <3>1, <3>2 DEF States
  <2>5. X' = next /\ C' = C
    BY <2>2 DEF TypeOK, X, C, Proc
  <2>6. Begin' = Begin
    BY <2>2, <2>4, <2>5 DEF Begin
  <2>7. TypeOK'
    BY <1>4, <1>5, <2>2, <2>4 DEF TypeOK
  <2> HIDE DEF next, read
  <2>8. ParentInv'
    <3>1. Holds(X, Begin, X.stored)'
      BY <2>3, <2>4, <2>5, <2>6 DEF Holds
    <3>2. Batched'
      BY <1>2, <1>3, <2>2, <2>4, <2>5, <2>6 DEF Batched
    <3> QED
      BY <1>2, <2>4, <2>5, <3>1, <3>2 DEF ParentInv
  <2>9. ChildInv'
    BY <1>1, <1>4, <2>4, <2>5 DEF ChildInv
  <2>10. Waiting /\ Waiting'
    BY <1>1, <2>4, <2>5 DEF Waiting
  <2>11. RanInv'
    BY <1>2, <1>4, <2>6, <2>7, <2>10, RanKept DEF RanInv
  <2> QED
    BY <1>4, <2>7, <2>8, <2>9, <2>11
<1>6. CASE ~(pos < length)
  <2> DEFINE next == OnEof([X EXCEPT !.args[X.stored + 1] = EOF, !.heap = @ \cup {EOF}])
  <2>1. pos' = pos /\ self' = [self EXCEPT !["xargs"] = next] /\ pos = length
    BY <1>1, <1>6 DEF GetLine, X, TypeOK
  <2>2. /\ next \in States /\ next.over /\ next.stored = X.stored /\ next.ret = X.ret
        /\ next.pc = (IF X.stored > 0 THEN "fork" ELSE "exit")
        /\ pos > 0 => Holds(next, Begin, X.stored)
    BY <1>2, ReadsEof
  <2> HIDE DEF next
  <2>3. X' = next /\ C' = C
    BY <2>1 DEF TypeOK, X, C, Proc
  <2>4. Begin' = Begin
    BY <2>1, <2>2, <2>3 DEF Begin
  <2>5. TypeOK'
    BY <1>4, <2>1, <2>2 DEF TypeOK
  <2>6. X.stored = 0 /\ pos > 0 => next.heap = {}
    BY <2>2 DEF Holds
  <2>7. ParentInv'
    BY <1>2, <1>3, <1>4, <2>1, <2>2, <2>3, <2>4, <2>6 DEF ParentInv, Batched, Holds
  <2>8. ChildInv'
    BY <1>1, <1>4, <2>2, <2>3 DEF ChildInv
  <2>9. Waiting /\ (Waiting' <=> X.stored > 0) /\ (X.stored = 0 => Begin = pos)
    BY <1>1, <2>2, <2>3 DEF Waiting, Begin
  <2>10. RanInv'
    BY <1>2, <1>4, <2>1, <2>2, <2>3, <2>4, <2>5, <2>9, RanKept DEF RanInv
  <2> QED
    BY <1>4, <2>5, <2>7, <2>8, <2>10
<1> QED
  BY <1>5, <1>6

LEMMA ForkCommandKeeps ==
  ASSUME XargsInv, NEW p \in Proc, ForkCommand(p)
  PROVE  XargsInv'
<1>1. p = "xargs" /\ X.pc = "fork" /\ C.pc = "none"
  BY DEF XargsInv, ChildInv, ParentInv, ForkCommand, At, X, C, Proc
<1> USE Processes DEF XargsInv
<1>2. /\ Batched /\ X.ret = 0 /\ Holds(X, Begin, X.stored) /\ Begin =< pos /\ Waiting
      /\ Begin \in Int
  BY <1>1 DEF ParentInv, Batched, Begin, Waiting
<1>3. UNCHANGED <<length, pos, ran, badFree>>
  BY DEF ForkCommand
<1>4. CASE /\ self' = [self EXCEPT !["xargs"].pc = "wait", !["child"] = [X EXCEPT !.pc = "exec"]]
           /\ UNCHANGED failures
  <2>1. X' = [X EXCEPT !.pc = "wait"] /\ C' = [X EXCEPT !.pc = "exec"]
    BY <1>4 DEF TypeOK, X, C, Proc
  <2>2. /\ X' \in States /\ C' \in States
        /\ \A f \in {"stored", "args", "heap", "over", "ret"} : X'[f] = X[f] /\ C'[f] = X[f]
        /\ X.pc' = "wait" /\ C.pc' = "exec"
    BY <2>1 DEF States
  <2>3. TypeOK'
    BY <1>3, <1>4, <2>2 DEF TypeOK, X, C, Proc
  <2>4. Begin' = Begin /\ Waiting'
    BY <1>3, <2>2 DEF Begin, Waiting
  <2>5. ParentInv'
    BY <1>1, <1>2, <1>3, <2>2, <2>4 DEF ParentInv, Batched, Holds
  <2>6. ChildInv'
    BY <1>2, <2>2, <2>4 DEF ChildInv, Holds
  <2>7. RanInv'
    BY <1>2, <1>3, <1>4, <2>3, <2>4, RanKept DEF RanInv
  <2> QED
    BY <1>3, <2>3, <2>5, <2>6, <2>7
<1>5. CASE Fail /\ self' = [self EXCEPT !["xargs"].pc = "free", !["xargs"].ret = -1]
  <2>1. X' = [X EXCEPT !.pc = "free", !.ret = -1] /\ C' = C
    BY <1>5 DEF TypeOK, X, C, Proc
  <2>2. /\ X' \in States /\ X.pc' = "free" /\ X.ret' = -1
        /\ \A f \in {"stored", "args", "heap", "over"} : X'[f] = X[f]
    BY <2>1 DEF States
  <2>3. failures' \in Nat /\ failures' > 0
    BY <1>5 DEF Fail, TypeOK
  <2>4. TypeOK'
    BY <1>3, <1>5, <2>2, <2>3 DEF TypeOK, X, C, Proc
  <2>5. Begin' = Begin /\ ~Waiting'
    BY <1>1, <1>3, <2>1, <2>2 DEF Begin, Waiting
  <2>6. ParentInv'
    BY <1>1, <1>2, <1>3, <2>2, <2>3, <2>5 DEF ParentInv, Batched, Holds
  <2>7. ChildInv'
    BY <1>1, <2>1, <2>2, <2>3 DEF ChildInv
  <2>8. RanInv'
    BY <1>2, <1>3, <2>3, <2>4, <2>5, RanKept
  <2> QED
    BY <1>3, <2>4, <2>6, <2>7, <2>8
<1> QED
  BY <1>1, <1>4, <1>5 DEF ForkCommand, X
\* A command that is executed gets the next batch of lines.
LEMMA ExecKeeps == XargsInv /\ Exec => XargsInv'
<1> SUFFICES ASSUME XargsInv, Exec PROVE XargsInv'
  OBVIOUS
<1> USE Processes DEF XargsInv
<1>1. C.pc = "exec" /\ X.pc = "wait"
  BY DEF ChildInv, Exec, At, C
<1>2. /\ Batched /\ X.ret = 0 /\ Holds(X, Begin, X.stored) /\ Waiting /\ Begin \in Nat
      /\ X.stored > 0 /\ X.stored \in 1 .. NARGS /\ Begin + X.stored = pos
  BY <1>1 DEF ParentInv, Batched, Begin, Waiting, States
<1>3. C.stored = X.stored /\ Holds(C, Begin, X.stored)
  BY <1>1 DEF ChildInv
<1>4. UNCHANGED <<length, pos, badFree>> /\ pos =< length /\ length \in Nat
  BY DEF Exec, TypeOK
<1>5. CASE /\ self' = [self EXCEPT !["child"].pc = "command"]
           /\ ran' = Append(ran, Argv(C)) /\ UNCHANGED failures
  <2>1. C' = [C EXCEPT !.pc = "command"] /\ X' = X
    BY <1>5 DEF TypeOK, X, C, Proc
  <2>2. C' \in States /\ C.pc' = "command" /\ C.ret' = C.ret
    BY <2>1 DEF States
  <2>3. Begin' = Begin /\ ~Waiting'
    BY <1>1, <1>4, <2>1, <2>2 DEF Begin, Waiting
  <2>4. Argv(C) = [i \in 1 .. X.stored |-> Begin + i]
    BY <1>2, <1>3, ArgvIsHeld
  <2>5. Argv(C) = Batch(Begin)
    <3>1. X.stored = IF Begin + NARGS =< length THEN NARGS ELSE length - Begin
      BY <1>1, <1>2, <1>4 DEF Batched
    <3> QED
      BY <2>4, <3>1 DEF Batch
  <2>6. Argv(C) \in Seq(Nat) /\ Argv(C)[1] = Begin + 1
    BY <1>2, <2>4
  <2>7. TypeOK'
    <3>1. ran' \in Seq(Seq(Nat))
      BY <1>5, <2>6 DEF TypeOK
    <3>2. self' \in [Proc -> States]
      BY <1>5, <2>1, <2>2 DEF TypeOK, X, C, Proc
    <3> QED
      BY <1>4, <1>5, <3>1, <3>2 DEF TypeOK
  <2>8. ParentInv'
    BY <1>1, <1>4, <1>5, <2>1, <2>3 DEF ParentInv, Batched, Holds
  <2>9. ChildInv'
    BY <1>1, <1>5, <2>1, <2>2 DEF ChildInv
  <2>10. RanInv'
    <3>1. /\ Len(ran') = Len(ran) + 1 /\ Len(ran) \in Nat
          /\ \A i \in 1 .. Len(ran) : ran'[i] = ran[i]
          /\ ran'[Len(ran) + 1] = Argv(C)
          /\ DOMAIN ran = 1 .. Len(ran) /\ DOMAIN ran' = 1 .. Len(ran) + 1
      BY <1>5, <2>6 DEF TypeOK
    <3>2. PICK n \in Nat : Begin = n * NARGS /\ n * NARGS < length
      BY <1>2, <1>4 DEF Batched
    <3>3. \A m : Batch(m)' = Batch(m)
      BY <1>4 DEF Batch
    <3>4. \A i \in 1 .. Len(ran) :
            /\ \E k \in Nat : k * NARGS < length /\ ran[i] = Batch(k * NARGS)
            /\ ran[i][1] =< Begin
      BY <1>2, <3>1 DEF RanInv
    <3>5. \A i \in 1 .. Len(ran) - 1 : ran[i][1] < ran[i + 1][1]
      BY DEF RanInv
    <3>6. Begin + 1 =< pos
      BY <1>2
    <3>7. ASSUME NEW i \in DOMAIN ran'
          PROVE  /\ \E k \in Nat : k * NARGS < length' /\ ran'[i] = Batch(k * NARGS)'
                 /\ ran'[i][1] =< pos'
      <4>1. CASE i \in 1 .. Len(ran)
        <5>1. PICK k \in Nat : k * NARGS < length /\ ran[i] = Batch(k * NARGS)
          BY <3>4, <4>1
        <5>2. ran[i][1] \in Nat
          BY <4>1, <5>1, BatchBegins DEF TypeOK
        <5> QED
          BY <1>2, <1>4, <3>1, <3>3, <3>4, <3>6, <4>1, <5>1, <5>2
      <4>2. CASE i = Len(ran) + 1
        BY <1>4, <2>5, <2>6, <3>1, <3>2, <3>3, <3>6, <4>2
      <4> QED
        BY <3>1, <4>1, <4>2
    <3>8. ASSUME NEW i \in 1 .. Len(ran') - 1
          PROVE  ran'[i][1] < ran'[i + 1][1]
      <4>1. CASE i \in 1 .. Len(ran) - 1
        BY <3>1, <3>5, <4>1
      <4>2. CASE i = Len(ran)
        <5>1. i \in 1 .. Len(ran)
          BY <3>1, <4>2
        <5>2. PICK k \in Nat : k * NARGS < length /\ ran[i] = Batch(k * NARGS)
          BY <3>4, <5>1
        <5>3. ran[i][1] \in Nat
          BY <5>2, BatchBegins DEF TypeOK
        <5>4. ran'[i][1] =< Begin /\ ran'[i + 1] = Argv(C) /\ ran'[i][1] \in Nat
          BY <3>1, <3>4, <4>2, <5>1, <5>3
        <5> QED
          BY <1>2, <2>6, <5>4
      <4>3. i \in 1 .. Len(ran) - 1 \/ i = Len(ran)
        <5>1. Len(ran') - 1 = Len(ran)
          BY <3>1
        <5>2. i \in 1 .. Len(ran)
          BY <5>1
        <5>3. \A l \in Nat : i \in 1 .. l => i \in 1 .. l - 1 \/ i = l
          OBVIOUS
        <5> QED
          BY <3>1, <5>2, <5>3
      <4> QED
        BY <4>1, <4>2, <4>3
    <3>9. ASSUME failures' = 0
          PROVE  IF X.over THEN pos =< Len(ran') * NARGS /\ Len(ran') * NARGS < pos + NARGS
                 ELSE Len(ran') * NARGS = pos
      <4>1. Len(ran) * NARGS = Begin
        BY <1>2, <1>5, <3>9 DEF RanInv
      <4>2. Len(ran') * NARGS = Begin + NARGS
        BY <3>1, <4>1, Multiples
      <4> QED
        BY <1>1, <1>2, <4>2 DEF Batched
    <3> QED
      BY <1>4, <2>1, <2>3, <3>7, <3>8, <3>9 DEF RanInv
  <2> QED
    BY <1>4, <2>7, <2>8, <2>9, <2>10
<1>6. CASE /\ Fail /\ self' = [self EXCEPT !["child"].pc = "free", !["child"].ret = -1]
           /\ UNCHANGED ran
  <2>1. C' = [C EXCEPT !.pc = "free", !.ret = -1] /\ X' = X
    BY <1>6 DEF TypeOK, X, C, Proc
  <2>2. /\ C' \in States /\ C.pc' = "free" /\ C.ret' = -1
        /\ \A f \in {"stored", "args", "heap"} : C'[f] = C[f]
    BY <2>1 DEF States
  <2>3. failures' \in Nat /\ failures' > 0
    BY <1>6 DEF Fail, TypeOK
  <2>4. TypeOK'
    BY <1>4, <1>6, <2>1, <2>2, <2>3 DEF TypeOK, X, C, Proc
  <2>5. Begin' = Begin /\ ~Waiting'
    BY <1>1, <1>4, <2>1, <2>2 DEF Begin, Waiting
  <2>6. ParentInv'
    BY <1>1, <1>4, <2>1, <2>3, <2>5 DEF ParentInv, Batched, Holds
  <2>7. ChildInv'
    BY <1>1, <1>3, <2>1, <2>2, <2>3, <2>5 DEF ChildInv, Holds
  <2>8. Begin =< pos
    BY <1>2
  <2>9. RanInv'
    BY <1>2, <1>4, <1>6, <2>3, <2>4, <2>5, <2>8, RanKept
  <2> QED
    BY <1>4, <2>4, <2>6, <2>7, <2>9
<1> QED
  BY <1>5, <1>6 DEF Exec, C

LEMMA CommandEndsKeeps == XargsInv /\ CommandEnds => XargsInv'
<1> SUFFICES ASSUME XargsInv, CommandEnds PROVE XargsInv'
  OBVIOUS
<1> USE Processes DEF XargsInv
<1>1. C.pc = "command" /\ X.pc = "wait"
  BY DEF ChildInv, CommandEnds, At, C
<1>2. UNCHANGED <<length, pos, ran, badFree, failures>>
  BY DEF CommandEnds
<1>3. C' = Start("zombie") /\ X' = X
  BY DEF CommandEnds, TypeOK, X, C, Proc
<1>4. C' \in States /\ C.pc' = "zombie" /\ C.ret' = 0
  BY <1>3 DEF Start, States
<1>5. TypeOK'
  BY <1>2, <1>3, <1>4 DEF CommandEnds, TypeOK, X, C, Proc
<1>6. Begin' = Begin /\ ~Waiting /\ ~Waiting'
  BY <1>1, <1>2, <1>3, <1>4 DEF Begin, Waiting
<1>7. ParentInv'
  BY <1>1, <1>2, <1>3, <1>6 DEF ParentInv, Batched, Holds
<1>8. ChildInv'
  BY <1>1, <1>3, <1>4 DEF ChildInv
<1>9. RanInv'
  BY <1>2, <1>3, <1>5, <1>6, RanKept DEF RanInv
<1> QED
  BY <1>2, <1>5, <1>7, <1>8, <1>9

LEMMA WaitKeeps == XargsInv /\ Wait => XargsInv'
<1> SUFFICES ASSUME XargsInv, Wait PROVE XargsInv'
  OBVIOUS
<1> USE Processes DEF XargsInv
<1> DEFINE freed == FreeAllStoredArgs(X)
           next == [freed EXCEPT !.pc = "free"]
<1>1. X.pc = "wait" /\ C.pc = "zombie"
  BY DEF Wait, At, X, C
<1>2. Batched /\ X.ret = 0 /\ Holds(X, Begin, X.stored) /\ Begin \in Nat
  BY <1>1 DEF ParentInv, Batched, Begin
<1>3. UNCHANGED <<length, pos, ran, failures>>
  BY DEF Wait
<1>4. /\ freed \in States /\ Holds(freed, Begin, 0) /\ ~FreesBadly(X, StoredSlots(X))
      /\ freed = [X EXCEPT !.heap = freed.heap, !.args = freed.args]
  BY <1>2, FreesAll
<1>5. self' = [self EXCEPT !["xargs"] = next, !["child"] = Start("none")]
      /\ badFree' = FALSE
  BY <1>4 DEF Wait, X, TypeOK
<1> HIDE DEF freed
<1>6. /\ next \in States /\ next.pc = "free" /\ Holds(next, Begin, 0)
      /\ next.stored = X.stored /\ next.over = X.over /\ next.ret = 0
  <2>1. freed.stored = X.stored /\ freed.over = X.over /\ freed.ret = 0
    BY <1>2, <1>4 DEF States
  <2> QED
    BY <1>4, <2>1 DEF States, Holds
<1> HIDE DEF next
<1>7. X' = next /\ C' = Start("none")
  BY <1>5 DEF TypeOK, X, C, Proc
<1>8. C' \in States /\ C.pc' = "none" /\ C.ret' = 0
  BY <1>7 DEF Start, States
<1>9. TypeOK'
  BY <1>3, <1>5, <1>6, <1>7, <1>8 DEF TypeOK, X, C, Proc
<1>10. Begin' = Begin /\ ~Waiting /\ ~Waiting'
  BY <1>1, <1>3, <1>6, <1>7, <1>8 DEF Begin, Waiting
<1>11. ParentInv'
  BY <1>1, <1>2, <1>3, <1>6, <1>7, <1>10 DEF ParentInv, Batched, Holds
<1>12. ChildInv'
  BY <1>6, <1>7, <1>8 DEF ChildInv
<1>13. RanInv'
  BY <1>3, <1>6, <1>7, <1>9, <1>10, RanKept DEF RanInv
<1> QED
  BY <1>5, <1>9, <1>11, <1>12, <1>13

LEMMA FreeKeeps ==
  ASSUME XargsInv, NEW p \in Proc, Free(p)
  PROVE  XargsInv'
<1> USE Processes DEF XargsInv
<1> DEFINE s == self[p]
           freed == FreeAllStoredArgs(s)
           next == [freed EXCEPT !.stored = 0,
                      !.pc = IF s.ret = -1 \/ s.over THEN "exit" ELSE "getline"]
<1>1. s \in States /\ s.pc = "free" /\ Begin \in Int
  BY DEF Free, At, TypeOK, Begin
<1>2. Begin \in Nat /\ (Holds(s, Begin, s.stored) \/ Holds(s, Begin, 0))
  <2>1. CASE p = "xargs"
    BY <1>1, <2>1 DEF ParentInv, Batched, Begin, X
  <2>2. CASE p = "child"
    <3>1. C.pc = "free" /\ X.pc = "wait"
      BY <1>1, <2>2 DEF C, ChildInv
    <3> QED
      BY <2>2, <3>1 DEF ChildInv, ParentInv, Batched, Begin, C
  <2> QED
    BY <2>1, <2>2
<1>3. /\ freed \in States /\ Holds(freed, Begin, 0) /\ freed.heap = {}
      /\ ~FreesBadly(s, StoredSlots(s))
      /\ freed = [s EXCEPT !.heap = freed.heap, !.args = freed.args]
  BY <1>1, <1>2, FreesAll
<1>4. self' = [self EXCEPT ![p] = next] /\ badFree' = FALSE /\ UNCHANGED <<length, pos, ran, failures>>
  BY <1>3 DEF Free, TypeOK
<1>5. freed.over = s.over /\ freed.ret = s.ret
  BY <1>1, <1>3 DEF States
<1> HIDE DEF freed
<1>6. /\ next \in States /\ next.stored = 0 /\ next.over = s.over /\ next.ret = s.ret
      /\ next.pc = (IF s.ret = -1 \/ s.over THEN "exit" ELSE "getline")
      /\ next.args = freed.args /\ next.heap = {}
  <2>1. 0 \in 0 .. NARGS
    BY Processes
  <2> HIDE DEF s
  <2> QED
    BY <1>3, <1>5, <2>1 DEF States
<1> HIDE DEF next
<1>7. TypeOK'
  BY <1>4, <1>6 DEF TypeOK
<1>8. CASE p = "xargs"
  <2>1. X' = next /\ C' = C /\ X.pc = "free" /\ s = X /\ C.pc = "none"
    BY <1>1, <1>4, <1>8 DEF TypeOK, X, C, Proc, ChildInv
  <2>2. Batched
    BY <2>1 DEF ParentInv
  <2>3. Begin' = pos /\ ~Waiting /\ Begin =< pos
    BY <1>4, <1>6, <2>1, <2>2 DEF Begin, Waiting, Batched
  <2>4. next.pc = "getline" => ~X.over /\ X.ret = 0 /\ \E k \in Nat : pos = k * NARGS
    <3> SUFFICES ASSUME next.pc = "getline" PROVE \E k \in Nat : pos = k * NARGS
      BY <1>6, <2>1 DEF States
    <3>1. X.stored = NARGS
      BY <1>6, <2>1, <2>2 DEF Batched
    <3>2. PICK k \in Nat : Begin = k * NARGS
      BY <2>2 DEF Batched
    <3>3. pos = (k + 1) * NARGS
      BY <3>1, <3>2, Multiples DEF Begin
    <3> QED
      BY <3>3
  <2>5. Holds(X, Begin, 0)'
    <3>2. \A i \in Slot : ~(i =< 0)
      BY DEF Slot
    <3>3. freed.args = [i \in Slot |-> IF i =< 0 THEN Begin + i ELSE None]
      BY <1>3 DEF Holds
    <3>1. next.args = [i \in Slot |-> None]
      BY <1>6, <3>2, <3>3
    <3> QED
      BY <1>6, <2>1, <3>1, <3>2 DEF Holds
  <2>6. ParentInv'
    BY <1>4, <1>6, <2>1, <2>2, <2>3, <2>4, <2>5 DEF ParentInv, Batched
  <2>7. ChildInv'
    BY <1>4, <1>6, <2>1 DEF ChildInv
  <2>8. Waiting' <=> next.pc = "getline"
    BY <1>6, <2>1 DEF Waiting
  <2>9. X.ret = -1 => failures > 0
    BY DEF ParentInv
  <2>10. RanInv'
    BY <1>4, <1>6, <1>7, <2>1, <2>3, <2>4, <2>8, <2>9, RanKept DEF RanInv
  <2> QED
    BY <1>4, <1>7, <2>6, <2>7, <2>10
<1>9. CASE p = "child"
  <2>1. C' = next /\ X' = X /\ C.pc = "free" /\ s = C
    BY <1>1, <1>4, <1>9 DEF TypeOK, X, C, Proc
  <2>2. C.ret = -1 /\ failures > 0 /\ X.pc = "wait"
    BY <2>1 DEF ChildInv
  <2>3. next.pc = "exit"
    BY <1>6, <2>1, <2>2
  <2>4. Begin' = Begin /\ ~Waiting /\ ~Waiting'
    BY <1>4, <2>1, <2>2, <2>3 DEF Begin, Waiting
  <2>5. ParentInv'
    BY <1>4, <2>1, <2>4 DEF ParentInv, Batched, Holds
  <2>6. ChildInv'
    BY <1>4, <1>6, <2>1, <2>2, <2>3 DEF ChildInv
  <2>7. RanInv'
    BY <1>4, <1>7, <2>2, <2>4, RanKept
  <2> QED
    BY <1>4, <1>7, <2>5, <2>6, <2>7
<1> QED
  BY <1>8, <1>9

LEMMA ExitKeeps ==
  ASSUME XargsInv, NEW p \in Proc, Exit(p)
  PROVE  XargsInv'
<1> USE Processes DEF XargsInv
<1>1. /\ self[p] \in States /\ self[p].pc = "exit" /\ UNCHANGED <<length, pos, ran, badFree, failures>>
      /\ self' = [self EXCEPT ![p].pc = "zombie"]
  BY DEF Exit, At, TypeOK
<1>2. TypeOK'
  BY <1>1 DEF TypeOK, States
<1>3. CASE p = "xargs"
  <2>1. X' = [X EXCEPT !.pc = "zombie"] /\ C' = C /\ X.pc = "exit" /\ C.pc = "none"
    BY <1>1, <1>3 DEF TypeOK, X, C, Proc, ChildInv
  <2>2. X.pc' = "zombie" /\ \A f \in {"stored", "over", "ret"} : X'[f] = X[f]
    BY <2>1 DEF States
  <2>3. Begin' = Begin /\ ~Waiting /\ ~Waiting'
    BY <1>1, <2>1, <2>2 DEF Begin, Waiting
  <2>4. ParentInv' /\ ChildInv'
    BY <1>1, <2>1, <2>2 DEF ParentInv, ChildInv
  <2>5. RanInv'
    BY <1>1, <1>2, <2>2, <2>3, RanKept DEF RanInv
  <2> QED
    BY <1>1, <1>2, <2>4, <2>5
<1>4. CASE p = "child"
  <2>1. C' = [C EXCEPT !.pc = "zombie"] /\ X' = X /\ C.pc = "exit"
    BY <1>1, <1>4 DEF TypeOK, X, C, Proc
  <2>2. C.pc' = "zombie" /\ C.ret' = C.ret /\ X.pc = "wait"
    BY <2>1 DEF States, ChildInv
  <2>3. Begin' = Begin /\ ~Waiting /\ ~Waiting'
    BY <1>1, <2>1, <2>2 DEF Begin, Waiting
  <2>4. ParentInv'
    BY <1>1, <2>1, <2>3 DEF ParentInv, Batched, Holds
  <2>5. ChildInv'
    BY <1>1, <2>1, <2>2 DEF ChildInv
  <2>6. RanInv'
    BY <1>1, <1>2, <2>1, <2>3, RanKept DEF RanInv
  <2> QED
    BY <1>1, <1>2, <2>4, <2>5, <2>6
<1> QED
  BY <1>3, <1>4

\* Where xargs and its child are, what they hold, and which commands were executed, in
\* every state.
THEOREM XargsInvariant == Spec => []XargsInv
<1>1. XargsInv /\ [Next]_vars => XargsInv'
  <2> SUFFICES ASSUME XargsInv, [Next]_vars PROVE XargsInv'
    OBVIOUS
  <2>1. CASE Exec
    BY <2>1, ExecKeeps
  <2>2. CASE CommandEnds
    BY <2>2, CommandEndsKeeps
  <2>3. CASE Wait
    BY <2>3, WaitKeeps
  <2>4. ASSUME NEW p \in Proc, GetLine(p) PROVE XargsInv'
    BY <2>4, GetLineKeeps
  <2>5. ASSUME NEW p \in Proc, ForkCommand(p) PROVE XargsInv'
    BY <2>5, ForkCommandKeeps
  <2>6. ASSUME NEW p \in Proc, Free(p) PROVE XargsInv'
    BY <2>6, FreeKeeps
  <2>7. ASSUME NEW p \in Proc, Exit(p) PROVE XargsInv'
    BY <2>7, ExitKeeps
  <2>8. CASE UNCHANGED vars
    BY <2>8 DEF vars, XargsInv, TypeOK, ParentInv, ChildInv, RanInv, Batched, Begin, Waiting,
                Holds, Batch, X, C
  <2> QED
    BY <2>1, <2>2, <2>3, <2>4, <2>5, <2>6, <2>7, <2>8 DEF Next
<1> QED
  BY InitXargs, <1>1, PTL DEF Spec

\* Commands get the lines in order, NARGS each and the last what is left, no buffer is
\* freed twice, and main returns with nothing allocated, in xargs and in a child that
\* could not execute (xargs.c); whatever number of calls fail.
THEOREM CommandsGetTheirLines == Spec => []XargsIsRight
<1>1. XargsInv => XargsIsRight
  <2> SUFFICES ASSUME XargsInv PROVE XargsIsRight
    OBVIOUS
  <2> USE Processes DEF XargsInv
  <2>1. \A i \in DOMAIN ran : \E k \in 0 .. length - 1 :
          k * NARGS < length /\ ran[i] = Batch(k * NARGS)
    <3> SUFFICES ASSUME NEW i \in DOMAIN ran
                 PROVE  \E k \in 0 .. length - 1 : k * NARGS < length /\ ran[i] = Batch(k * NARGS)
      OBVIOUS
    <3>1. PICK k \in Nat : k * NARGS < length /\ ran[i] = Batch(k * NARGS)
      BY DEF RanInv
    <3>2. k \in 0 .. length - 1
      BY <3>1, Multiples DEF TypeOK
    <3> QED
      BY <3>1, <3>2
  <2>2. X.pc = "zombie" /\ failures = 0 =>
          length =< Len(ran) * NARGS /\ Len(ran) * NARGS < length + NARGS
    BY DEF ParentInv, ChildInv, RanInv, Waiting
  <2>3. BatchesInOrder
    BY <2>1, <2>2 DEF BatchesInOrder, RanInv, ChildInv, At, X, C
  <2>4. NothingLeaks
    BY DEF NothingLeaks, ParentInv, ChildInv, At, X, C
  <2> QED
    BY <2>3, <2>4 DEF XargsIsRight, NoBadFree
<1> QED
  BY <1>1, XargsInvariant, PTL

-----------------------------------------------------------------------------
(* find                                                                    *)

CONSTANTS N, Matching, CHANGES
VARIABLES parent, dirs, exist, changed, frames, fds, out, ret, leaked

Find == INSTANCE Find

Node == Find!Node

\* The path of a directory: "." is not named.
PathOf(d) == IF d = 0 THEN <<>> ELSE Find!PathTo[d]

Frames ==
  [dir : 0 .. N, left : SUBSET Node, entry : 0 .. N, path : Seq(Node),
   pc : {"readdir", "openat", "fdopendir", "return"}]

\* The trees there are.
TreeInv ==
  /\ parent \in [Node -> 0 .. N] /\ \A n \in Node : parent[n] < n
  /\ dirs \subseteq Node /\ \A n \in Node : parent[n] \in dirs \cup {0}

\* What was there all the time is below what was there all the time.
ExistInv ==
  /\ exist \subseteq Node /\ changed \subseteq Node
  /\ \A n \in exist : parent[n] \in exist \cup {0}
  /\ \A n \in exist \ changed : parent[n] \notin changed

\* The recursion is a path from "." to the directory that is read.
FrameInv ==
  /\ frames \in Seq(Frames)
  /\ \A i \in DOMAIN frames :
       /\ frames[i].dir \in dirs \cup {0}
       /\ frames[i].path = PathOf(frames[i].dir)
       /\ \A e \in frames[i].left : parent[e] = frames[i].dir /\ e \in exist \cup changed
       /\ frames[i].pc \in {"openat", "fdopendir"} =>
            frames[i].entry \in dirs /\ parent[frames[i].entry] = frames[i].dir
       /\ i > 1 => frames[i].pc = "fdopendir"
       /\ \A j \in DOMAIN frames : i < j => frames[j].dir < frames[i].dir

\* The directory that is about to be opened
AtHand == IF frames # <<>> /\ frames[1].pc \in {"openat", "fdopendir"} THEN {frames[1].entry} ELSE {}

Held == {frames[i].dir : i \in DOMAIN frames}

\* Descriptors; a search ends once a call has failed.
OpenInv ==
  /\ ret \in {0, -1}
  /\ ret = -1 /\ frames # <<>> => frames[1].pc = "return"
  /\ leaked = {} \/ (ret = -1 /\ \E d \in Node : leaked = {d} /\ \A h \in Held : h < d)
  /\ fds = Held \cup leaked \cup (IF Find!At("fdopendir") THEN {frames[1].entry} ELSE {})

\* S is what readdir has returned: what matches was printed, directories were opened, and
\* what was there all the time is yet to come if its directory is still read.
Seen(S) ==
  /\ S \subseteq exist \cup changed
  /\ \A n \in S : parent[n] \in S \cup {0} /\ parent[n] \notin AtHand
  /\ \A d \in AtHand : d \in S
  /\ \A i \in DOMAIN frames : frames[i].dir \in S \cup {0} /\ frames[i].left \cap S = {}
  /\ \A i \in DOMAIN out : \E n \in S \cap Matching : out[i] = Find!PathTo[n]
  /\ \A n \in S \cap Matching : \E i \in DOMAIN out : out[i] = Find!PathTo[n]
  /\ \A i, j \in DOMAIN out : out[i] = out[j] => i = j
  /\ ret = 0 =>
       \A n \in exist \ changed :
         parent[n] \in S \cup {0} /\ parent[n] \notin AtHand =>
           \/ n \in S
           \/ \E i \in DOMAIN frames :
                /\ frames[i].dir = parent[n] /\ n \in frames[i].left
                /\ ~(i = 1 /\ frames[i].pc = "return")

FindInv ==
  /\ TreeInv /\ ExistInv /\ FrameInv /\ OpenInv
  /\ out \in Seq(Seq(Node))
  /\ \E S \in SUBSET Node : Seen(S)

-----------------------------------------------------------------------------
LEMMA Least ==
  ASSUME NEW S \in SUBSET Nat, S # {}
  PROVE  \E x \in S : \A y \in S : x =< y
<1> DEFINE R == {ss \in Nat \X Nat : ss[1] < ss[2]}
<1>1. IsWellFoundedOn(R, Nat)
  BY NatLessThanWellFounded DEF OpToRel
<1>2. \A x, y \in Nat : y < x => <<y, x>> \in R
  OBVIOUS
<1> HIDE DEF R
<1>3. PICK x \in S : \A y \in S : ~ (<<y, x>> \in R)
  BY <1>1, WFMin
<1>4. ASSUME NEW y \in S PROVE x =< y
  <2>1. x \in Nat /\ y \in Nat
    OBVIOUS
  <2>2. ~(y < x)
    BY <1>2, <1>3, <2>1
  <2> QED
    BY <2>1, <2>2
<1> QED
  BY <1>4

-----------------------------------------------------------------------------
(* Paths                                                                   *)

\* PathTo, with the tree as a parameter
PathsIn(par) ==
  CHOOSE f : f = [n \in Node |-> IF par[n] = 0 THEN <<n>> ELSE Append(f[par[n]], n)]

LEMMA PathsStep ==
  ASSUME N \in Nat, NEW par \in [Node -> 0 .. N], \A n \in Node : par[n] < n
  PROVE  \A n \in Node :
           /\ PathsIn(par)[n] = IF par[n] = 0 THEN <<n>> ELSE Append(PathsIn(par)[par[n]], n)
           /\ PathsIn(par)[n] \in Seq(Node)
<1> DEFINE Eq(f, n) == f[n] = IF par[n] = 0 THEN <<n>> ELSE Append(f[par[n]], n)
           Is(f) == f = [n \in Node |-> IF par[n] = 0 THEN <<n>> ELSE Append(f[par[n]], n)]
           Upto(m) == \E f \in [1 .. m -> Seq(Node)] : \A n \in 1 .. m : Eq(f, n)
           Bad == {m \in 0 .. N : ~Upto(m)}
<1>1. Node = 1 .. N /\ \A n \in Node : par[n] \in 0 .. N
  BY DEF Node, Find!Node
<1>2. Bad = {}
  <2> SUFFICES ASSUME Bad # {} PROVE FALSE
    OBVIOUS
  <2>1. Bad \in SUBSET Nat
    OBVIOUS
  <2>2. PICK m \in Bad : \A k \in Bad : m =< k
    <3> HIDE DEF Bad
    <3> QED
      BY <2>1, Least
  <2>3. m \in 0 .. N /\ ~Upto(m)
    BY <2>2
  <2>4. CASE m = 0
    <3>1. [n \in 1 .. 0 |-> <<>>] \in [1 .. 0 -> Seq(Node)]
      OBVIOUS
    <3>2. \A n \in 1 .. 0 : FALSE
      OBVIOUS
    <3>3. Upto(0)
      <4> HIDE DEF Eq
      <4> QED
        BY <3>1, <3>2
    <3> QED
      BY <2>3, <2>4, <3>3
  <2>5. CASE m # 0
    <3>1. m - 1 \in 0 .. N /\ ~(m =< m - 1)
      BY <2>3, <2>5
    <3>2. Upto(m - 1)
      BY <2>2, <3>1
    <3>3. PICK f \in [1 .. m - 1 -> Seq(Node)] : \A n \in 1 .. m - 1 : Eq(f, n)
      BY <3>2
    <3> DEFINE last == IF par[m] = 0 THEN <<m>> ELSE Append(f[par[m]], m)
               g == [n \in 1 .. m |-> IF n = m THEN last ELSE f[n]]
    <3>4. m \in Node /\ par[m] \in 0 .. m - 1
      BY <1>1, <2>3, <2>5
    <3>5. last \in Seq(Node)
      <4>1. CASE par[m] = 0
        BY <3>4, <4>1
      <4>2. CASE par[m] # 0
        <5>1. f[par[m]] \in Seq(Node)
          BY <3>4, <4>2
        <5> QED
          BY <3>4, <4>2, <5>1
      <4> QED
        BY <4>1, <4>2
    <3>6. g \in [1 .. m -> Seq(Node)]
      <4> HIDE DEF last
      <4> QED
        BY <3>5
    <3>7. ASSUME NEW n \in 1 .. m PROVE Eq(g, n)
      <4>1. CASE n = m
        <5>1. par[m] # 0 => g[par[m]] = f[par[m]]
          BY <3>4
        <5> QED
          BY <4>1, <5>1
      <4>2. CASE n # m
        <5>1. n \in 1 .. m - 1 /\ n \in Node
          BY <4>2, <1>1, <2>3
        <5>2. par[n] # 0 => par[n] \in 1 .. m - 1
          BY <1>1, <5>1
        <5>3. g[n] = f[n] /\ (par[n] # 0 => g[par[n]] = f[par[n]])
          BY <5>1, <5>2
        <5>4. Eq(f, n)
          BY <3>3, <5>1
        <5> HIDE DEF g
        <5> QED
          BY <5>3, <5>4
      <4> QED
        BY <4>1, <4>2
    <3>8. Upto(m)
      <4> HIDE DEF g
      <4> QED
        BY <3>6, <3>7
    <3> QED
      BY <2>3, <3>8
  <2> QED
    BY <2>4, <2>5
<1>3. Upto(N)
  <2>1. N \in 0 .. N
    OBVIOUS
  <2> HIDE DEF Upto
  <2> QED
    BY <1>2, <2>1
<1>4. PICK f \in [Node -> Seq(Node)] : \A n \in Node : Eq(f, n)
  BY <1>1, <1>3
<1>5. Is(f)
  BY <1>4
<1>6. Is(PathsIn(par))
  <2>1. PathsIn(par) = CHOOSE h : Is(h)
    BY DEF PathsIn
  <2> HIDE DEF Is
  <2> QED
    BY <1>5, <2>1
<1>7. \A n \in Node : Eq(PathsIn(par), n)
  BY <1>6
<1> DEFINE P == PathsIn(par)
           Wrong == {n \in Node : P[n] \notin Seq(Node)}
<1>8. Wrong = {}
  <2> SUFFICES ASSUME Wrong # {} PROVE FALSE
    OBVIOUS
  <2>1. Wrong \in SUBSET Nat
    BY <1>1
  <2>2. PICK m \in Wrong : \A k \in Wrong : m =< k
    <3> HIDE DEF Wrong
    <3> QED
      BY <2>1, Least
  <2>3. m \in Node /\ Eq(P, m) /\ P[m] \notin Seq(Node)
    BY <1>7, <2>2
  <2>4. par[m] # 0 => P[par[m]] \in Seq(Node)
    <3>1. par[m] # 0 => par[m] \in Node /\ ~(m =< par[m])
      BY <1>1, <2>3
    <3> QED
      BY <2>2, <3>1
  <2> HIDE DEF P
  <2> QED
    BY <2>3, <2>4
<1> QED
  BY <1>7, <1>8

LEMMA FindPaths ==
  ASSUME N \in Nat, TreeInv
  PROVE  \A n \in Node : /\ Find!PathTo[n] = Append(PathOf(parent[n]), n)
                         /\ Find!PathTo[n] \in Seq(Node)
<1>1. Find!PathTo = PathsIn(parent)
  BY DEF Find!PathTo, PathsIn, Node, Find!Dot
<1>2. \A n \in Node : /\ Find!PathTo[n] = IF parent[n] = 0 THEN <<n>> ELSE Append(Find!PathTo[parent[n]], n)
                      /\ Find!PathTo[n] \in Seq(Node)
  BY <1>1, PathsStep DEF TreeInv
<1>3. \A n \in Node : Append(<<>>, n) = <<n>>
  OBVIOUS
<1> QED
  BY <1>2, <1>3 DEF PathOf
-----------------------------------------------------------------------------
(* Steps of find                                                           *)

LEMMA SameTree ==
  ASSUME TreeInv, UNCHANGED <<parent, dirs>>
  PROVE  /\ TreeInv'
         /\ Find!PathTo' = Find!PathTo
         /\ \A d : PathOf(d)' = PathOf(d)
<1>1. TreeInv'
  BY DEF TreeInv
<1>2. Find!PathTo = PathsIn(parent) /\ Find!PathTo' = PathsIn(parent')
  BY DEF Find!PathTo, PathsIn, Node, Find!Dot
<1>3. Find!PathTo' = Find!PathTo
  BY <1>2
<1> QED
  BY <1>1, <1>3 DEF PathOf

LEMMA Frame1 ==
  ASSUME FrameInv, frames # <<>>
  PROVE  /\ 1 \in DOMAIN frames /\ Find!Top = frames[1] /\ frames[1] \in Frames
         /\ DOMAIN frames = 1 .. Len(frames) /\ Len(frames) \in Nat \ {0}
         /\ \A i \in DOMAIN frames : frames[i] \in Frames
BY DEF FrameInv, Find!Top

LEMMA ChangeTop ==
  ASSUME NEW fs \in Seq(Frames), fs # <<>>, NEW g \in Frames
  PROVE  /\ [fs EXCEPT ![1] = g] \in Seq(Frames) /\ [fs EXCEPT ![1] = g] # <<>>
         /\ DOMAIN [fs EXCEPT ![1] = g] = DOMAIN fs /\ [fs EXCEPT ![1] = g][1] = g
         /\ \A i \in DOMAIN fs : i # 1 => [fs EXCEPT ![1] = g][i] = fs[i]
OBVIOUS

LEMMA Appended ==
  ASSUME NEW A, NEW s \in Seq(A), NEW x \in A
  PROVE  \E k : /\ DOMAIN Append(s, x) = DOMAIN s \cup {k} /\ k \notin DOMAIN s
               /\ Append(s, x)[k] = x /\ \A i \in DOMAIN s : Append(s, x)[i] = s[i]
<1> DEFINE k == Len(s) + 1
<1>1. DOMAIN Append(s, x) = 1 .. k /\ DOMAIN s = 1 .. Len(s) /\ Len(s) \in Nat
  OBVIOUS
<1>2. DOMAIN Append(s, x) = DOMAIN s \cup {k} /\ k \notin DOMAIN s
  BY <1>1
<1>3. Append(s, x)[k] = x /\ \A i \in DOMAIN s : Append(s, x)[i] = s[i]
  OBVIOUS
<1> QED
  BY <1>2, <1>3

LEMMA LastOfPath ==
  ASSUME N \in Nat, TreeInv, NEW n \in Node
  PROVE  /\ Find!PathTo[n][Len(Find!PathTo[n])] = n
         /\ PathOf(parent[n]) \in Seq(Node)
<1>1. Find!PathTo[n] = Append(PathOf(parent[n]), n)
  BY FindPaths
<1>2. parent[n] = 0 \/ parent[n] \in Node
  BY DEF TreeInv, Node, Find!Node
<1>3. PathOf(parent[n]) \in Seq(Node)
  BY <1>2, FindPaths DEF PathOf
<1> QED
  BY <1>1, <1>3

LEMMA InitFind ==
  ASSUME N \in Nat, Find!Init PROVE FindInv
<1> USE DEF Find!Init, Find!Dot, Node
<1>1. TreeInv
  BY DEF TreeInv, Find!Node
<1>2. ExistInv
  BY DEF ExistInv
<1> DEFINE f == [dir |-> 0, left |-> {n \in exist : parent[n] = 0}, entry |-> 0, path |-> <<>>,
                 pc |-> "readdir"]
<1>3. Find!Frame(0, <<>>) = f
  BY DEF Find!Frame, Find!Entries
<1>4. frames = <<f>> /\ f \in Frames /\ DOMAIN frames = {1}
  <2>1. {n \in exist : parent[n] = 0} \in SUBSET Node /\ 0 \in 0 .. N /\ <<>> \in Seq(Node)
    OBVIOUS
  <2>2. f \in Frames
    BY <2>1 DEF Frames
  <2>3. frames = <<f>>
    BY <1>3
  <2> HIDE DEF f
  <2> QED
    BY <2>2, <2>3
<1>5. FrameInv
  <2>1. frames[1] = f /\ frames \in Seq(Frames)
    <3> HIDE DEF f, Find!Init
    <3> QED
      BY <1>4
  <2>2. \A i \in DOMAIN frames : i = 1 /\ frames[i] = f
    BY <1>4, <2>1
  <2>3. f.dir = 0 /\ f.path = PathOf(0) /\ f.pc = "readdir" /\ \A n \in f.left : parent[n] = 0 /\ n \in exist
    BY DEF PathOf
  <2> HIDE DEF f, Find!Init
  <2> QED
    BY <2>1, <2>2, <2>3 DEF FrameInv
<1>6. OpenInv
  <2>1. Held = {0} /\ ~Find!At("fdopendir")
    BY <1>3, <1>4 DEF Held, Find!At, Find!Top
  <2> QED
    BY <1>4, <2>1 DEF OpenInv
<1>7. Seen({})
  <2>1. AtHand = {}
    BY <1>3, <1>4 DEF AtHand
  <2>2. \A n \in exist \ changed : parent[n] = 0 => n \in frames[1].left
    BY <1>3, <1>4
  <2>3. DOMAIN out = {} /\ frames[1].dir = 0 /\ frames[1].pc = "readdir"
    BY <1>3, <1>4
  <2> HIDE DEF f
  <2> QED
    BY <1>4, <2>1, <2>2, <2>3 DEF Seen
<1> QED
  BY <1>1, <1>2, <1>5, <1>6, <1>7 DEF FindInv

\* readdir returns an entry.
LEMMA NextEntry ==
  ASSUME N \in Nat, FindInv, Find!ReadDir,
         NEW e \in Find!Top.left,
         frames' = [frames EXCEPT ![1].left = @ \ {e}, ![1].entry = e,
                                  ![1].pc = IF e \in dirs THEN "openat" ELSE @],
         out' = IF e \in Matching THEN Append(out, Append(Find!Top.path, e)) ELSE out
  PROVE  FindInv'
<1>0. TreeInv /\ ExistInv /\ FrameInv /\ OpenInv /\ out \in Seq(Seq(Node))
  BY DEF FindInv
<1>1. frames # <<>> /\ frames[1].pc = "readdir" /\ UNCHANGED <<parent, dirs, exist, changed, fds, ret, leaked, failures>>
  BY DEF Find!ReadDir, Find!At, Find!tree, Find!Top
<1>2. /\ 1 \in DOMAIN frames /\ Find!Top = frames[1] /\ frames[1] \in Frames
      /\ \A i \in DOMAIN frames : frames[i] \in Frames
  BY <1>0, <1>1, Frame1
<1> DEFINE g == [frames[1] EXCEPT !.left = @ \ {e}, !.entry = e,
                                  !.pc = IF e \in dirs THEN "openat" ELSE @]
<1>3. e \in frames[1].left /\ e \in Node /\ parent[e] = frames[1].dir /\ e \in exist \cup changed
  BY <1>0, <1>2 DEF Frames, FrameInv
<1>4. /\ DOMAIN frames' = DOMAIN frames /\ frames' # <<>>
      /\ frames'[1] = g /\ \A i \in DOMAIN frames : i # 1 => frames'[i] = frames[i]
      /\ frames' \in Seq(Frames) /\ \A i \in DOMAIN frames : frames'[i].dir = frames[i].dir
  <2>1. e \in 0 .. N
    BY <1>3 DEF Node, Find!Node
  <2>2. /\ g \in Frames /\ g.dir = frames[1].dir
    BY <1>2, <2>1 DEF Frames
  <2>3. frames \in Seq(Frames)
    BY <1>0 DEF FrameInv
  <2>5. frames' = [frames EXCEPT ![1] = g]
    BY <1>2, <2>3
  <2> HIDE DEF g
  <2>6. /\ frames' \in Seq(Frames) /\ DOMAIN frames' = DOMAIN frames /\ frames' # <<>>
        /\ frames'[1] = g /\ \A i \in DOMAIN frames : i # 1 => frames'[i] = frames[i]
    <3>1. /\ [frames EXCEPT ![1] = g] \in Seq(Frames) /\ [frames EXCEPT ![1] = g] # <<>>
          /\ DOMAIN [frames EXCEPT ![1] = g] = DOMAIN frames /\ [frames EXCEPT ![1] = g][1] = g
          /\ \A i \in DOMAIN frames : i # 1 => [frames EXCEPT ![1] = g][i] = frames[i]
      BY <1>1, <2>2, <2>3, ChangeTop
    <3> QED
      BY <2>5, <3>1
  <2> QED
    BY <1>2, <2>2, <2>6
<1>a. /\ g.dir = frames[1].dir /\ g.left = frames[1].left \ {e} /\ g.path = frames[1].path
      /\ g.entry = e /\ g.pc = IF e \in dirs THEN "openat" ELSE "readdir"
  BY <1>1, <1>2 DEF Frames
<1> HIDE DEF g
<1>5. TreeInv' /\ ExistInv' /\ Find!PathTo' = Find!PathTo /\ \A d : PathOf(d)' = PathOf(d)
  BY <1>0, <1>1, SameTree DEF ExistInv
<1>6. FrameInv'
  <2> SUFFICES ASSUME NEW i \in DOMAIN frames
               PROVE /\ frames'[i].dir \in dirs \cup {0}
                     /\ frames'[i].path = PathOf(frames[i].dir)
                     /\ \A n \in frames'[i].left : parent[n] = frames[i].dir /\ n \in exist \cup changed
                     /\ frames'[i].pc \in {"openat", "fdopendir"} =>
                          frames'[i].entry \in dirs /\ parent[frames'[i].entry] = frames[i].dir
                     /\ i > 1 => frames'[i].pc = "fdopendir"
    BY <1>0, <1>1, <1>4, <1>5 DEF FrameInv
  <2>1. CASE i = 1
    <3>1. /\ frames[1].dir \in dirs \cup {0} /\ frames[1].path = PathOf(frames[1].dir)
          /\ \A n \in frames[1].left : parent[n] = frames[1].dir /\ n \in exist \cup changed
      BY <1>0, <1>2 DEF FrameInv
    <3> QED
      BY <1>a, <1>2, <1>3, <1>4, <2>1, <3>1
  <2>2. CASE i # 1
    BY <1>0, <1>4, <2>2 DEF FrameInv
  <2> QED
    BY <2>1, <2>2
<1>7. OpenInv'
  <2>1. Held' = Held
    BY <1>4 DEF Held
  <2>2. ~Find!At("fdopendir") /\ ~Find!At("fdopendir")'
    BY <1>a, <1>1, <1>2, <1>4 DEF Find!At, Find!Top
  <2>3. ret = 0 /\ leaked = {}
    BY <1>0, <1>1 DEF OpenInv
  <2> QED
    BY <1>0, <1>1, <2>1, <2>2, <2>3 DEF OpenInv
<1>8. PICK S \in SUBSET Node : Seen(S)
  BY DEF FindInv
<1>b. PICK T : T = S \cup {e}
  OBVIOUS
<1>9. e \notin S
  BY <1>2, <1>3, <1>8 DEF Seen
<1>10. Append(frames[1].path, e) = Find!PathTo[e] /\ Append(frames[1].path, e) \in Seq(Node)
  <2>1. frames[1].path = PathOf(parent[e])
    BY <1>0, <1>2, <1>3 DEF FrameInv
  <2> QED
    BY <1>0, <1>3, <2>1, FindPaths
<1>11. out' \in Seq(Seq(Node))
  BY <1>0, <1>2, <1>10
<1>12. \A n \in Node : Find!PathTo[n][Len(Find!PathTo[n])] = n
  BY <1>0, LastOfPath
<1>13. AtHand = {} /\ AtHand' = IF e \in dirs THEN {e} ELSE {}
  BY <1>a, <1>1, <1>4 DEF AtHand
<1>14. frames[1].dir \in S \cup {0} /\ parent[e] # e
  BY <1>0, <1>2, <1>3, <1>8 DEF Seen, TreeInv, Node, Find!Node
<1>15. /\ T \subseteq exist \cup changed
       /\ \A n \in T : parent[n] \in T \cup {0} /\ parent[n] \notin AtHand'
       /\ \A d \in AtHand' : d \in T
  <2>1. \A n \in S : parent[n] \in S \cup {0}
    BY <1>8 DEF Seen
  <2>2. e # 0
    BY <1>3 DEF Node, Find!Node
  <2>3. \A n \in S : parent[n] # e
    BY <1>9, <2>1, <2>2
  <2> QED
    BY <1>b, <1>3, <1>8, <1>13, <1>14, <2>1, <2>3 DEF Seen
<1>16. \A i \in DOMAIN frames : frames'[i].dir \in T \cup {0} /\ frames'[i].left \cap T = {}
  <2> SUFFICES ASSUME NEW i \in DOMAIN frames
               PROVE frames'[i].dir \in T \cup {0} /\ frames'[i].left \cap T = {}
    OBVIOUS
  <2>1. frames[i].dir \in S \cup {0} /\ frames[i].left \cap S = {}
    BY <1>8 DEF Seen
  <2>2. CASE i = 1
    BY <1>a, <1>b, <1>4, <2>1, <2>2
  <2>3. CASE i # 1
    <3>1. 1 < i /\ frames[i].dir < frames[1].dir /\ frames[i].dir \in Nat /\ frames[1].dir \in Nat
      BY <1>0, <1>1, <1>2, <2>3, Frame1 DEF FrameInv, Frames
    <3>2. e \notin frames[i].left
      BY <1>0, <1>3, <3>1 DEF FrameInv
    <3> QED
      BY <1>b, <1>4, <2>1, <2>3, <3>2
  <2> QED
    BY <2>2, <2>3
<1>17. /\ \A i \in DOMAIN out' : \E n \in T \cap Matching : out'[i] = Find!PathTo[n]
       /\ \A n \in T \cap Matching : \E i \in DOMAIN out' : out'[i] = Find!PathTo[n]
       /\ \A i, j \in DOMAIN out' : out'[i] = out'[j] => i = j
  <2>1. /\ \A i \in DOMAIN out : \E n \in S \cap Matching : out[i] = Find!PathTo[n]
        /\ \A n \in S \cap Matching : \E i \in DOMAIN out : out[i] = Find!PathTo[n]
        /\ \A i, j \in DOMAIN out : out[i] = out[j] => i = j
    BY <1>8 DEF Seen
  <2>2. CASE e \notin Matching
    BY <1>b, <2>1, <2>2
  <2>3. CASE e \in Matching
    <3>1. out' = Append(out, Find!PathTo[e])
      BY <1>2, <1>10, <2>3
    <3>2. \A i \in DOMAIN out : out[i] # Find!PathTo[e]
      <4> SUFFICES ASSUME NEW i \in DOMAIN out, out[i] = Find!PathTo[e] PROVE FALSE
        OBVIOUS
      <4>1. PICK n \in S \cap Matching : out[i] = Find!PathTo[n]
        BY <2>1
      <4>2. n \in Node /\ Find!PathTo[n] = Find!PathTo[e]
        BY <4>1
      <4>3. n = e
        BY <1>3, <1>12, <4>2
      <4> QED
        BY <1>9, <4>3
    <3>3. PICK k : /\ DOMAIN out' = DOMAIN out \cup {k} /\ k \notin DOMAIN out
                   /\ out'[k] = Find!PathTo[e] /\ \A i \in DOMAIN out : out'[i] = out[i]
      <4> DEFINE x == Find!PathTo[e]
      <4>1. x \in Seq(Node) /\ out' = Append(out, x)
        BY <1>10, <3>1
      <4> HIDE DEF x
      <4>2. \E k : /\ DOMAIN Append(out, x) = DOMAIN out \cup {k} /\ k \notin DOMAIN out
                  /\ Append(out, x)[k] = x /\ \A i \in DOMAIN out : Append(out, x)[i] = out[i]
        BY <1>0, <4>1, Appended
      <4> QED
        BY <4>1, <4>2 DEF x
    <3>4. ASSUME NEW i \in DOMAIN out' PROVE \E n \in T \cap Matching : out'[i] = Find!PathTo[n]
      <4>1. CASE i = k
        BY <1>b, <2>3, <3>3, <4>1
      <4>2. CASE i # k
        <5>1. i \in DOMAIN out /\ out'[i] = out[i]
          BY <3>3, <4>2
        <5> QED
          BY <1>b, <2>1, <5>1
      <4> QED
        BY <4>1, <4>2
    <3>5. ASSUME NEW n \in T \cap Matching PROVE \E i \in DOMAIN out' : out'[i] = Find!PathTo[n]
      <4>1. CASE n = e
        BY <3>3, <4>1
      <4>2. CASE n # e
        <5>1. PICK i \in DOMAIN out : out[i] = Find!PathTo[n]
          BY <1>b, <2>1, <4>2
        <5> QED
          BY <3>3, <5>1
      <4> QED
        BY <4>1, <4>2
    <3>6. \A i, j \in DOMAIN out' : out'[i] = out'[j] => i = j
      BY <2>1, <3>2, <3>3
    <3> QED
      BY <3>4, <3>5, <3>6
  <2> QED
    BY <2>2, <2>3
<1>18. ASSUME NEW n \in exist \ changed, parent[n] \in T \cup {0}, parent[n] \notin AtHand'
       PROVE  \/ n \in T
              \/ \E i \in DOMAIN frames' : /\ frames'[i].dir = parent[n] /\ n \in frames'[i].left
                                           /\ ~(i = 1 /\ frames'[i].pc = "return")
  <2>1. parent[n] \in S \cup {0}
    <3>1. CASE parent[n] = e
      BY <1>0, <1>13, <1>18, <3>1 DEF TreeInv, ExistInv
    <3>2. CASE parent[n] # e
      BY <1>b, <1>18, <3>2
    <3> QED
      BY <3>1, <3>2
  <2>2. ret = 0
    BY <1>0, <1>1 DEF OpenInv
  <2>3. CASE n \in S
    BY <1>b, <2>3
  <2>4. CASE n \notin S
    <3>1. PICK i \in DOMAIN frames : /\ frames[i].dir = parent[n] /\ n \in frames[i].left
                                     /\ ~(i = 1 /\ frames[i].pc = "return")
      BY <1>8, <1>13, <2>1, <2>2, <2>4 DEF Seen
    <3>2. CASE i = 1
      BY <1>a, <1>b, <1>2, <1>4, <3>1, <3>2
    <3>3. CASE i # 1
      BY <1>4, <3>1, <3>3
    <3> QED
      BY <3>2, <3>3
  <2> QED
    BY <2>3, <2>4
<1>19. Seen(T)'
  <2>1. /\ T \subseteq exist' \cup changed'
        /\ \A n \in T : parent'[n] \in T \cup {0} /\ parent'[n] \notin AtHand'
        /\ \A d \in AtHand' : d \in T
    BY <1>1, <1>15
  <2>2. \A i \in DOMAIN frames' : frames'[i].dir \in T \cup {0} /\ frames'[i].left \cap T = {}
    BY <1>4, <1>16
  <2>3. \A n \in exist' \ changed' : parent'[n] \in T \cup {0} /\ parent'[n] \notin AtHand' =>
           \/ n \in T
           \/ \E i \in DOMAIN frames' : /\ frames'[i].dir = parent'[n] /\ n \in frames'[i].left
                                        /\ ~(i = 1 /\ frames'[i].pc = "return")
    BY <1>1, <1>18
  <2> QED
    <3>1. /\ \A i \in DOMAIN out' : \E n \in T \cap Matching : out'[i] = Find!PathTo'[n]
          /\ \A n \in T \cap Matching : \E i \in DOMAIN out' : out'[i] = Find!PathTo'[n]
      BY <1>5, <1>17
    <3>2. \A i, j \in DOMAIN out' : out'[i] = out'[j] => i = j
      BY <1>17
    <3> QED
      BY <2>1, <2>2, <2>3, <3>1, <3>2 DEF Seen
<1>20. T \in SUBSET Node
  BY <1>b, <1>3
<1> QED
  BY <1>5, <1>6, <1>7, <1>11, <1>19, <1>20 DEF FindInv

LEMMA PcOfTop ==
  ASSUME NEW fs \in Seq(Frames), fs # <<>>,
         NEW p \in {"readdir", "openat", "fdopendir", "return"}, NEW t, t = [fs EXCEPT ![1].pc = p]
  PROVE  /\ t \in Seq(Frames) /\ t # <<>> /\ DOMAIN t = DOMAIN fs /\ t[1].pc = p
         /\ \A i \in DOMAIN fs : /\ t[i].dir = fs[i].dir /\ t[i].left = fs[i].left
                                 /\ t[i].entry = fs[i].entry /\ t[i].path = fs[i].path
                                 /\ i # 1 => t[i].pc = fs[i].pc
<1> DEFINE g == [fs[1] EXCEPT !.pc = p]
<1>1. fs[1] \in Frames /\ 1 \in DOMAIN fs
  OBVIOUS
<1>2. /\ g \in Frames /\ g.pc = p /\ g.dir = fs[1].dir /\ g.left = fs[1].left
      /\ g.entry = fs[1].entry /\ g.path = fs[1].path
  BY <1>1 DEF Frames
<1>3. t = [fs EXCEPT ![1] = g]
  BY <1>1
<1> HIDE DEF g
<1>4. /\ t \in Seq(Frames) /\ t # <<>> /\ DOMAIN t = DOMAIN fs /\ t[1] = g
      /\ \A i \in DOMAIN fs : i # 1 => t[i] = fs[i]
  BY <1>2, <1>3, ChangeTop
<1> QED
  BY <1>2, <1>4

\* The frame on top goes on to another call.
LEMMA PcKeeps ==
  ASSUME FindInv, frames # <<>>, UNCHANGED <<parent, dirs, exist, changed, out>>,
         NEW p \in {"fdopendir", "return"}, frames' = [frames EXCEPT ![1].pc = p],
         \/ p = "fdopendir" /\ frames[1].pc = "openat" /\ UNCHANGED ret
         \/ /\ p = "return" /\ frames[1].pc = "readdir" /\ frames[1].left \cap exist = {}
            /\ UNCHANGED ret
         \/ p = "return" /\ ret' = -1
  PROVE  /\ TreeInv' /\ ExistInv' /\ FrameInv' /\ out' \in Seq(Seq(Node))
         /\ \E S \in SUBSET Node : Seen(S)'
         /\ Held' = Held /\ frames' # <<>> /\ frames'[1].pc = p
         /\ frames'[1].entry = frames[1].entry
<1>0. TreeInv /\ ExistInv /\ FrameInv /\ OpenInv /\ out \in Seq(Seq(Node))
  BY DEF FindInv
<1>1. /\ frames' \in Seq(Frames) /\ frames' # <<>> /\ DOMAIN frames' = DOMAIN frames
      /\ frames'[1].pc = p
      /\ \A i \in DOMAIN frames :
           /\ frames'[i].dir = frames[i].dir /\ frames'[i].left = frames[i].left
           /\ frames'[i].entry = frames[i].entry /\ frames'[i].path = frames[i].path
           /\ i # 1 => frames'[i].pc = frames[i].pc
  <2>1. frames \in Seq(Frames) /\ p \in {"readdir", "openat", "fdopendir", "return"}
    BY <1>0 DEF FrameInv
  <2> DEFINE t == [frames EXCEPT ![1].pc = p]
  <2>2. /\ t \in Seq(Frames) /\ t # <<>> /\ DOMAIN t = DOMAIN frames /\ t[1].pc = p
        /\ \A i \in DOMAIN frames :
             /\ t[i].dir = frames[i].dir /\ t[i].left = frames[i].left
             /\ t[i].entry = frames[i].entry /\ t[i].path = frames[i].path
             /\ i # 1 => t[i].pc = frames[i].pc
    <3> HIDE DEF t
    <3>1. t = [frames EXCEPT ![1].pc = p]
      BY DEF t
    <3> QED
      BY <2>1, <3>1, PcOfTop
  <2>3. frames' = t
    OBVIOUS
  <2> HIDE DEF t
  <2> QED
    BY <2>2, <2>3
<1>2. TreeInv' /\ ExistInv' /\ Find!PathTo' = Find!PathTo /\ \A d : PathOf(d)' = PathOf(d)
  BY <1>0, SameTree DEF ExistInv
<1>3. 1 \in DOMAIN frames
  BY <1>0, Frame1
<1>4. p = "fdopendir" => frames[1].pc = "openat"
  OBVIOUS
<1>5. FrameInv'
  <2> SUFFICES ASSUME NEW i \in DOMAIN frames
               PROVE /\ frames'[i].dir \in dirs \cup {0}
                     /\ frames'[i].path = PathOf(frames[i].dir)
                     /\ \A n \in frames'[i].left : parent[n] = frames[i].dir /\ n \in exist \cup changed
                     /\ frames'[i].pc \in {"openat", "fdopendir"} =>
                          frames'[i].entry \in dirs /\ parent[frames'[i].entry] = frames[i].dir
                     /\ i > 1 => frames'[i].pc = "fdopendir"
    BY <1>0, <1>1, <1>2 DEF FrameInv
  <2>1. frames'[i].pc \in {"openat", "fdopendir"} => frames[i].pc \in {"openat", "fdopendir"}
    BY <1>1, <1>4
  <2> QED
    BY <1>0, <1>1, <2>1 DEF FrameInv
<1>6. Held' = Held
  BY <1>1 DEF Held
<1>7. PICK S \in SUBSET Node : Seen(S)
  BY DEF FindInv
<1>8. AtHand' \subseteq AtHand /\ (ret' = 0 => ret = 0 /\ AtHand' = AtHand)
  <2>1. frames'[1].entry = frames[1].entry
    BY <1>1, <1>3
  <2> QED
    BY <1>1, <2>1 DEF AtHand
<1>9. ASSUME NEW n \in exist \ changed, ret' = 0,
             parent[n] \in S \cup {0}, parent[n] \notin AtHand'
      PROVE  \/ n \in S
             \/ \E i \in DOMAIN frames' : /\ frames'[i].dir = parent[n] /\ n \in frames'[i].left
                                          /\ ~(i = 1 /\ frames'[i].pc = "return")
  <2>1. CASE n \in S
    BY <2>1
  <2>2. CASE n \notin S
    <3>1. PICK i \in DOMAIN frames : /\ frames[i].dir = parent[n] /\ n \in frames[i].left
                                     /\ ~(i = 1 /\ frames[i].pc = "return")
      BY <1>7, <1>8, <1>9, <2>2 DEF Seen
    <3>2. ~(i = 1 /\ p = "return")
      BY <1>9, <3>1
    <3> QED
      BY <1>1, <3>1, <3>2
  <2> QED
    BY <2>1, <2>2
<1>10. Seen(S)'
  <2>1. /\ S \subseteq exist' \cup changed'
        /\ \A n \in S : parent'[n] \in S \cup {0} /\ parent'[n] \notin AtHand'
        /\ \A d \in AtHand' : d \in S
    BY <1>7, <1>8 DEF Seen
  <2>2. \A i \in DOMAIN frames' : frames'[i].dir \in S \cup {0} /\ frames'[i].left \cap S = {}
    BY <1>1, <1>7 DEF Seen
  <2>3. /\ \A i \in DOMAIN out' : \E n \in S \cap Matching : out'[i] = Find!PathTo'[n]
        /\ \A n \in S \cap Matching : \E i \in DOMAIN out' : out'[i] = Find!PathTo'[n]
        /\ \A i, j \in DOMAIN out' : out'[i] = out'[j] => i = j
    BY <1>2, <1>7 DEF Seen
  <2> QED
    BY <1>9, <2>1, <2>2, <2>3 DEF Seen
<1> QED
  BY <1>0, <1>1, <1>2, <1>3, <1>5, <1>6, <1>10

LEMMA ReadDirKeeps ==
  ASSUME N \in Nat, FindInv, Find!ReadDir PROVE FindInv'
<1>1. /\ frames # <<>> /\ frames[1].pc = "readdir" /\ Find!Top = frames[1]
      /\ UNCHANGED <<parent, dirs, exist, changed, fds, ret, leaked>>
  BY DEF Find!ReadDir, Find!At, Find!tree, Find!Top
<1>2. CASE Find!Top.left \cap exist = {} /\ Find!Goto("return") /\ UNCHANGED out
  <2>1. frames' = [frames EXCEPT ![1].pc = "return"] /\ frames[1].left \cap exist = {}
    BY <1>1, <1>2 DEF Find!Goto
  <2>2. /\ TreeInv' /\ ExistInv' /\ FrameInv' /\ out' \in Seq(Seq(Node))
        /\ \E S \in SUBSET Node : Seen(S)'
        /\ Held' = Held /\ frames' # <<>> /\ frames'[1].pc = "return"
    BY <1>1, <1>2, <2>1, PcKeeps
  <2>3. ~Find!At("fdopendir") /\ ~Find!At("fdopendir")'
    BY <1>1, <2>2 DEF Find!At, Find!Top
  <2>4. OpenInv'
    BY <1>1, <2>2, <2>3 DEF OpenInv, FindInv
  <2> QED
    BY <2>2, <2>4 DEF FindInv
<1>3. CASE \E e \in Find!Top.left :
          /\ frames' = [frames EXCEPT ![1].left = @ \ {e}, ![1].entry = e,
                                      ![1].pc = IF e \in dirs THEN "openat" ELSE @]
          /\ out' = IF e \in Matching THEN Append(out, Append(Find!Top.path, e)) ELSE out
  BY <1>3, NextEntry
<1> QED
  BY <1>2, <1>3 DEF Find!ReadDir

LEMMA OpenAtKeeps ==
  ASSUME N \in Nat, FindInv, Find!OpenAt PROVE FindInv'
<1>1. /\ frames # <<>> /\ frames[1].pc = "openat" /\ Find!Top = frames[1]
      /\ UNCHANGED <<parent, dirs, exist, changed, out, leaked>>
  BY DEF Find!OpenAt, Find!At, Find!tree, Find!Top
<1>2. ~Find!At("fdopendir") /\ OpenInv /\ leaked = {} /\ ret = 0
  BY <1>1 DEF Find!At, FindInv, OpenInv
<1>3. CASE fds' = fds \cup {Find!Top.entry} /\ Find!Goto("fdopendir") /\ UNCHANGED ret
  <2>1. frames' = [frames EXCEPT ![1].pc = "fdopendir"]
    BY <1>3 DEF Find!Goto
  <2>2. /\ TreeInv' /\ ExistInv' /\ FrameInv' /\ out' \in Seq(Seq(Node))
        /\ \E S \in SUBSET Node : Seen(S)'
        /\ Held' = Held /\ frames' # <<>> /\ frames'[1].pc = "fdopendir"
        /\ frames'[1].entry = frames[1].entry
    BY <1>1, <1>3, <2>1, PcKeeps
  <2>3. Find!At("fdopendir")'
    BY <2>2 DEF Find!At, Find!Top
  <2>4. OpenInv'
    BY <1>1, <1>2, <1>3, <2>2, <2>3 DEF OpenInv
  <2> QED
    BY <2>2, <2>4 DEF FindInv
<1>4. CASE ret' = -1 /\ Find!Goto("return") /\ UNCHANGED fds
  <2>1. frames' = [frames EXCEPT ![1].pc = "return"]
    BY <1>4 DEF Find!Goto
  <2>2. /\ TreeInv' /\ ExistInv' /\ FrameInv' /\ out' \in Seq(Seq(Node))
        /\ \E S \in SUBSET Node : Seen(S)'
        /\ Held' = Held /\ frames' # <<>> /\ frames'[1].pc = "return"
    BY <1>1, <1>4, <2>1, PcKeeps
  <2>3. ~Find!At("fdopendir")'
    BY <2>2 DEF Find!At, Find!Top
  <2>4. OpenInv'
    BY <1>1, <1>2, <1>4, <2>2, <2>3 DEF OpenInv
  <2> QED
    BY <2>2, <2>4 DEF FindInv
<1> QED
  BY <1>3, <1>4 DEF Find!OpenAt

-----------------------------------------------------------------------------
(* Directories opened and closed                                           *)

\* The entry at hand lies below all directories that are open.
LEMMA AtHandBelow ==
  ASSUME N \in Nat, FindInv, frames # <<>>, frames[1].pc = "fdopendir"
  PROVE  LET d == frames[1].entry
         IN /\ d \in dirs /\ d \in Node /\ parent[d] = frames[1].dir
            /\ \A i \in DOMAIN frames : frames[i].dir \in Nat /\ frames[i].dir < d
<1>0. TreeInv /\ FrameInv
  BY DEF FindInv
<1>1. /\ 1 \in DOMAIN frames /\ DOMAIN frames = 1 .. Len(frames) /\ Len(frames) \in Nat
      /\ \A i \in DOMAIN frames : frames[i] \in Frames
  BY <1>0, Frame1
<1>2. frames[1].entry \in dirs /\ parent[frames[1].entry] = frames[1].dir
  BY <1>0, <1>1 DEF FrameInv
<1>3. frames[1].entry \in Node /\ frames[1].dir < frames[1].entry
  BY <1>0, <1>2 DEF TreeInv
<1>4. \A i \in DOMAIN frames : frames[i].dir \in Nat
  BY <1>1 DEF Frames
<1>5. \A i \in DOMAIN frames : i # 1 => frames[i].dir < frames[1].dir
  BY <1>0, <1>1 DEF FrameInv
<1>6. frames[1].entry \in Nat
  BY <1>3 DEF Node, Find!Node
<1> QED
  BY <1>1, <1>2, <1>3, <1>4, <1>5, <1>6

LEMMA Pushed ==
  ASSUME NEW fs \in Seq(Frames), NEW f \in Frames, NEW t, t = <<f>> \o fs
  PROVE  /\ t \in Seq(Frames) /\ t # <<>> /\ t[1] = f
         /\ \A i \in DOMAIN fs : i + 1 \in DOMAIN t /\ t[i + 1] = fs[i] /\ i + 1 # 1
         /\ \A i \in DOMAIN t : i # 1 => i - 1 \in DOMAIN fs /\ t[i] = fs[i - 1]
<1>1. /\ t \in Seq(Frames) /\ Len(t) = Len(fs) + 1 /\ t[1] = f
      /\ \A i \in 1 .. Len(t) : i # 1 => t[i] = fs[i - 1]
  OBVIOUS
<1>2. DOMAIN t = 1 .. Len(t) /\ DOMAIN fs = 1 .. Len(fs) /\ Len(fs) \in Nat
  BY <1>1
<1> QED
  BY <1>1, <1>2

LEMMA FdOpenDirKeeps ==
  ASSUME N \in Nat, FindInv, Find!FdOpenDir PROVE FindInv'
<1> DEFINE d == frames[1].entry
<1>0. TreeInv /\ ExistInv /\ FrameInv /\ OpenInv /\ out \in Seq(Seq(Node))
  BY DEF FindInv
<1>1. /\ frames # <<>> /\ frames[1].pc = "fdopendir" /\ Find!Top = frames[1]
      /\ UNCHANGED <<parent, dirs, exist, changed, out, fds>>
  BY DEF Find!FdOpenDir, Find!At, Find!tree, Find!Top
<1>2. /\ d \in dirs /\ d \in Node /\ parent[d] = frames[1].dir
      /\ \A i \in DOMAIN frames : frames[i].dir \in Nat /\ frames[i].dir < d
  BY <1>1, AtHandBelow
<1>3. Find!At("fdopendir") /\ leaked = {} /\ ret = 0 /\ fds = Held \cup {d}
  BY <1>0, <1>1 DEF Find!At, OpenInv
<1>4. CASE Find!Fail /\ ret' = -1 /\ Find!Goto("return") /\ leaked' = leaked \cup {Find!Top.entry}
  <2>1. frames' = [frames EXCEPT ![1].pc = "return"]
    BY <1>4 DEF Find!Goto
  <2>2. /\ TreeInv' /\ ExistInv' /\ FrameInv' /\ out' \in Seq(Seq(Node))
        /\ \E S \in SUBSET Node : Seen(S)'
        /\ Held' = Held /\ frames' # <<>> /\ frames'[1].pc = "return"
    BY <1>1, <1>4, <2>1, PcKeeps
  <2>3. ~Find!At("fdopendir")'
    BY <2>2 DEF Find!At, Find!Top
  <2>4. leaked' = {d} /\ \A h \in Held : h < d
    BY <1>1, <1>2, <1>3, <1>4 DEF Held
  <2> HIDE DEF d
  <2>5. OpenInv'
    BY <1>1, <1>2, <1>3, <1>4, <2>2, <2>3, <2>4 DEF OpenInv
  <2> QED
    BY <2>2, <2>5 DEF FindInv
<1>5. CASE frames' = <<Find!Descend>> \o frames /\ UNCHANGED <<ret, leaked>>
  <2> DEFINE f == [dir |-> d, left |-> {n \in exist : parent[n] = d}, entry |-> 0,
                   path |-> Find!PathTo[d], pc |-> "readdir"]
  <2>0. /\ 1 \in DOMAIN frames /\ \A i \in DOMAIN frames : frames[i] \in Frames
    BY <1>0, <1>1, Frame1
  <2>1. Find!Descend = f
    <3>1. frames[1].path = PathOf(parent[d])
      BY <1>0, <1>2, <2>0 DEF FrameInv
    <3>2. Append(frames[1].path, d) = Find!PathTo[d]
      BY <1>0, <1>2, <3>1, FindPaths
    <3> QED
      BY <1>1, <3>2 DEF Find!Descend, Find!Frame, Find!Entries, Find!Dot
  <2>2. f \in Frames
    <3>1. d \in 0 .. N /\ {n \in exist : parent[n] = d} \in SUBSET Node /\ 0 \in 0 .. N
      BY <1>0, <1>2 DEF ExistInv, Node, Find!Node
    <3>2. Find!PathTo[d] \in Seq(Node)
      BY <1>0, <1>2, FindPaths
    <3> QED
      BY <3>1, <3>2 DEF Frames
  <2>3. /\ f.dir = d /\ f.left = {n \in exist : parent[n] = d} /\ f.pc = "readdir"
        /\ f.path = Find!PathTo[d]
    OBVIOUS
  <2>4. /\ frames' \in Seq(Frames) /\ frames' # <<>> /\ frames'[1] = f
        /\ \A i \in DOMAIN frames : i + 1 \in DOMAIN frames' /\ frames'[i + 1] = frames[i] /\ i + 1 # 1
        /\ \A i \in DOMAIN frames' : i # 1 => i - 1 \in DOMAIN frames /\ frames'[i] = frames[i - 1]
    <3>1. frames' = <<f>> \o frames /\ frames \in Seq(Frames)
      BY <1>0, <1>5, <2>1 DEF FrameInv
    <3> DEFINE t == <<f>> \o frames
    <3> HIDE DEF f
    <3>2. /\ t \in Seq(Frames) /\ t # <<>> /\ t[1] = f
          /\ \A i \in DOMAIN frames : i + 1 \in DOMAIN t /\ t[i + 1] = frames[i] /\ i + 1 # 1
          /\ \A i \in DOMAIN t : i # 1 => i - 1 \in DOMAIN frames /\ t[i] = frames[i - 1]
      <4>1. t = <<f>> \o frames
        BY DEF t
      <4> HIDE DEF t
      <4> QED
        BY <2>2, <3>1, <4>1, Pushed
    <3>3. frames' = t
      BY <3>1
    <3> HIDE DEF t
    <3> QED
      BY <3>2, <3>3
  <2> HIDE DEF f
  <2>5. TreeInv' /\ ExistInv' /\ Find!PathTo' = Find!PathTo /\ \A x : PathOf(x)' = PathOf(x)
    BY <1>0, <1>1, SameTree DEF ExistInv
  <2>6. d # 0 /\ PathOf(d) = Find!PathTo[d] /\ 1 \in DOMAIN frames'
    <3>1. d # 0
      BY <1>2 DEF Node, Find!Node
    <3>2. 1 \in DOMAIN frames'
      BY <2>4
    <3> HIDE DEF d
    <3> QED
      BY <3>1, <3>2 DEF PathOf
  <2> HIDE DEF d
  <2>7. ASSUME NEW i \in DOMAIN frames'
        PROVE  /\ frames'[i].dir \in dirs \cup {0}
               /\ frames'[i].path = PathOf(frames'[i].dir)
               /\ \A e \in frames'[i].left : parent[e] = frames'[i].dir /\ e \in exist \cup changed
               /\ frames'[i].pc \in {"openat", "fdopendir"} =>
                    frames'[i].entry \in dirs /\ parent[frames'[i].entry] = frames'[i].dir
               /\ i > 1 => frames'[i].pc = "fdopendir"
    <3>1. CASE i = 1
      <4>1. frames'[i] = f /\ ~(i > 1)
        BY <2>4, <3>1
      <4>2. f.dir \in dirs /\ f.path = PathOf(f.dir)
        BY <1>2, <2>3, <2>6
      <4>3. \A e \in f.left : parent[e] = f.dir /\ e \in exist
        BY <2>3
      <4> QED
        BY <2>3, <4>1, <4>2, <4>3
    <3>2. CASE i # 1
      <4>1. i - 1 \in DOMAIN frames /\ frames'[i] = frames[i - 1]
        BY <2>4, <3>2
      <4>2. frames[i - 1].pc = "fdopendir"
        <5>1. i - 1 = 1 \/ i - 1 > 1
          BY <4>1, <1>0, <1>1, Frame1
        <5> QED
          BY <1>0, <1>1, <4>1, <5>1 DEF FrameInv
      <4> QED
        BY <1>0, <4>1, <4>2 DEF FrameInv
    <3> QED
      BY <3>1, <3>2
  <2>8. ASSUME NEW i \in DOMAIN frames', NEW j \in DOMAIN frames', i < j
        PROVE  frames'[j].dir < frames'[i].dir
    <3>0. i \in Nat \ {0} /\ j \in Nat
      BY <2>4
    <3>1. j # 1 /\ j - 1 \in DOMAIN frames /\ frames'[j] = frames[j - 1]
      BY <2>4, <2>8, <3>0
    <3>2. CASE i = 1
      BY <1>2, <2>3, <2>4, <3>1, <3>2
    <3>3. CASE i # 1
      <4>1. i - 1 \in DOMAIN frames /\ frames'[i] = frames[i - 1] /\ i - 1 < j - 1
        BY <2>4, <2>8, <3>0, <3>3
      <4> QED
        BY <1>0, <3>1, <4>1 DEF FrameInv
    <3> QED
      BY <3>2, <3>3
  <2>9. FrameInv'
    BY <1>1, <2>4, <2>5, <2>7, <2>8 DEF FrameInv
  <2>10. Held' = Held \cup {d}
    <3>1. \A h \in Held' : h \in Held \cup {d}
      BY <2>3, <2>4 DEF Held
    <3>2. \A i \in DOMAIN frames : frames[i].dir \in Held'
      BY <2>4 DEF Held
    <3>3. d \in Held'
      BY <2>3, <2>4, <2>6 DEF Held
    <3> QED
      BY <3>1, <3>2, <3>3 DEF Held
  <2>11. AtHand' = {} /\ ~Find!At("fdopendir")' /\ AtHand = {d}
    BY <1>1, <2>3, <2>4 DEF AtHand, Find!At, Find!Top, d
  <2>12. OpenInv'
    <3>1. frames'[1].pc = "readdir" /\ fds' = Held' /\ leaked' = {} /\ ret' = 0
      BY <1>1, <1>3, <1>5, <2>3, <2>4, <2>10
    <3> QED
      BY <2>11, <3>1 DEF OpenInv
  <2>13. PICK S \in SUBSET Node : Seen(S)
    BY DEF FindInv
  <2>14. d \in S /\ \A n \in S : parent[n] # d
    BY <2>11, <2>13 DEF Seen
  <2>15. ASSUME NEW i \in DOMAIN frames' PROVE frames'[i].dir \in S \cup {0} /\ frames'[i].left \cap S = {}
    <3>1. CASE i = 1
      BY <2>3, <2>4, <2>14, <3>1
    <3>2. CASE i # 1
      BY <2>4, <2>13, <3>2 DEF Seen
    <3> QED
      BY <3>1, <3>2
  <2>16. ASSUME NEW n \in exist \ changed, parent[n] \in S \cup {0}
         PROVE  \/ n \in S
                \/ \E i \in DOMAIN frames' : /\ frames'[i].dir = parent[n] /\ n \in frames'[i].left
                                             /\ ~(i = 1 /\ frames'[i].pc = "return")
    <3>1. CASE parent[n] = d
      BY <2>3, <2>4, <2>6, <3>1
    <3>2. CASE parent[n] # d /\ n \notin S
      <4>1. PICK i \in DOMAIN frames : frames[i].dir = parent[n] /\ n \in frames[i].left
        BY <1>3, <2>11, <2>13, <2>16, <3>2 DEF Seen
      <4>2. i + 1 \in DOMAIN frames' /\ frames'[i + 1] = frames[i] /\ i + 1 # 1
        BY <2>4
      <4> QED
        BY <4>1, <4>2
    <3> QED
      BY <3>1, <3>2
  <2>17. Seen(S)'
    <3>1. /\ S \subseteq exist' \cup changed'
          /\ \A n \in S : parent'[n] \in S \cup {0} /\ parent'[n] \notin AtHand'
          /\ \A x \in AtHand' : x \in S
      BY <1>1, <2>11, <2>13 DEF Seen
    <3>2. /\ \A i \in DOMAIN out' : \E n \in S \cap Matching : out'[i] = Find!PathTo'[n]
          /\ \A n \in S \cap Matching : \E i \in DOMAIN out' : out'[i] = Find!PathTo'[n]
          /\ \A i, j \in DOMAIN out' : out'[i] = out'[j] => i = j
      BY <1>1, <2>5, <2>13 DEF Seen
    <3>3. \A n \in exist' \ changed' : parent'[n] \in S \cup {0} =>
             \/ n \in S
             \/ \E i \in DOMAIN frames' : /\ frames'[i].dir = parent'[n] /\ n \in frames'[i].left
                                          /\ ~(i = 1 /\ frames'[i].pc = "return")
      BY <1>1, <2>16
    <3> QED
      BY <2>15, <3>1, <3>2, <3>3 DEF Seen
  <2> QED
    BY <1>0, <1>1, <2>5, <2>9, <2>12, <2>17 DEF FindInv
<1> QED
  BY <1>4, <1>5 DEF Find!FdOpenDir

LEMMA ReturnKeeps ==
  ASSUME N \in Nat, FindInv, Find!Return PROVE FindInv'
<1> DEFINE q == IF ret = -1 THEN "return" ELSE "readdir"
<1>0. TreeInv /\ ExistInv /\ FrameInv /\ OpenInv /\ out \in Seq(Seq(Node))
  BY DEF FindInv
<1>1. /\ frames # <<>> /\ frames[1].pc = "return" /\ Find!Top = frames[1]
      /\ UNCHANGED <<parent, dirs, exist, changed, out, ret, leaked>>
      /\ fds' = fds \ {frames[1].dir}
  BY DEF Find!Return, Find!At, Find!tree, Find!Top
<1>2. /\ 1 \in DOMAIN frames /\ DOMAIN frames = 1 .. Len(frames) /\ Len(frames) \in Nat
      /\ \A i \in DOMAIN frames : frames[i] \in Frames
  BY <1>0, <1>1, Frame1
<1>3. /\ frames' \in Seq(Frames)
      /\ \A i \in DOMAIN frames' :
           /\ i + 1 \in DOMAIN frames /\ i + 1 > 1
           /\ frames'[i].dir = frames[i + 1].dir /\ frames'[i].left = frames[i + 1].left
           /\ frames'[i].entry = frames[i + 1].entry /\ frames'[i].path = frames[i + 1].path
           /\ frames'[i].pc = IF i = 1 THEN q ELSE frames[i + 1].pc
      /\ \A i \in DOMAIN frames : i # 1 => i - 1 \in DOMAIN frames'
      /\ frames' # <<>> => 1 \in DOMAIN frames'
  <2> DEFINE g == [frames[2] EXCEPT !.pc = q]
  <2>1. frames' = [i \in 1 .. Len(frames) - 1 |-> IF i = 1 THEN g ELSE frames[i + 1]]
    BY DEF Find!Return
  <2>2. q \in {"readdir", "return"}
    OBVIOUS
  <2> HIDE DEF q
  <2>3. 2 \in DOMAIN frames =>
          /\ g \in Frames /\ g.pc = q /\ g.dir = frames[2].dir /\ g.left = frames[2].left
          /\ g.entry = frames[2].entry /\ g.path = frames[2].path
    BY <1>2, <2>2 DEF Frames
  <2> HIDE DEF g
  <2>4. DOMAIN frames' = 1 .. Len(frames) - 1
    BY <2>1
  <2>5. \A i \in DOMAIN frames' : frames'[i] = IF i = 1 THEN g ELSE frames[i + 1]
    BY <2>1, <2>4
  <2>6. \A i \in DOMAIN frames' : i + 1 \in DOMAIN frames /\ i + 1 > 1
    BY <1>2, <2>4
  <2>7. ASSUME NEW i \in DOMAIN frames'
        PROVE  /\ frames'[i] \in Frames
               /\ frames'[i].dir = frames[i + 1].dir /\ frames'[i].left = frames[i + 1].left
               /\ frames'[i].entry = frames[i + 1].entry /\ frames'[i].path = frames[i + 1].path
               /\ frames'[i].pc = IF i = 1 THEN q ELSE frames[i + 1].pc
    <3>1. CASE i = 1
      BY <2>3, <2>5, <2>6, <3>1
    <3>2. CASE i # 1
      BY <1>2, <2>5, <2>6, <3>2
    <3> QED
      BY <3>1, <3>2
  <2>8. frames' \in Seq(Frames)
    <3>1. frames' \in [1 .. Len(frames) - 1 -> Frames]
      BY <2>1, <2>4, <2>7
    <3>2. Len(frames) - 1 \in Nat
      BY <1>1, <1>0 DEF FrameInv
    <3> QED
      BY <3>1, <3>2
  <2>9. \A i \in DOMAIN frames : i # 1 => i - 1 \in DOMAIN frames'
    BY <1>2, <2>4
  <2>10. frames' # <<>> => 1 \in DOMAIN frames'
    BY <2>8
  <2> QED
    BY <2>6, <2>7, <2>8, <2>9, <2>10
<1>4. TreeInv' /\ ExistInv' /\ Find!PathTo' = Find!PathTo /\ \A x : PathOf(x)' = PathOf(x)
  BY <1>0, <1>1, SameTree DEF ExistInv
<1>5. q \notin {"openat", "fdopendir"} /\ (ret = -1 => q = "return") /\ (ret = 0 => q = "readdir")
  OBVIOUS
<1> HIDE DEF q
<1>6. ASSUME NEW i \in DOMAIN frames'
      PROVE  /\ frames'[i].dir \in dirs \cup {0}
             /\ frames'[i].path = PathOf(frames'[i].dir)
             /\ \A e \in frames'[i].left : parent[e] = frames'[i].dir /\ e \in exist \cup changed
             /\ frames'[i].pc \in {"openat", "fdopendir"} =>
                  frames'[i].entry \in dirs /\ parent[frames'[i].entry] = frames'[i].dir
             /\ i > 1 => frames'[i].pc = "fdopendir"
  <2>1. /\ i + 1 \in DOMAIN frames
        /\ frames'[i].dir = frames[i + 1].dir /\ frames'[i].left = frames[i + 1].left
        /\ frames'[i].entry = frames[i + 1].entry /\ frames'[i].path = frames[i + 1].path
    BY <1>3
  <2>2. frames[i + 1].pc = "fdopendir"
    BY <1>0, <1>3 DEF FrameInv
  <2>3. i > 1 => frames'[i].pc = "fdopendir"
    BY <1>3, <2>2
  <2>4. /\ frames[i + 1].dir \in dirs \cup {0}
        /\ frames[i + 1].path = PathOf(frames[i + 1].dir)
        /\ \A e \in frames[i + 1].left : parent[e] = frames[i + 1].dir /\ e \in exist \cup changed
        /\ frames[i + 1].entry \in dirs /\ parent[frames[i + 1].entry] = frames[i + 1].dir
    BY <1>0, <2>1, <2>2 DEF FrameInv
  <2> QED
    BY <2>1, <2>3, <2>4
<1>7. ASSUME NEW i \in DOMAIN frames', NEW j \in DOMAIN frames', i < j
      PROVE  frames'[j].dir < frames'[i].dir
  <2>1. i + 1 \in DOMAIN frames /\ j + 1 \in DOMAIN frames /\ i + 1 < j + 1
    BY <1>2, <1>3, <1>7
  <2>2. frames[j + 1].dir < frames[i + 1].dir
    BY <1>0, <2>1 DEF FrameInv
  <2> QED
    BY <1>3, <2>2
<1>8. FrameInv'
  BY <1>1, <1>3, <1>4, <1>6, <1>7 DEF FrameInv
<1>9. Held' = Held \ {frames[1].dir}
  <2>1. ASSUME NEW h \in Held' PROVE h \in Held /\ h # frames[1].dir
    <3>1. PICK i \in DOMAIN frames' : h = frames'[i].dir
      BY DEF Held
    <3>2. i + 1 \in DOMAIN frames /\ i + 1 > 1 /\ h = frames[i + 1].dir
      BY <1>3, <3>1
    <3>3. frames[i + 1].dir < frames[1].dir /\ frames[i + 1].dir \in Nat
      <4>1. frames[i + 1].dir < frames[1].dir
        BY <1>0, <1>2, <3>2 DEF FrameInv
      <4>2. frames[i + 1] \in Frames
        BY <1>2, <3>2
      <4> QED
        BY <4>1, <4>2 DEF Frames
    <3> QED
      BY <3>2, <3>3 DEF Held
  <2>2. ASSUME NEW i \in DOMAIN frames, i # 1 PROVE frames[i].dir \in Held'
    <3>1. i - 1 \in DOMAIN frames' /\ (i - 1) + 1 = i
      BY <1>2, <1>3, <2>2
    <3>2. frames'[i - 1].dir = frames[i].dir
      BY <1>3, <3>1
    <3> QED
      BY <3>1, <3>2 DEF Held
  <2> QED
    BY <2>1, <2>2 DEF Held
<1>10. /\ AtHand = {} /\ AtHand' = {} /\ ~Find!At("fdopendir") /\ ~Find!At("fdopendir")'
       /\ frames' # <<>> => frames'[1].pc = q
  <2>1. frames' # <<>> => frames'[1].pc = q
    BY <1>3
  <2> QED
    BY <1>1, <1>5, <2>1 DEF AtHand, Find!At, Find!Top
<1>11. OpenInv'
  <2>1. frames[1].dir \in Held /\ frames[1].dir \in Nat
    BY <1>2 DEF Held, Frames
  <2>2. frames[1].dir \notin leaked
    BY <1>0, <2>1 DEF OpenInv
  <2>3. fds' = Held' \cup leaked'
    BY <1>0, <1>1, <1>9, <1>10, <2>2 DEF OpenInv
  <2>4. leaked' = {} \/ (ret' = -1 /\ \E d \in Node : leaked' = {d} /\ \A h \in Held' : h < d)
    BY <1>0, <1>1, <1>9 DEF OpenInv
  <2>5. ret' \in {0, -1} /\ (ret' = -1 /\ frames' # <<>> => frames'[1].pc = "return")
    BY <1>0, <1>1, <1>5, <1>10 DEF OpenInv
  <2> QED
    BY <1>10, <2>3, <2>4, <2>5 DEF OpenInv
<1>12. PICK S \in SUBSET Node : Seen(S)
  BY DEF FindInv
<1>13. ASSUME NEW n \in exist \ changed, ret = 0, parent[n] \in S \cup {0}
       PROVE  \/ n \in S
              \/ \E i \in DOMAIN frames' : /\ frames'[i].dir = parent[n] /\ n \in frames'[i].left
                                           /\ ~(i = 1 /\ frames'[i].pc = "return")
  <2>1. CASE n \in S
    BY <2>1
  <2>2. CASE n \notin S
    <3>1. PICK i \in DOMAIN frames : /\ frames[i].dir = parent[n] /\ n \in frames[i].left
                                     /\ ~(i = 1 /\ frames[i].pc = "return")
      BY <1>10, <1>12, <1>13, <2>2 DEF Seen
    <3>2. i # 1
      BY <1>1, <3>1
    <3>3. i - 1 \in DOMAIN frames' /\ (i - 1) + 1 = i
      BY <1>2, <1>3, <3>2
    <3>4. /\ frames'[i - 1].dir = parent[n] /\ n \in frames'[i - 1].left
          /\ (i - 1 = 1 => frames'[i - 1].pc = q)
      BY <1>3, <3>1, <3>3
    <3>5. ~(i - 1 = 1 /\ frames'[i - 1].pc = "return")
      BY <1>5, <1>13, <3>4
    <3> QED
      BY <3>3, <3>4, <3>5
  <2> QED
    BY <2>1, <2>2
<1>14. Seen(S)'
  <2>1. /\ S \subseteq exist' \cup changed'
        /\ \A n \in S : parent'[n] \in S \cup {0} /\ parent'[n] \notin AtHand'
        /\ \A x \in AtHand' : x \in S
    BY <1>1, <1>10, <1>12 DEF Seen
  <2>2. \A i \in DOMAIN frames' : frames'[i].dir \in S \cup {0} /\ frames'[i].left \cap S = {}
    BY <1>3, <1>12 DEF Seen
  <2>3. /\ \A i \in DOMAIN out' : \E n \in S \cap Matching : out'[i] = Find!PathTo'[n]
        /\ \A n \in S \cap Matching : \E i \in DOMAIN out' : out'[i] = Find!PathTo'[n]
        /\ \A i, j \in DOMAIN out' : out'[i] = out'[j] => i = j
    BY <1>1, <1>4, <1>12 DEF Seen
  <2>4. ret' = 0 => \A n \in exist' \ changed' : parent'[n] \in S \cup {0} =>
           \/ n \in S
           \/ \E i \in DOMAIN frames' : /\ frames'[i].dir = parent'[n] /\ n \in frames'[i].left
                                        /\ ~(i = 1 /\ frames'[i].pc = "return")
    BY <1>1, <1>13
  <2> QED
    BY <2>1, <2>2, <2>3, <2>4 DEF Seen
<1> QED
  BY <1>0, <1>1, <1>4, <1>8, <1>11, <1>14 DEF FindInv

-----------------------------------------------------------------------------
(* The others                                                              *)

\* Changes in the tree reach a search through the entries that are yet to come.
LEMMA Elsewhere ==
  ASSUME N \in Nat, FindInv, frames # <<>>, NEW n \in Node \ changed,
         UNCHANGED <<parent, dirs, fds, out, ret, leaked>>,
         changed' = changed \cup {n}, ExistInv',
         exist \cup changed \subseteq exist' \cup changed',
         exist' \ changed' \subseteq exist \ changed,
         frames' \in Seq(Frames), DOMAIN frames' = DOMAIN frames,
         \A i \in DOMAIN frames :
           /\ frames'[i].dir = frames[i].dir /\ frames'[i].entry = frames[i].entry
           /\ frames'[i].path = frames[i].path /\ frames'[i].pc = frames[i].pc
           /\ \/ frames'[i].left = frames[i].left
              \/ /\ frames'[i].left = frames[i].left \cup {n} /\ parent[n] = frames[i].dir
                 /\ n \notin exist \cup changed
  PROVE  FindInv'
<1>0. TreeInv /\ ExistInv /\ FrameInv /\ OpenInv /\ out \in Seq(Seq(Node))
  BY DEF FindInv
<1>1. TreeInv' /\ Find!PathTo' = Find!PathTo /\ \A x : PathOf(x)' = PathOf(x)
  BY <1>0, SameTree
<1>2. 1 \in DOMAIN frames /\ frames' # <<>>
  <2>1. 1 \in DOMAIN frames
    BY <1>0, Frame1
  <2> QED
    BY <2>1
<1>3. FrameInv'
  <2>1. ASSUME NEW i \in DOMAIN frames
        PROVE  /\ frames'[i].dir \in dirs \cup {0}
               /\ frames'[i].path = PathOf(frames'[i].dir)
               /\ \A e \in frames'[i].left : parent[e] = frames'[i].dir /\ e \in exist' \cup changed'
               /\ frames'[i].pc \in {"openat", "fdopendir"} =>
                    frames'[i].entry \in dirs /\ parent[frames'[i].entry] = frames'[i].dir
               /\ i > 1 => frames'[i].pc = "fdopendir"
    <3>1. \A e \in frames[i].left : parent[e] = frames'[i].dir /\ e \in exist' \cup changed'
      BY <1>0 DEF FrameInv
    <3>2. \A e \in frames'[i].left : parent[e] = frames'[i].dir /\ e \in exist' \cup changed'
      BY <3>1
    <3>3. frames'[i].dir \in dirs \cup {0} /\ frames'[i].path = PathOf(frames'[i].dir)
      BY <1>0 DEF FrameInv
    <3>4. frames'[i].pc \in {"openat", "fdopendir"} =>
            frames'[i].entry \in dirs /\ parent[frames'[i].entry] = frames'[i].dir
      BY <1>0 DEF FrameInv
    <3>5. i > 1 => frames'[i].pc = "fdopendir"
      BY <1>0 DEF FrameInv
    <3> QED
      BY <3>2, <3>3, <3>4, <3>5
  <2>2. \A i, j \in DOMAIN frames : i < j => frames'[j].dir < frames'[i].dir
    BY <1>0 DEF FrameInv
  <2> QED
    BY <1>1, <2>1, <2>2 DEF FrameInv
<1>4. /\ Held' = Held /\ AtHand' = AtHand /\ (Find!At("fdopendir")' <=> Find!At("fdopendir"))
      /\ frames'[1].pc = frames[1].pc /\ frames'[1].entry = frames[1].entry
  <2>1. frames'[1].pc = frames[1].pc /\ frames'[1].entry = frames[1].entry
    BY <1>2
  <2>2. AtHand' = AtHand /\ (Find!At("fdopendir")' <=> Find!At("fdopendir"))
    BY <1>2, <2>1 DEF AtHand, Find!At, Find!Top
  <2>3. Held' = Held
    BY DEF Held
  <2> QED
    BY <2>1, <2>2, <2>3
<1>5. OpenInv'
  BY <1>0, <1>2, <1>4 DEF OpenInv
<1>6. PICK S \in SUBSET Node : Seen(S)
  BY DEF FindInv
<1>7. Seen(S)'
  <2>1. /\ S \subseteq exist' \cup changed'
        /\ \A m \in S : parent'[m] \in S \cup {0} /\ parent'[m] \notin AtHand'
        /\ \A x \in AtHand' : x \in S
    BY <1>4, <1>6 DEF Seen
  <2>2. ASSUME NEW i \in DOMAIN frames PROVE frames'[i].dir \in S \cup {0} /\ frames'[i].left \cap S = {}
    BY <1>6 DEF Seen
  <2>3. /\ \A i \in DOMAIN out' : \E m \in S \cap Matching : out'[i] = Find!PathTo'[m]
        /\ \A m \in S \cap Matching : \E i \in DOMAIN out' : out'[i] = Find!PathTo'[m]
        /\ \A i, j \in DOMAIN out' : out'[i] = out'[j] => i = j
    BY <1>1, <1>6 DEF Seen
  <2>4. ASSUME ret' = 0, NEW m \in exist' \ changed', parent'[m] \in S \cup {0}, parent'[m] \notin AtHand'
        PROVE  \/ m \in S
               \/ \E i \in DOMAIN frames' : /\ frames'[i].dir = parent'[m] /\ m \in frames'[i].left
                                            /\ ~(i = 1 /\ frames'[i].pc = "return")
    <3>1. CASE m \in S
      BY <3>1
    <3>2. CASE m \notin S
      <4>1. m \in exist \ changed /\ ret = 0 /\ parent[m] \in S \cup {0} /\ parent[m] \notin AtHand
        BY <1>4, <2>4
      <4>2. PICK i \in DOMAIN frames : /\ frames[i].dir = parent[m] /\ m \in frames[i].left
                                       /\ ~(i = 1 /\ frames[i].pc = "return")
        BY <1>6, <3>2, <4>1 DEF Seen
      <4>3. m \in frames'[i].left
        BY <4>2
      <4> QED
        BY <4>2, <4>3
    <3> QED
      BY <3>1, <3>2
  <2> QED
    BY <2>1, <2>2, <2>3, <2>4 DEF Seen
<1> QED
  BY <1>0, <1>1, <1>3, <1>5, <1>7 DEF FindInv

LEMMA OthersKeeps ==
  ASSUME N \in Nat, FindInv, Find!Others PROVE FindInv'
<1>0. TreeInv /\ ExistInv /\ FrameInv
  BY DEF FindInv
<1>1. frames # <<>> /\ UNCHANGED <<parent, dirs, fds, out, ret, leaked>>
  BY DEF Find!Others, Find!tree
<1>2. PICK n \in Node \ changed, seen \in BOOLEAN :
        /\ changed' = changed \cup {n}
        /\ \/ /\ n \notin exist /\ parent[n] \in exist \cup {0}
              /\ exist' = exist \cup {n}
              /\ frames' = [i \in DOMAIN frames |->
                              IF seen /\ frames[i].dir = parent[n]
                              THEN [frames[i] EXCEPT !.left = @ \cup {n}] ELSE frames[i]]
           \/ /\ n \in exist /\ Find!Entries(n) = {} /\ exist' = exist \ {n}
              /\ UNCHANGED frames
  BY DEF Find!Others, Node, Find!Dot
<1>3. n \in Node /\ n # 0
  BY DEF Node, Find!Node
<1>4. CASE /\ n \notin exist /\ parent[n] \in exist \cup {0}
           /\ exist' = exist \cup {n}
           /\ frames' = [i \in DOMAIN frames |->
                           IF seen /\ frames[i].dir = parent[n]
                           THEN [frames[i] EXCEPT !.left = @ \cup {n}] ELSE frames[i]]
  <2>1. ExistInv'
    <3>1. \A m \in exist' : parent[m] \in exist' \cup {0}
      BY <1>0, <1>4 DEF ExistInv
    <3>2. \A m \in exist' \ changed' : parent[m] \notin changed'
      BY <1>0, <1>2, <1>3, <1>4 DEF ExistInv
    <3>3. exist' \subseteq Node /\ changed' \subseteq Node
      BY <1>0, <1>2, <1>3, <1>4 DEF ExistInv
    <3> QED
      BY <1>1, <3>1, <3>2, <3>3 DEF ExistInv
  <2>2. DOMAIN frames' = DOMAIN frames
    BY <1>4
  <2>3. \A i \in DOMAIN frames : frames[i] \in Frames
    BY <1>0, <1>1, Frame1
  <2>4. ASSUME NEW i \in DOMAIN frames
        PROVE  /\ frames'[i] \in Frames
               /\ frames'[i].dir = frames[i].dir /\ frames'[i].entry = frames[i].entry
               /\ frames'[i].path = frames[i].path /\ frames'[i].pc = frames[i].pc
               /\ \/ frames'[i].left = frames[i].left
                  \/ /\ frames'[i].left = frames[i].left \cup {n} /\ parent[n] = frames[i].dir
                     /\ n \notin exist \cup changed
    <3>1. frames'[i] = IF seen /\ frames[i].dir = parent[n]
                       THEN [frames[i] EXCEPT !.left = @ \cup {n}] ELSE frames[i]
      BY <1>4
    <3>2. frames[i] \in Frames
      BY <2>3
    <3> DEFINE g == [frames[i] EXCEPT !.left = @ \cup {n}]
    <3>3. /\ g \in Frames /\ g.left = frames[i].left \cup {n} /\ g.dir = frames[i].dir
          /\ g.entry = frames[i].entry /\ g.path = frames[i].path /\ g.pc = frames[i].pc
      BY <1>3, <3>2 DEF Frames
    <3>4. frames'[i] = IF seen /\ frames[i].dir = parent[n] THEN g ELSE frames[i]
      BY <3>1
    <3> HIDE DEF g
    <3> QED
      BY <1>4, <3>2, <3>3, <3>4
  <2>5. frames' \in Seq(Frames)
    <3>1. frames' \in [1 .. Len(frames) -> Frames] /\ Len(frames) \in Nat
      <4>1. DOMAIN frames = 1 .. Len(frames) /\ Len(frames) \in Nat
        BY <1>0, <1>1, Frame1
      <4>2. frames' = [i \in DOMAIN frames |-> frames'[i]]
        BY <1>4
      <4> QED
        BY <2>4, <4>1, <4>2
    <3> QED
      BY <3>1
  <2>6. exist \cup changed \subseteq exist' \cup changed' /\ exist' \ changed' \subseteq exist \ changed
    BY <1>2, <1>4
  <2> QED
    BY <1>1, <1>2, <2>1, <2>2, <2>4, <2>5, <2>6, Elsewhere
<1>5. CASE n \in exist /\ Find!Entries(n) = {} /\ exist' = exist \ {n} /\ UNCHANGED frames
  <2>1. \A m \in exist : parent[m] # n
    BY <1>5 DEF Find!Entries
  <2>2. ExistInv'
    BY <1>0, <1>1, <1>2, <1>3, <1>5, <2>1 DEF ExistInv
  <2>3. exist \cup changed \subseteq exist' \cup changed' /\ exist' \ changed' \subseteq exist \ changed
    BY <1>2, <1>5
  <2>4. frames' \in Seq(Frames) /\ DOMAIN frames' = DOMAIN frames
    BY <1>0, <1>5 DEF FrameInv
  <2> QED
    BY <1>1, <1>2, <1>5, <2>2, <2>3, <2>4, Elsewhere
<1> QED
  BY <1>2, <1>4, <1>5

-----------------------------------------------------------------------------
(* pingpong                                                                *)

CONSTANTS NFD, Pipe, CAP, Message
VARIABLES o, procs

Players == {"parent", "child"}

PingPong == INSTANCE PingPong WITH self <- procs, Proc <- Players

\* Descriptors 0 to 2 and two pipes have room, and a number is a number.
PingPongConstants ==
  /\ NFD \in Nat /\ NFD >= 7 /\ {1, 2} \subseteq Pipe /\ None \notin Message
  /\ None \notin {PingPong!TTY} \cup PingPong!Ends

\* The ends of the two pipes, and those that each player works with
EndOf(f) == <<"pipe", IF f < 5 THEN 1 ELSE 2, IF f \in {3, 5} THEN "r" ELSE "w">>
Uses(p) == IF p = "parent" THEN {4, 5} ELSE {3, 6}

Places(p) ==
  IF p = "parent" THEN {"pipe1", "pipe2", "fork", "close", "write", "read", "wait", "exit", "zombie"}
  ELSE {"none", "close", "read", "write", "exit", "zombie", "gone"}

Players1 ==
  [pc : Places("parent") \cup Places("child"), todo : Seq(3 .. 6),
   then : {"write", "read", "wait", "exit"}, sent : Message \cup {None},
   msg : Message \cup {None}, ret : {0, -1, -9}]

\* Tables of descriptors
Files(f) ==
  IF f < 3 THEN {PingPong!TTY, None} ELSE IF f \in 3 .. 6 THEN {EndOf(f), None} ELSE {None}

Tables ==
  {fd \in [PingPong!FD -> {PingPong!TTY, None} \cup {EndOf(f) : f \in 3 .. 6}] :
     \A f \in PingPong!FD : fd[f] \in Files(f)}

Opened(fd) == {f \in 3 .. 6 : fd[f] # None}
Rest(s) == {s.todo[i] : i \in DOMAIN s.todo}
Kept(p, s) == IF s.then \in {"write", "read"} THEN Uses(p) ELSE {}

\* What player p has open in state s
FdsRight(p, s, fd) ==
  CASE s.pc = "pipe1" -> Opened(fd) = {} /\ \A f \in 0 .. 2 : fd[f] # None
    [] s.pc = "pipe2" -> Opened(fd) = {3, 4} /\ \A f \in 0 .. 2 : fd[f] # None
    [] s.pc = "fork" -> Opened(fd) = 3 .. 6
    [] s.pc \in {"write", "read"} -> Opened(fd) = Uses(p)
    [] s.pc = "close" -> /\ Kept(p, s) \subseteq Opened(fd) /\ Kept(p, s) \cap Rest(s) = {}
                         /\ Opened(fd) \subseteq Kept(p, s) \cup Rest(s)
    [] OTHER -> Opened(fd) = {}

Ping == procs["parent"]
Pong == procs["child"]

PlayersInv ==
  /\ o \in [fds : [Players -> Tables], data : [Pipe -> Seq(Message)]]
  /\ procs \in [Players -> Players1]
  /\ \A p \in Players : procs[p].pc \in Places(p) /\ FdsRight(p, procs[p], o.fds[p])
  /\ Ping.then # "read" /\ Pong.then \in {"read", "exit"}

\* What is under way is what was sent.
NumberInv ==
  /\ \A k \in {1, 2} : \A i \in DOMAIN o.data[k] : o.data[k][i] = Ping.sent
  /\ Pong.msg \in {None, Ping.sent}
  /\ Ping.pc \in {"pipe1", "pipe2", "fork", "write"} => Ping.sent = None
  /\ Ping.pc = "close" /\ Ping.then = "write" => Ping.sent = None
  /\ Ping.pc = "close" /\ Ping.then = "exit" => Ping.ret = -1
  /\ \/ Ping.pc = "close" /\ Ping.then = "wait"
     \/ Ping.pc = "wait"
     \/ Ping.pc = "exit" /\ Ping.ret = 0
     => Ping.sent # None /\ Ping.msg = Ping.sent

PingPongInv == PlayersInv /\ NumberInv

-----------------------------------------------------------------------------
LEMMA EndsOfPlayers ==
  ASSUME PingPongConstants
  PROVE  /\ \A f \in 3 .. 6 : EndOf(f) # None
         /\ \A f \in 0 .. 6 : f \in PingPong!FD
         /\ PingPong!TTY # None
         /\ EndOf(3) = PingPong!RdEnd(1) /\ EndOf(4) = PingPong!WrEnd(1)
         /\ EndOf(5) = PingPong!RdEnd(2) /\ EndOf(6) = PingPong!WrEnd(2)
         /\ EndOf(3)[2] = 1 /\ EndOf(4)[2] = 1 /\ EndOf(5)[2] = 2 /\ EndOf(6)[2] = 2
         /\ 1 \in Pipe /\ 2 \in Pipe
         /\ PingPong!FD = 0 .. NFD - 1
<1> USE DEF PingPongConstants
<1>1. PingPong!FD = 0 .. NFD - 1 /\ \A f \in 0 .. 6 : f \in 0 .. NFD - 1
  BY DEF PingPong!FD
<1>2. /\ EndOf(3) = PingPong!RdEnd(1) /\ EndOf(4) = PingPong!WrEnd(1)
      /\ EndOf(5) = PingPong!RdEnd(2) /\ EndOf(6) = PingPong!WrEnd(2)
  BY DEF EndOf, PingPong!RdEnd, PingPong!WrEnd
<1>3. EndOf(3)[2] = 1 /\ EndOf(4)[2] = 1 /\ EndOf(5)[2] = 2 /\ EndOf(6)[2] = 2
  BY DEF EndOf
<1>4. \A k \in {1, 2} : PingPong!RdEnd(k) \in PingPong!Ends /\ PingPong!WrEnd(k) \in PingPong!Ends
  BY DEF PingPong!Ends, PingPong!RdEnd, PingPong!WrEnd
<1>5. \A f \in 3 .. 6 : f = 3 \/ f = 4 \/ f = 5 \/ f = 6
  OBVIOUS
<1>6. \A f \in 3 .. 6 : EndOf(f) # None
  BY <1>2, <1>4, <1>5
<1> QED
  BY <1>1, <1>2, <1>3, <1>6

LEMMA RecordParts ==
  ASSUME NEW A, NEW B, NEW r \in [fds : A, data : B], NEW v
  PROVE  [r EXCEPT !.fds = v] = [fds |-> v, data |-> r.data] /\ [r EXCEPT !.data = v] = [fds |-> r.fds, data |-> v]
OBVIOUS

\* What calls do to the state of the system
LEMMA CallsOfPlayers ==
  ASSUME PlayersInv, NEW p \in Players
  PROVE  /\ o = [fds |-> o.fds, data |-> o.data]
         /\ \A f : PingPong!Close(o, p, f) =
              [fds |-> [o.fds EXCEPT ![p] = [o.fds[p] EXCEPT ![f] = None]], data |-> o.data]
         /\ PingPong!CloseAll(o, p) = [fds |-> [o.fds EXCEPT ![p] = PingPong!NoFds], data |-> o.data]
         /\ \A f : PingPong!Read(o, p, f) =
              [fds |-> o.fds, data |-> [o.data EXCEPT ![o.fds[p][f][2]] = Tail(@)]]
         /\ \A f, x : PingPong!Write(o, p, f, x) =
              [fds |-> o.fds, data |-> [o.data EXCEPT ![o.fds[p][f][2]] = Append(@, x)]]
         /\ o.fds \in [Players -> Tables] /\ o.data \in [Pipe -> Seq(Message)]
<1>1. /\ o \in [fds : [Players -> Tables], data : [Pipe -> Seq(Message)]]
  BY DEF PlayersInv
<1>2. o = [fds |-> o.fds, data |-> o.data] /\ o.fds \in [Players -> Tables] /\ o.data \in [Pipe -> Seq(Message)]
  BY <1>1
<1>3. \A f : PingPong!Close(o, p, f) =
              [fds |-> [o.fds EXCEPT ![p] = [o.fds[p] EXCEPT ![f] = None]], data |-> o.data]
  <2> TAKE f
  <2> DEFINE v == [o.fds EXCEPT ![p] = [o.fds[p] EXCEPT ![f] = None]]
  <2>1. PingPong!Close(o, p, f) = [o EXCEPT !.fds = v]
    BY DEF PingPong!Close
  <2>2. [o EXCEPT !.fds = v] = [fds |-> v, data |-> o.data]
    <3> HIDE DEF v
    <3> QED
      BY <1>1, RecordParts
  <2> QED
    BY <2>1, <2>2
<1>4. PingPong!CloseAll(o, p) = [fds |-> [o.fds EXCEPT ![p] = PingPong!NoFds], data |-> o.data]
  BY <1>1 DEF PingPong!CloseAll
<1>5. \A f : PingPong!Read(o, p, f) =
              [fds |-> o.fds, data |-> [o.data EXCEPT ![o.fds[p][f][2]] = Tail(@)]]
  <2> TAKE f
  <2> DEFINE v == [o.data EXCEPT ![o.fds[p][f][2]] = Tail(@)]
  <2>1. PingPong!Read(o, p, f) = [o EXCEPT !.data = v]
    BY DEF PingPong!Read, PingPong!PipeOf
  <2>2. [o EXCEPT !.data = v] = [fds |-> o.fds, data |-> v]
    <3> HIDE DEF v
    <3> QED
      BY <1>1, RecordParts
  <2> QED
    BY <2>1, <2>2
<1>6. \A f, x : PingPong!Write(o, p, f, x) =
              [fds |-> o.fds, data |-> [o.data EXCEPT ![o.fds[p][f][2]] = Append(@, x)]]
  <2> TAKE f, x
  <2> DEFINE v == [o.data EXCEPT ![o.fds[p][f][2]] = Append(@, x)]
  <2>1. PingPong!Write(o, p, f, x) = [o EXCEPT !.data = v]
    BY DEF PingPong!Write, PingPong!PipeOf
  <2>2. [o EXCEPT !.data = v] = [fds |-> o.fds, data |-> v]
    <3> HIDE DEF v
    <3> QED
      BY <1>1, RecordParts
  <2> QED
    BY <2>1, <2>2
<1> QED
  BY <1>2, <1>3, <1>4, <1>5, <1>6

\* A step of one player
LEMMA OnePlayer ==
  ASSUME PlayersInv, NEW p \in Players, NEW s \in Players1, NEW fd \in Tables,
         NEW d \in [Pipe -> Seq(Message)],
         procs' = [procs EXCEPT ![p] = s],
         o' = [fds |-> [o.fds EXCEPT ![p] = fd], data |-> d],
         s.pc \in Places(p), FdsRight(p, s, fd),
         s.then \in IF p = "parent" THEN {"write", "wait", "exit"} ELSE {"read", "exit"}
  PROVE  /\ PlayersInv' /\ procs'[p] = s /\ \A q \in Players : q # p => procs'[q] = procs[q]
         /\ o'.data = d
<1>1. /\ procs \in [Players -> Players1] /\ o.fds \in [Players -> Tables]
      /\ \A q \in Players : procs[q].pc \in Places(q) /\ FdsRight(q, procs[q], o.fds[q])
      /\ procs["parent"].then # "read" /\ procs["child"].then \in {"read", "exit"}
  BY CallsOfPlayers DEF PlayersInv, Ping, Pong
<1>2. /\ procs' \in [Players -> Players1] /\ procs'[p] = s
      /\ \A q \in Players : q # p => procs'[q] = procs[q]
  BY <1>1
<1>3. /\ o'.fds \in [Players -> Tables] /\ o'.fds[p] = fd /\ o'.data = d
      /\ \A q \in Players : q # p => o'.fds[q] = o.fds[q]
  BY <1>1
<1>4. o' \in [fds : [Players -> Tables], data : [Pipe -> Seq(Message)]]
  BY <1>1
<1>5. ASSUME NEW q \in Players
      PROVE  procs'[q].pc \in Places(q) /\ FdsRight(q, procs'[q], o'.fds[q])
  <2>1. CASE q = p
    BY <1>2, <1>3, <2>1
  <2>2. CASE q # p
    BY <1>1, <1>2, <1>3, <2>2
  <2> QED
    BY <2>1, <2>2
<1>6. procs'["parent"].then # "read" /\ procs'["child"].then \in {"read", "exit"}
  BY <1>1, <1>2 DEF Players
<1> QED
  BY <1>2, <1>3, <1>4, <1>5, <1>6 DEF PlayersInv, Ping, Pong

\* Closing a descriptor
LEMMA Closes ==
  ASSUME PingPongConstants, NEW fd \in Tables, NEW f \in 3 .. 6
  PROVE  [fd EXCEPT ![f] = None] \in Tables /\ Opened([fd EXCEPT ![f] = None]) = Opened(fd) \ {f}
<1> DEFINE t == [fd EXCEPT ![f] = None]
<1>1. f \in PingPong!FD /\ \A g \in 3 .. 6 : g \in PingPong!FD
  BY EndsOfPlayers
<1>2. /\ fd \in [PingPong!FD -> {PingPong!TTY, None} \cup {EndOf(g) : g \in 3 .. 6}]
      /\ \A g \in PingPong!FD : fd[g] \in Files(g)
  BY DEF Tables
<1>3. /\ t \in [PingPong!FD -> {PingPong!TTY, None} \cup {EndOf(g) : g \in 3 .. 6}]
      /\ \A g \in PingPong!FD : t[g] = IF g = f THEN None ELSE fd[g]
  BY <1>1, <1>2
<1>4. \A g : None \in Files(g)
  BY DEF Files
<1>5. t \in Tables
  BY <1>2, <1>3, <1>4 DEF Tables
<1> HIDE DEF t
<1>6. Opened(t) = Opened(fd) \ {f}
  BY <1>1, <1>3 DEF Opened
<1> QED
  BY <1>5, <1>6 DEF t

LEMMA AllOfIt ==
  ASSUME NEW S, NEW q \in Seq(S), q # <<>>
  PROVE  {q[i] : i \in DOMAIN q} = {Tail(q)[i] : i \in DOMAIN Tail(q)} \cup {Head(q)}
<1>1. /\ DOMAIN q = 1 .. Len(q) /\ Len(q) \in Nat \ {0} /\ Head(q) = q[1]
      /\ DOMAIN Tail(q) = 1 .. Len(q) - 1 /\ \A i \in 1 .. Len(q) - 1 : Tail(q)[i] = q[i + 1]
  OBVIOUS
<1>2. ASSUME NEW i \in DOMAIN q, i # 1 PROVE \E j \in DOMAIN Tail(q) : q[i] = Tail(q)[j]
  <2> DEFINE j == i - 1
  <2>1. j \in 1 .. Len(q) - 1 /\ j + 1 = i
    BY <1>1, <1>2
  <2> HIDE DEF j
  <2>2. j \in DOMAIN Tail(q) /\ Tail(q)[j] = q[i]
    BY <1>1, <2>1
  <2> QED
    BY <2>2
<1>3. ASSUME NEW j \in DOMAIN Tail(q) PROVE j + 1 \in DOMAIN q /\ Tail(q)[j] = q[j + 1]
  BY <1>1
<1>4. 1 \in DOMAIN q
  BY <1>1
<1>5. \A x \in {q[i] : i \in DOMAIN q} : x \in {Tail(q)[i] : i \in DOMAIN Tail(q)} \cup {Head(q)}
  BY <1>1, <1>2
<1>6. \A x \in {Tail(q)[i] : i \in DOMAIN Tail(q)} : x \in {q[i] : i \in DOMAIN q}
  BY <1>3
<1>7. Head(q) \in {q[i] : i \in DOMAIN q}
  BY <1>1, <1>4
<1> QED
  BY <1>5, <1>6, <1>7

LEMMA NothingOpen ==
  ASSUME PingPongConstants
  PROVE  PingPong!NoFds \in Tables /\ Opened(PingPong!NoFds) = {}
<1>1. \A g : None \in Files(g)
  BY DEF Files
<1>2. PingPong!NoFds = [f \in PingPong!FD |-> None]
  BY DEF PingPong!NoFds
<1>3. \A f \in 3 .. 6 : f \in PingPong!FD
  BY EndsOfPlayers
<1> QED
  BY <1>1, <1>2, <1>3 DEF Tables, Opened

-----------------------------------------------------------------------------
LEMMA InitPingPong ==
  ASSUME PingPongConstants, PingPong!Init PROVE PingPongInv
<1> DEFINE fd(p) == [f \in PingPong!FD |-> IF p = "parent" /\ f < 3 THEN PingPong!TTY ELSE None]
           s(p) == PingPong!Start(IF p = "parent" THEN "pipe1" ELSE "none")
<1>1. /\ o = [fds |-> [p \in Players |-> fd(p)], data |-> [k \in Pipe |-> <<>>]]
      /\ procs = [p \in Players |-> s(p)]
  BY DEF PingPong!Init, PingPong!Parent
<1>2. ASSUME NEW p \in Players PROVE fd(p) \in Tables /\ Opened(fd(p)) = {}
  <2>1. \A f \in PingPong!FD : fd(p)[f] \in Files(f)
    BY EndsOfPlayers DEF Files
  <2>2. \A f \in 3 .. 6 : f \in PingPong!FD /\ ~(f < 3)
    BY EndsOfPlayers
  <2> QED
    BY <2>1, <2>2 DEF Tables, Opened
<1>3. \A f \in 0 .. 2 : fd("parent")[f] # None
  BY EndsOfPlayers
<1>4. ASSUME NEW p \in Players PROVE s(p) \in Players1 /\ s(p).pc \in Places(p) /\ s(p).then = "exit"
  BY DEF PingPong!Start, Players1, Places
<1>5. s("parent").pc = "pipe1" /\ s("child").pc = "none" /\ s("parent").sent = None /\ s("child").msg = None
  BY DEF PingPong!Start
<1> HIDE DEF s, fd
<1>6. \A p \in Players : procs[p] = s(p) /\ o.fds[p] = fd(p)
  BY <1>1
<1>7. FdsRight("parent", s("parent"), fd("parent")) /\ FdsRight("child", s("child"), fd("child"))
  BY <1>2, <1>3, <1>5 DEF FdsRight, Players
<1>8. o \in [fds : [Players -> Tables], data : [Pipe -> Seq(Message)]]
  <2>1. [p \in Players |-> fd(p)] \in [Players -> Tables]
    BY <1>2
  <2>2. [k \in Pipe |-> <<>>] \in [Pipe -> Seq(Message)]
    OBVIOUS
  <2> QED
    BY <1>1, <2>1, <2>2
<1>9. PlayersInv
  <2>1. procs \in [Players -> Players1]
    BY <1>1, <1>4
  <2>2. "parent" \in Players /\ "child" \in Players /\ \A p \in Players : p = "parent" \/ p = "child"
    BY DEF Players
  <2> QED
    BY <1>4, <1>6, <1>7, <1>8, <2>1, <2>2 DEF PlayersInv, Ping, Pong
<1>10. NumberInv
  <2>1. \A k \in {1, 2} : o.data[k] = <<>>
    BY <1>1 DEF PingPongConstants
  <2>2. Ping = s("parent") /\ Pong = s("child")
    BY <1>6 DEF Ping, Pong, Players
  <2> QED
    BY <1>5, <2>1, <2>2 DEF NumberInv
<1> QED
  BY <1>9, <1>10 DEF PingPongInv

LEMMA CloseOneKeeps ==
  ASSUME PingPongConstants, PingPongInv, NEW p \in Players, PingPong!CloseOne(p)
  PROVE  PingPongInv'
<1> DEFINE s == procs[p]
           fd == o.fds[p]
<1>0. PlayersInv /\ NumberInv
  BY DEF PingPongInv
<1>1. s.pc = "close" /\ s \in Players1 /\ FdsRight(p, s, fd) /\ fd \in Tables
  BY <1>0, CallsOfPlayers DEF PingPong!CloseOne, PingPong!At, PlayersInv
<1>2. s.then \in IF p = "parent" THEN {"write", "wait", "exit"} ELSE {"read", "exit"}
  BY <1>0, <1>1 DEF PlayersInv, Players1, Players, Ping, Pong
<1>3. /\ Kept(p, s) \subseteq Opened(fd) /\ Kept(p, s) \cap Rest(s) = {}
      /\ Opened(fd) \subseteq Kept(p, s) \cup Rest(s)
  BY <1>1 DEF FdsRight
<1>4. o = [fds |-> o.fds, data |-> o.data] /\ o.data \in [Pipe -> Seq(Message)]
      /\ o.fds = [o.fds EXCEPT ![p] = fd]
  BY <1>0, CallsOfPlayers
<1>5. CASE s.todo = <<>>
  <2> DEFINE t == [s EXCEPT !.pc = s.then]
  <2>1. /\ t \in Players1 /\ t.pc = s.then /\ t.then = s.then /\ t.sent = s.sent /\ t.msg = s.msg
        /\ t.ret = s.ret
    BY <1>1, <1>2 DEF Players1, Places
  <2>2. procs' = [procs EXCEPT ![p] = t] /\ o' = o
    BY <1>5 DEF PingPong!CloseOne
  <2> HIDE DEF t
  <2>3. t.pc \in Places(p)
    BY <1>2, <2>1 DEF Places, Players
  <2>4. FdsRight(p, t, fd)
    <3>1. Opened(fd) = Kept(p, s)
      <4>1. DOMAIN s.todo = {}
        BY <1>5
      <4>2. Rest(s) = {}
        BY <4>1 DEF Rest
      <4> HIDE DEF s, fd
      <4> QED
        BY <1>3, <4>2
    <3> QED
      BY <1>2, <2>1, <3>1 DEF FdsRight, Kept
  <2>5. o' = [fds |-> [o.fds EXCEPT ![p] = fd], data |-> o.data]
    BY <1>4, <2>2
  <2>6. /\ PlayersInv' /\ procs'[p] = t /\ \A q \in Players : q # p => procs'[q] = procs[q]
        /\ o'.data = o.data
    <3> HIDE DEF s, fd
    <3> QED
      BY <1>0, <1>1, <1>2, <1>4, <2>1, <2>2, <2>3, <2>4, <2>5, OnePlayer
  <2>7. NumberInv'
    <3>1. CASE p = "parent"
      <4>1. Ping' = t /\ Ping = s /\ Pong' = Pong
        BY <2>6, <3>1 DEF Ping, Pong, Players
      <4> HIDE DEF s
      <4> QED
        BY <1>0, <1>1, <1>2, <2>1, <2>6, <3>1, <4>1 DEF NumberInv
    <3>2. CASE p = "child"
      <4>1. Ping' = Ping /\ Pong' = t /\ Pong = s
        BY <2>6, <3>2 DEF Ping, Pong, Players
      <4> HIDE DEF s
      <4> QED
        BY <1>0, <2>1, <2>6, <4>1 DEF NumberInv
    <3> QED
      BY <3>1, <3>2 DEF Players
  <2> QED
    BY <2>6, <2>7 DEF PingPongInv
<1>6. CASE s.todo # <<>>
  <2> DEFINE t == [s EXCEPT !.todo = Tail(s.todo)]
             f == Head(s.todo)
             e == [fd EXCEPT ![f] = None]
  <2>0. s.todo \in Seq(3 .. 6)
    BY <1>1 DEF Players1
  <2>1. /\ t \in Players1 /\ t.pc = "close" /\ t.then = s.then /\ t.sent = s.sent /\ t.msg = s.msg
        /\ t.ret = s.ret /\ t.todo = Tail(s.todo) /\ f \in 3 .. 6
    <3>1. Tail(s.todo) \in Seq(3 .. 6) /\ Head(s.todo) \in 3 .. 6
      BY <1>6, <2>0
    <3> QED
      BY <1>1, <3>1 DEF Players1
  <2>2. procs' = [procs EXCEPT ![p] = t] /\ o' = PingPong!Close(o, p, f)
    BY <1>6 DEF PingPong!CloseOne
  <2>3. Rest(s) = Rest(t) \cup {f}
    <3> DEFINE q == s.todo
    <3>1. q \in Seq(3 .. 6) /\ q # <<>> /\ Rest(s) = {q[i] : i \in DOMAIN q}
      BY <1>6, <2>0 DEF Rest
    <3>2. Rest(t) = {Tail(q)[i] : i \in DOMAIN Tail(q)} /\ f = Head(q)
      BY <2>1 DEF Rest
    <3> HIDE DEF q
    <3>3. {q[i] : i \in DOMAIN q} = {Tail(q)[i] : i \in DOMAIN Tail(q)} \cup {Head(q)}
      BY <3>1, AllOfIt
    <3> HIDE DEF f, t, s
    <3> QED
      BY <3>1, <3>2, <3>3
  <2>4. e \in Tables /\ Opened(e) = Opened(fd) \ {f}
    <3> HIDE DEF fd, f
    <3> QED
      BY <1>1, <2>1, Closes
  <2>5. o' = [fds |-> [o.fds EXCEPT ![p] = e], data |-> o.data]
    BY <1>0, <2>2, CallsOfPlayers
  <2> HIDE DEF t, e, f, fd
  <2>6. FdsRight(p, t, e)
    <3>1. Kept(p, t) = Kept(p, s)
      BY <2>1 DEF Kept
    <3> HIDE DEF s
    <3> QED
      BY <1>3, <2>1, <2>3, <2>4, <3>1 DEF FdsRight
  <2>7. t.pc \in Places(p)
    BY <2>1 DEF Places
  <2>8. /\ PlayersInv' /\ procs'[p] = t /\ \A q \in Players : q # p => procs'[q] = procs[q]
        /\ o'.data = o.data
    <3>1. t.then \in IF p = "parent" THEN {"write", "wait", "exit"} ELSE {"read", "exit"}
      BY <1>2, <2>1
    <3>2. t \in Players1 /\ o.data \in [Pipe -> Seq(Message)]
      BY <1>4, <2>1
    <3>3. PlayersInv /\ procs' = [procs EXCEPT ![p] = t] /\ e \in Tables
      BY <1>0, <2>2, <2>4
    <3> HIDE DEF s
    <3> QED
      BY <2>5, <2>6, <2>7, <3>1, <3>2, <3>3, OnePlayer
  <2>9. NumberInv'
    <3>1. CASE p = "parent"
      <4>1. Ping' = t /\ Ping = s /\ Pong' = Pong
        BY <2>8, <3>1 DEF Ping, Pong, Players
      <4> HIDE DEF s
      <4> QED
        BY <1>0, <1>1, <2>1, <2>8, <4>1 DEF NumberInv
    <3>2. CASE p = "child"
      <4>1. Ping' = Ping /\ Pong' = t /\ Pong = s
        BY <2>8, <3>2 DEF Ping, Pong, Players
      <4> HIDE DEF s
      <4> QED
        BY <1>0, <2>1, <2>8, <4>1 DEF NumberInv
    <3> QED
      BY <3>1, <3>2 DEF Players
  <2> QED
    BY <2>8, <2>9 DEF PingPongInv
<1> QED
  BY <1>5, <1>6

\* t is s that begins to close q.
Begun(t, s, q, then) ==
  /\ t \in Players1 /\ t.pc = "close" /\ t.todo = q /\ t.then = then
  /\ t.sent = s.sent /\ t.msg = s.msg

LEMMA ClosingIs ==
  ASSUME NEW s \in Players1, NEW q \in Seq(3 .. 6), NEW then \in {"write", "read", "wait", "exit"}
  PROVE  Begun(PingPong!Closing(s, q, then), s, q, then) /\ PingPong!Closing(s, q, then).ret = s.ret
BY DEF PingPong!Closing, Players1, Places, Begun

LEMMA ErrorIs ==
  ASSUME NEW s \in Players1, NEW q \in Seq(3 .. 6)
  PROVE  Begun(PingPong!Error(s, q), s, q, "exit") /\ PingPong!Error(s, q).ret = -1
BY DEF PingPong!Closing, PingPong!Error, Players1, Places, Begun

\* What a player has open when it begins to close q
LEMMA BeginsToClose ==
  ASSUME NEW p \in Players, NEW s \in Players1, NEW fd, s.pc = "close",
         Opened(fd) \subseteq Kept(p, s) \cup Rest(s), Kept(p, s) \subseteq Opened(fd),
         Kept(p, s) \cap Rest(s) = {}
  PROVE  FdsRight(p, s, fd) /\ s.pc \in Places(p)
BY DEF FdsRight, Places

LEMMA TwoOf ==
  ASSUME NEW a \in 3 .. 6, NEW b \in 3 .. 6
  PROVE  <<a, b>> \in Seq(3 .. 6) /\ {<<a, b>>[i] : i \in DOMAIN <<a, b>>} = {a, b}
<1>1. DOMAIN <<a, b>> = {1, 2} /\ <<a, b>>[1] = a /\ <<a, b>>[2] = b
  OBVIOUS
<1> QED
  BY <1>1

\* A call of the parent fails before there is a child.
LEMMA FailsKeeps ==
  ASSUME PingPongConstants, PingPongInv, Ping.pc \in {"pipe1", "pipe2", "fork"},
         NEW q \in Seq(3 .. 6), Opened(o.fds["parent"]) \subseteq {q[i] : i \in DOMAIN q},
         procs' = [procs EXCEPT !["parent"] = PingPong!Error(@, q)], o' = o
  PROVE  PingPongInv'
<1> DEFINE t == PingPong!Error(Ping, q)
           fd == o.fds["parent"]
<1>0. PlayersInv /\ NumberInv /\ "parent" \in Players
  BY DEF PingPongInv, Players
<1>1. Ping \in Players1 /\ fd \in Tables /\ procs \in [Players -> Players1]
  BY <1>0, CallsOfPlayers DEF PlayersInv, Ping
<1>2. /\ t \in Players1 /\ t.pc = "close" /\ t.todo = q /\ t.then = "exit"
      /\ t.sent = Ping.sent /\ t.msg = Ping.msg /\ t.ret = -1
  BY <1>1, ErrorIs DEF Begun
<1>3. procs' = [procs EXCEPT !["parent"] = t]
  BY <1>0, <1>1 DEF Ping
<1>4. o' = [fds |-> [o.fds EXCEPT !["parent"] = fd], data |-> o.data] /\ o.data \in [Pipe -> Seq(Message)]
  <2>1. o = [fds |-> o.fds, data |-> o.data] /\ o.fds \in [Players -> Tables]
    BY <1>0, CallsOfPlayers
  <2>2. [o.fds EXCEPT !["parent"] = fd] = o.fds
    BY <2>1
  <2>3. o.data \in [Pipe -> Seq(Message)]
    BY <1>0, CallsOfPlayers
  <2> QED
    BY <2>1, <2>2, <2>3
<1> HIDE DEF t
<1>5. FdsRight("parent", t, fd) /\ t.pc \in Places("parent")
  <2>1. Kept("parent", t) = {} /\ Rest(t) = {q[i] : i \in DOMAIN q}
    BY <1>2 DEF Kept, Rest
  <2> HIDE DEF fd
  <2> QED
    BY <1>0, <1>2, <2>1, BeginsToClose DEF fd
<1>6. /\ PlayersInv' /\ procs'["parent"] = t /\ \A r \in Players : r # "parent" => procs'[r] = procs[r]
      /\ o'.data = o.data
  <2>1. t.then \in IF "parent" = "parent" THEN {"write", "wait", "exit"} ELSE {"read", "exit"}
    BY <1>2
  <2> HIDE DEF fd
  <2> QED
    BY <1>0, <1>1, <1>2, <1>3, <1>4, <1>5, <2>1, OnePlayer
<1>7. Ping' = t /\ Pong' = Pong
  BY <1>6 DEF Ping, Pong, Players
<1>8. NumberInv'
  BY <1>0, <1>2, <1>6, <1>7 DEF NumberInv
<1> QED
  BY <1>6, <1>8 DEF PingPongInv

LEMMA LeastOfFds ==
  ASSUME NEW S \in SUBSET Int, NEW x \in S, \A y \in S : x =< y
  PROVE  PingPong!Least(S) = x
<1> DEFINE y == CHOOSE z \in S : \A w \in S : z =< w
<1>1. y \in S /\ \A w \in S : y =< w
  OBVIOUS
<1>2. PingPong!Least(S) = y
  BY DEF PingPong!Least
<1> HIDE DEF y
<1>3. y =< x /\ x =< y /\ y \in Int /\ x \in Int
  BY <1>1
<1> QED
  BY <1>2, <1>3

\* The descriptors that pipe() takes
LEMMA PipeTakes ==
  ASSUME PingPongConstants, NEW a \in {3, 5}, PlayersInv,
         Opened(o.fds["parent"]) = 3 .. a - 1, \A f \in 0 .. 2 : o.fds["parent"][f] # None
  PROVE  PingPong!FreeFd(o, "parent") = a /\ PingPong!FreeFd2(o, "parent") = a + 1
<1> DEFINE F == PingPong!FreeFds(o, "parent")
<1>1. o.fds["parent"] \in Tables
  BY CallsOfPlayers DEF Players
<1>2. PingPong!FD = 0 .. NFD - 1 /\ NFD \in Nat /\ NFD >= 7
  BY EndsOfPlayers DEF PingPongConstants
<1>3. F = a .. NFD - 1
  <2>1. \A f \in PingPong!FD : f > 6 => o.fds["parent"][f] = None
    <3> SUFFICES ASSUME NEW f \in PingPong!FD, f > 6 PROVE o.fds["parent"][f] = None
      OBVIOUS
    <3>1. Files(f) = {None}
      BY <1>2 DEF Files
    <3> QED
      BY <1>1, <3>1 DEF Tables
  <2>2. \A f \in 3 .. 6 : o.fds["parent"][f] = None <=> f \notin 3 .. a - 1
    BY DEF Opened
  <2>3. F = {f \in PingPong!FD : o.fds["parent"][f] = None}
    BY DEF PingPong!FreeFds
  <2>4. \A f \in PingPong!FD : o.fds["parent"][f] = None <=> f \in a .. NFD - 1
    <3> TAKE f \in PingPong!FD
    <3>1. f \in 0 .. 2 \/ f \in 3 .. 6 \/ f > 6
      BY <1>2
    <3> QED
      BY <1>2, <2>1, <2>2, <3>1
  <2>5. a .. NFD - 1 \subseteq PingPong!FD
    BY <1>2
  <2> HIDE DEF F
  <2> QED
    BY <2>3, <2>4, <2>5
<1> HIDE DEF F
<1>4. PingPong!FreeFd(o, "parent") = a
  <2>1. F \in SUBSET Int /\ a \in F /\ \A y \in F : a =< y
    BY <1>2, <1>3
  <2>2. PingPong!Least(F) = a
    BY <2>1, LeastOfFds
  <2> QED
    BY <2>2 DEF PingPong!FreeFd, F
<1>5. PingPong!FreeFd2(o, "parent") = a + 1
  <2> DEFINE G == F \ {a}
  <2>1. G \in SUBSET Int /\ a + 1 \in G /\ \A y \in G : a + 1 =< y
    BY <1>2, <1>3
  <2> HIDE DEF G
  <2>2. PingPong!Least(G) = a + 1
    BY <2>1, LeastOfFds
  <2> QED
    BY <1>4, <2>2 DEF PingPong!FreeFd2, F, G
<1> QED
  BY <1>4, <1>5

\* r with two descriptors of p and a pipe changed
TwoEntries(r, p, a, x, b, y, k) == [r EXCEPT !.fds[p][a] = x, !.fds[p][b] = y, !.data[k] = <<>>]
TwoFds(F, p, a, x, b, y) == [F EXCEPT ![p][a] = x, ![p][b] = y]

LEMMA TwoEntriesAre ==
  ASSUME NEW F, NEW D, NEW p, NEW a, NEW b, NEW k, NEW x, NEW y
  PROVE  TwoEntries([fds |-> F, data |-> D], p, a, x, b, y, k)
           = [fds |-> TwoFds(F, p, a, x, b, y), data |-> [D EXCEPT ![k] = <<>>]]
<1>1. ASSUME NEW f, NEW d, NEW v
      PROVE  /\ [[fds |-> f, data |-> d] EXCEPT !.fds = v] = [fds |-> v, data |-> d]
             /\ [[fds |-> f, data |-> d] EXCEPT !.data = v] = [fds |-> f, data |-> v]
  <2> DEFINE r == [fds |-> f, data |-> d]
  <2>1. r \in [fds : {f}, data : {d}] /\ r.fds = f /\ r.data = d
    OBVIOUS
  <2> HIDE DEF r
  <2>2. [r EXCEPT !.fds = v] = [fds |-> v, data |-> r.data] /\ [r EXCEPT !.data = v] = [fds |-> r.fds, data |-> v]
    BY <2>1, RecordParts
  <2> QED
    BY <2>1, <2>2 DEF r
<1>2. ASSUME NEW r
      PROVE  [r EXCEPT !.fds[p][a] = x, !.fds[p][b] = y, !.data[k] = <<>>]
           = [[[r EXCEPT !.fds[p][a] = x] EXCEPT !.fds[p][b] = y] EXCEPT !.data[k] = <<>>]
  OBVIOUS
<1>3. ASSUME NEW r, NEW c, NEW z
      PROVE  [r EXCEPT !.fds[p][c] = z] = [r EXCEPT !.fds = [r.fds EXCEPT ![p][c] = z]]
  OBVIOUS
<1>4. ASSUME NEW r PROVE [r EXCEPT !.data[k] = <<>>] = [r EXCEPT !.data = [r.data EXCEPT ![k] = <<>>]]
  OBVIOUS
<1>5. ASSUME NEW f, NEW d, NEW c, NEW z
      PROVE  [[fds |-> f, data |-> d] EXCEPT !.fds[p][c] = z] = [fds |-> [f EXCEPT ![p][c] = z], data |-> d]
  <2> DEFINE r == [fds |-> f, data |-> d]
  <2>1. r.fds = f
    OBVIOUS
  <2>2. [r EXCEPT !.fds[p][c] = z] = [r EXCEPT !.fds = [r.fds EXCEPT ![p][c] = z]]
    <3> HIDE DEF r
    <3> QED
      BY <1>3
  <2> DEFINE v == [f EXCEPT ![p][c] = z]
  <2>3. [r EXCEPT !.fds[p][c] = z] = [r EXCEPT !.fds = v]
    <3> HIDE DEF r
    <3> QED
      BY <2>1, <2>2
  <2>4. [r EXCEPT !.fds = v] = [fds |-> v, data |-> d]
    <3> HIDE DEF v
    <3> QED
      BY <1>1
  <2> HIDE DEF v
  <2> QED
    BY <2>3, <2>4 DEF v
<1>6. ASSUME NEW f, NEW d
      PROVE  [[fds |-> f, data |-> d] EXCEPT !.data[k] = <<>>] = [fds |-> f, data |-> [d EXCEPT ![k] = <<>>]]
  <2> DEFINE r == [fds |-> f, data |-> d]
             v == [d EXCEPT ![k] = <<>>]
  <2>1. r.data = d
    OBVIOUS
  <2>2. [r EXCEPT !.data[k] = <<>>] = [r EXCEPT !.data = v]
    <3> HIDE DEF r
    <3> QED
      BY <1>4, <2>1
  <2>3. [r EXCEPT !.data = v] = [fds |-> f, data |-> v]
    <3> HIDE DEF v
    <3> QED
      BY <1>1
  <2> QED
    BY <2>2, <2>3
<1> DEFINE F1 == [F EXCEPT ![p][a] = x]
           F2 == [F1 EXCEPT ![p][b] = y]
           r == [fds |-> F, data |-> D]
<1>7. [r EXCEPT !.fds[p][a] = x] = [fds |-> F1, data |-> D]
  BY <1>5
<1>8. [[fds |-> F1, data |-> D] EXCEPT !.fds[p][b] = y] = [fds |-> F2, data |-> D]
  <2> HIDE DEF F1
  <2> QED
    BY <1>5
<1>9. [[fds |-> F2, data |-> D] EXCEPT !.data[k] = <<>>] = [fds |-> F2, data |-> [D EXCEPT ![k] = <<>>]]
  <2> HIDE DEF F2
  <2> QED
    BY <1>6
<1>10. F2 = TwoFds(F, p, a, x, b, y)
  BY DEF TwoFds
<1>11. TwoEntries(r, p, a, x, b, y, k)
         = [[[r EXCEPT !.fds[p][a] = x] EXCEPT !.fds[p][b] = y] EXCEPT !.data[k] = <<>>]
  <2> HIDE DEF r
  <2> QED
    BY <1>2 DEF TwoEntries
<1> HIDE DEF F1, F2, r
<1>12. TwoEntries(r, p, a, x, b, y, k) = [fds |-> F2, data |-> [D EXCEPT ![k] = <<>>]]
  BY <1>7, <1>8, <1>9, <1>11
<1> QED
  BY <1>10, <1>12 DEF r

LEMMA PipeCallIs ==
  ASSUME PlayersInv, NEW p, NEW k, NEW a, NEW b,
         PingPong!FreeFd(o, p) = a, PingPong!FreeFd2(o, p) = b
  PROVE  PingPong!PipeCall(o, p, k)
           = [fds |-> TwoFds(o.fds, p, a, PingPong!RdEnd(k), b, PingPong!WrEnd(k)),
              data |-> [o.data EXCEPT ![k] = <<>>]]
<1> DEFINE x == PingPong!RdEnd(k)
           y == PingPong!WrEnd(k)
<1>1. PingPong!PipeCall(o, p, k) = TwoEntries(o, p, a, x, b, y, k)
  BY DEF PingPong!PipeCall, TwoEntries
<1>2. o = [fds |-> o.fds, data |-> o.data]
  BY CallsOfPlayers DEF Players
<1>3. TwoEntries([fds |-> o.fds, data |-> o.data], p, a, x, b, y, k)
        = [fds |-> TwoFds(o.fds, p, a, x, b, y), data |-> [o.data EXCEPT ![k] = <<>>]]
  BY TwoEntriesAre
<1> QED
  BY <1>1, <1>2, <1>3

PipeMade(k) ==
  /\ o' = PingPong!PipeCall(o, "parent", k)
  /\ procs' = [procs EXCEPT !["parent"].pc = IF k = 1 THEN "pipe2" ELSE "fork"]

LEMMA MakePipeKeeps ==
  ASSUME PingPongConstants, PingPongInv, NEW a \in {3, 5}, NEW k \in {1, 2}, a = 2 * k + 1,
         Ping.pc = IF k = 1 THEN "pipe1" ELSE "pipe2",
         PipeMade(k)
  PROVE  PingPongInv'
<1> DEFINE t == [Ping EXCEPT !.pc = IF k = 1 THEN "pipe2" ELSE "fork"]
           fd == o.fds["parent"]
           e == [fd EXCEPT ![a] = PingPong!RdEnd(k), ![a + 1] = PingPong!WrEnd(k)]
           d == [o.data EXCEPT ![k] = <<>>]
<1>0. PlayersInv /\ NumberInv /\ "parent" \in Players
  BY DEF PingPongInv, Players
<1>1. Ping \in Players1 /\ fd \in Tables /\ procs \in [Players -> Players1]
  BY <1>0, CallsOfPlayers DEF PlayersInv, Ping
<1>2. Opened(fd) = 3 .. a - 1 /\ \A f \in 0 .. 2 : fd[f] # None
  <2>1. FdsRight("parent", Ping, fd)
    BY <1>0 DEF PlayersInv, Ping
  <2>2. CASE k = 1
    <3>1. Opened(fd) = {} /\ 3 .. a - 1 = {} /\ \A f \in 0 .. 2 : fd[f] # None
      BY <2>1, <2>2 DEF FdsRight
    <3> QED
      BY <3>1
  <2>3. CASE k = 2
    <3>1. Opened(fd) = {3, 4} /\ 3 .. a - 1 = {3, 4} /\ \A f \in 0 .. 2 : fd[f] # None
      BY <2>1, <2>3 DEF FdsRight
    <3> QED
      BY <3>1
  <2> QED
    BY <2>2, <2>3
<1>3. PingPong!FreeFd(o, "parent") = a /\ PingPong!FreeFd2(o, "parent") = a + 1
  BY <1>0, <1>2, PipeTakes
<1>4. o' = [fds |-> [o.fds EXCEPT !["parent"] = e], data |-> d]
  <2>1. o = [fds |-> o.fds, data |-> o.data] /\ o.fds \in [Players -> Tables]
    BY <1>0, CallsOfPlayers
  <2> DEFINE v == TwoFds(o.fds, "parent", a, PingPong!RdEnd(k), a + 1, PingPong!WrEnd(k))
  <2>3. v = [o.fds EXCEPT !["parent"] = e]
    BY <1>0, <2>1 DEF TwoFds
  <2>5. o' = [fds |-> v, data |-> d]
    <3>1. PingPong!PipeCall(o, "parent", k) = [fds |-> v, data |-> d]
      BY <1>0, <1>3, PipeCallIs
    <3> QED
      BY <3>1 DEF PipeMade
  <2> QED
    BY <2>3, <2>5
<1>5. /\ a \in PingPong!FD /\ a + 1 \in PingPong!FD /\ PingPong!RdEnd(k) = EndOf(a)
      /\ PingPong!WrEnd(k) = EndOf(a + 1) /\ EndOf(a) # None /\ EndOf(a + 1) # None
      /\ a \in 3 .. 6 /\ a + 1 \in 3 .. 6
  <2>1. (k = 1 /\ a = 3 /\ a + 1 = 4) \/ (k = 2 /\ a = 5 /\ a + 1 = 6)
    OBVIOUS
  <2> QED
    BY <2>1, EndsOfPlayers
<1>6. e \in Tables /\ Opened(e) = 3 .. a + 1 /\ \A f \in 0 .. 2 : e[f] # None
  <2>1. /\ fd \in [PingPong!FD -> {PingPong!TTY, None} \cup {EndOf(g) : g \in 3 .. 6}]
        /\ \A g \in PingPong!FD : fd[g] \in Files(g)
    BY <1>1 DEF Tables
  <2>2. \A g \in PingPong!FD : e[g] = IF g = a + 1 THEN EndOf(a + 1) ELSE IF g = a THEN EndOf(a) ELSE fd[g]
    BY <1>5, <2>1
  <2>3. e \in [PingPong!FD -> {PingPong!TTY, None} \cup {EndOf(g) : g \in 3 .. 6}]
    BY <1>5, <2>1
  <2>4. EndOf(a) \in Files(a) /\ EndOf(a + 1) \in Files(a + 1)
    BY <1>5 DEF Files
  <2> HIDE DEF e, fd
  <2>5. e \in Tables
    BY <2>1, <2>2, <2>3, <2>4 DEF Tables
  <2>6. \A f \in 0 .. 6 : f \in PingPong!FD
    BY EndsOfPlayers
  <2>7. Opened(e) = 3 .. a + 1
    <3>1. \A f \in 3 .. 6 : e[f] # None <=> f \in Opened(fd) \/ f = a \/ f = a + 1
      BY <1>5, <2>2, <2>6 DEF Opened
    <3>2. \A f \in 3 .. 6 : e[f] # None <=> f \in 3 .. a + 1
      BY <1>2, <3>1
    <3> QED
      BY <3>2, <1>5 DEF Opened
  <2>8. \A f \in 0 .. 2 : e[f] # None
    BY <1>2, <1>5, <2>2, <2>6
  <2> QED
    BY <2>5, <2>7, <2>8
<1>7. d \in [Pipe -> Seq(Message)] /\ d[k] = <<>> /\ \A j \in {1, 2} : j # k => d[j] = o.data[j]
  <2>1. o.data \in [Pipe -> Seq(Message)] /\ k \in Pipe
    BY <1>0, CallsOfPlayers DEF PingPongConstants
  <2> QED
    BY <2>1 DEF PingPongConstants
<1>8. /\ t \in Players1 /\ t.pc = (IF k = 1 THEN "pipe2" ELSE "fork") /\ t.then = Ping.then
      /\ t.sent = Ping.sent /\ t.msg = Ping.msg /\ t.ret = Ping.ret
  BY <1>1 DEF Players1, Places
<1>9. procs' = [procs EXCEPT !["parent"] = t]
  BY <1>0, <1>1 DEF Ping, PipeMade
<1> HIDE DEF t, e, d, fd
<1>10. FdsRight("parent", t, e) /\ t.pc \in Places("parent")
  <2>1. CASE k = 1
    <3>1. 3 .. a + 1 = {3, 4}
      BY <2>1
    <3> QED
      BY <1>6, <1>8, <2>1, <3>1 DEF FdsRight, Places
  <2>2. CASE k = 2
    <3>1. a + 1 = 6
      BY <2>2
    <3> QED
      BY <1>6, <1>8, <2>2, <3>1 DEF FdsRight, Places
  <2> QED
    BY <2>1, <2>2
<1>11. t.then \in IF "parent" = "parent" THEN {"write", "wait", "exit"} ELSE {"read", "exit"}
  BY <1>0, <1>8 DEF PlayersInv, Players1
<1>12. /\ PlayersInv' /\ procs'["parent"] = t /\ \A r \in Players : r # "parent" => procs'[r] = procs[r]
       /\ o'.data = d
  <2>1. PlayersInv /\ "parent" \in Players /\ t \in Players1 /\ e \in Tables /\ d \in [Pipe -> Seq(Message)]
    BY <1>0, <1>6, <1>7, <1>8
  <2> QED
    BY <1>4, <1>9, <1>10, <1>11, <2>1, OnePlayer
<1>13. Ping' = t /\ Pong' = Pong
  BY <1>12 DEF Ping, Pong, Players
<1>14. NumberInv'
  <2>1. \A j \in {1, 2} : \A i \in DOMAIN d[j] : d[j][i] = Ping.sent
    <3> TAKE j \in {1, 2}
    <3>1. CASE j = k
      BY <1>7, <3>1
    <3>2. CASE j # k
      BY <1>0, <1>7, <3>2 DEF NumberInv
    <3> QED
      BY <3>1, <3>2
  <2> QED
    BY <1>0, <1>8, <1>12, <1>13, <2>1 DEF NumberInv
<1> QED
  BY <1>12, <1>14 DEF PingPongInv

LEMMA MakePipe1Keeps ==
  ASSUME PingPongConstants, PingPongInv, PingPong!MakePipe1 PROVE PingPongInv'
<1>1. Ping.pc = "pipe1"
  BY DEF PingPong!MakePipe1, PingPong!At, PingPong!Parent, Ping
<1>2. CASE o' = PingPong!PipeCall(o, "parent", 1) /\ procs' = [procs EXCEPT !["parent"].pc = "pipe2"]
  <2>1. PipeMade(1)
    BY <1>2 DEF PipeMade
  <2> QED
    BY <1>1, <2>1, MakePipeKeeps
<1>3. CASE procs' = [procs EXCEPT !["parent"] = PingPong!Error(@, <<>>)] /\ o' = o
  <2>1. Opened(o.fds["parent"]) = {}
    BY <1>1 DEF PingPongInv, PlayersInv, FdsRight, Players, Ping
  <2>2. <<>> \in Seq(3 .. 6)
    OBVIOUS
  <2> QED
    BY <1>1, <1>3, <2>1, <2>2, FailsKeeps
<1> QED
  BY <1>2, <1>3 DEF PingPong!MakePipe1, PingPong!Fails, PingPong!Parent

LEMMA MakePipe2Keeps ==
  ASSUME PingPongConstants, PingPongInv, PingPong!MakePipe2 PROVE PingPongInv'
<1>1. Ping.pc = "pipe2"
  BY DEF PingPong!MakePipe2, PingPong!At, PingPong!Parent, Ping
<1>2. CASE o' = PingPong!PipeCall(o, "parent", 2) /\ procs' = [procs EXCEPT !["parent"].pc = "fork"]
  <2>1. PipeMade(2)
    BY <1>2 DEF PipeMade
  <2> QED
    BY <1>1, <2>1, MakePipeKeeps
<1>3. CASE procs' = [procs EXCEPT !["parent"] = PingPong!Error(@, <<3, 4>>)] /\ o' = o
  <2>1. Opened(o.fds["parent"]) = {3, 4}
    BY <1>1 DEF PingPongInv, PlayersInv, FdsRight, Players, Ping
  <2>2. <<3, 4>> \in Seq(3 .. 6) /\ {<<3, 4>>[i] : i \in DOMAIN <<3, 4>>} = {3, 4}
    BY TwoOf
  <2> QED
    BY <1>1, <1>3, <2>1, <2>2, FailsKeeps
<1> QED
  BY <1>2, <1>3 DEF PingPong!MakePipe2, PingPong!Fails, PingPong!Parent, PingPong!fds_1

\* A step of both
LEMMA BothPlayers ==
  ASSUME PlayersInv, NEW S \in [Players -> Players1], NEW T \in [Players -> Tables],
         NEW d \in [Pipe -> Seq(Message)], procs' = S, o' = [fds |-> T, data |-> d],
         \A p \in Players : /\ S[p].pc \in Places(p) /\ FdsRight(p, S[p], T[p])
                            /\ S[p].then \in IF p = "parent" THEN {"write", "wait", "exit"} ELSE {"read", "exit"}
  PROVE  PlayersInv' /\ Ping' = S["parent"] /\ Pong' = S["child"] /\ o'.data = d
<1>1. o' \in [fds : [Players -> Tables], data : [Pipe -> Seq(Message)]] /\ o'.fds = T /\ o'.data = d
  OBVIOUS
<1>2. Ping' = S["parent"] /\ Pong' = S["child"]
  BY DEF Ping, Pong
<1>3. Ping'.then # "read" /\ Pong'.then \in {"read", "exit"}
  BY <1>2 DEF Players
<1> QED
  BY <1>1, <1>2, <1>3 DEF PlayersInv

LEMMA ThenOf ==
  ASSUME PlayersInv, NEW p \in Players
  PROVE  procs[p].then \in IF p = "parent" THEN {"write", "wait", "exit"} ELSE {"read", "exit"}
BY DEF PlayersInv, Players1, Players, Ping, Pong

LEMMA ForkKeeps ==
  ASSUME PingPongConstants, PingPongInv, PingPong!MainFork PROVE PingPongInv'
<1>0. PlayersInv /\ NumberInv /\ "parent" \in Players /\ "child" \in Players /\ "child" # "parent"
  BY DEF PingPongInv, Players
<1>1. Ping.pc = "fork" /\ Opened(o.fds["parent"]) = 3 .. 6 /\ Ping \in Players1
  <2>1. Ping.pc = "fork"
    BY DEF PingPong!MainFork, PingPong!ForkClosing, PingPong!At, PingPong!Parent, Ping
  <2> QED
    BY <1>0, <2>1 DEF PlayersInv, FdsRight, Ping
<1>2. CASE procs' = [procs EXCEPT !["parent"] = PingPong!Error(@, PingPong!All)] /\ o' = o
  <2> DEFINE q == <<3, 4, 5, 6>>
  <2>1. q \in Seq(3 .. 6) /\ PingPong!All = q
    BY DEF PingPong!All, PingPong!fds_1, PingPong!fds_2
  <2>2. DOMAIN q = 1 .. 4 /\ q[1] = 3 /\ q[2] = 4 /\ q[3] = 5 /\ q[4] = 6
    OBVIOUS
  <2> HIDE DEF q
  <2>3. 3 .. 6 \subseteq {q[i] : i \in DOMAIN q}
    BY <2>2
  <2> QED
    BY <1>1, <1>2, <2>1, <2>3, FailsKeeps
<1>3. CASE /\ o' = PingPong!Fork(o, "parent", "child")
           /\ procs' = [p \in Players |-> IF p = "parent" THEN PingPong!Closing(procs[p], <<3, 6>>, "write")
                          ELSE PingPong!Closing(PingPong!Start("close"), <<5, 4>>, "read")]
  <2> DEFINE t == PingPong!Closing(Ping, <<3, 6>>, "write")
             c == PingPong!Closing(PingPong!Start("close"), <<5, 4>>, "read")
             S == [p \in Players |-> IF p = "parent" THEN t ELSE c]
             fd == o.fds["parent"]
             T == [o.fds EXCEPT !["child"] = fd]
  <2>1. procs' = S
    BY <1>3 DEF Ping
  <2>2. /\ <<3, 6>> \in Seq(3 .. 6) /\ {<<3, 6>>[i] : i \in DOMAIN <<3, 6>>} = {3, 6}
        /\ <<5, 4>> \in Seq(3 .. 6) /\ {<<5, 4>>[i] : i \in DOMAIN <<5, 4>>} = {5, 4}
    BY TwoOf
  <2>3. /\ t \in Players1 /\ t.pc = "close" /\ t.todo = <<3, 6>> /\ t.then = "write"
        /\ t.sent = Ping.sent /\ t.msg = Ping.msg /\ t.ret = Ping.ret
    <3> DEFINE q == <<3, 6>>
    <3>1. q \in Seq(3 .. 6)
      BY <2>2
    <3> HIDE DEF q
    <3>2. t = PingPong!Closing(Ping, q, "write") /\ <<3, 6>> = q
      BY DEF q
    <3>3. Begun(PingPong!Closing(Ping, q, "write"), Ping, q, "write")
          /\ PingPong!Closing(Ping, q, "write").ret = Ping.ret
      BY <1>1, <3>1, ClosingIs
    <3> HIDE DEF t
    <3> QED
      BY <3>2, <3>3 DEF Begun
  <2>4. PingPong!Start("close") \in Players1 /\ PingPong!Start("close").msg = None
    BY DEF PingPong!Start, Players1, Places
  <2>5. /\ c \in Players1 /\ c.pc = "close" /\ c.todo = <<5, 4>> /\ c.then = "read" /\ c.msg = None
    <3> DEFINE q == <<5, 4>>
               b == PingPong!Start("close")
    <3>1. q \in Seq(3 .. 6)
      BY <2>2
    <3> HIDE DEF q, b
    <3>2. c = PingPong!Closing(b, q, "read") /\ <<5, 4>> = q
      BY DEF q, b
    <3>3. b \in Players1 /\ b.msg = None
      BY <2>4 DEF b
    <3>4. Begun(PingPong!Closing(b, q, "read"), b, q, "read")
      BY <3>1, <3>3, ClosingIs
    <3> HIDE DEF c
    <3> QED
      BY <3>2, <3>3, <3>4 DEF Begun
  <2>6. o.fds \in [Players -> Tables] /\ o.data \in [Pipe -> Seq(Message)]
    BY <1>0, CallsOfPlayers
  <2>7. o' = [fds |-> T, data |-> o.data]
    <3>1. o' = [o EXCEPT !.fds = T]
      BY <1>3 DEF PingPong!Fork
    <3>2. o \in [fds : [Players -> Tables], data : [Pipe -> Seq(Message)]]
      BY <1>0 DEF PlayersInv
    <3> HIDE DEF T
    <3> QED
      BY <3>1, <3>2, RecordParts
  <2>8. T \in [Players -> Tables] /\ \A p \in Players : T[p] = fd
    BY <1>0, <2>6 DEF Players
  <2> HIDE DEF t, c, T, fd
  <2>9. S \in [Players -> Players1] /\ S["parent"] = t /\ S["child"] = c
    BY <1>0, <2>3, <2>5
  <2>10. Opened(fd) = {3, 4, 5, 6}
    BY <1>1 DEF fd
  <2>11. FdsRight("parent", t, fd) /\ t.pc \in Places("parent")
    <3>1. Kept("parent", t) = {4, 5} /\ Rest(t) = {3, 6}
      BY <2>2, <2>3 DEF Kept, Rest, Uses
    <3> QED
      BY <1>0, <2>3, <2>10, <3>1, BeginsToClose
  <2>12. FdsRight("child", c, fd) /\ c.pc \in Places("child")
    <3>1. Kept("child", c) = {3, 6} /\ Rest(c) = {5, 4}
      BY <2>2, <2>5 DEF Kept, Rest, Uses
    <3> QED
      BY <1>0, <2>5, <2>10, <3>1, BeginsToClose
  <2>13. \A p \in Players : /\ S[p].pc \in Places(p) /\ FdsRight(p, S[p], T[p])
                            /\ S[p].then \in IF p = "parent" THEN {"write", "wait", "exit"} ELSE {"read", "exit"}
    BY <2>3, <2>5, <2>8, <2>9, <2>11, <2>12 DEF Players
  <2> HIDE DEF S
  <2>14. PlayersInv' /\ Ping' = t /\ Pong' = c /\ o'.data = o.data
    BY <1>0, <2>1, <2>6, <2>7, <2>8, <2>9, <2>13, BothPlayers
  <2>15. NumberInv'
    BY <1>0, <1>1, <2>3, <2>5, <2>14 DEF NumberInv
  <2> QED
    BY <2>14, <2>15 DEF PingPongInv
<1> QED
  BY <1>2, <1>3 DEF PingPong!MainFork, PingPong!ForkClosing, PingPong!Fails, PingPong!Parent,
     PingPong!Child, PingPong!fds_1, PingPong!fds_2

\* Who exits or is killed leaves nothing open.
Ends1(p, s) ==
  /\ s.pc = "zombie" /\ s.then = procs[p].then /\ s.sent = procs[p].sent /\ s.msg = procs[p].msg
  /\ procs' = [procs EXCEPT ![p] = s] /\ o' = PingPong!CloseAll(o, p)

LEMMA EndKeeps ==
  ASSUME PingPongConstants, PingPongInv, NEW p \in Players, NEW s \in Players1, Ends1(p, s)
  PROVE  PingPongInv'
<1>0. PlayersInv /\ NumberInv
  BY DEF PingPongInv
<1>1. PingPong!NoFds \in Tables /\ Opened(PingPong!NoFds) = {}
  BY NothingOpen
<1>2. o' = [fds |-> [o.fds EXCEPT ![p] = PingPong!NoFds], data |-> o.data] /\ o.data \in [Pipe -> Seq(Message)]
  BY <1>0, CallsOfPlayers DEF Ends1
<1>3. s.pc \in Places(p) /\ FdsRight(p, s, PingPong!NoFds)
  BY <1>1 DEF Places, FdsRight, Ends1
<1>4. s.then \in IF p = "parent" THEN {"write", "wait", "exit"} ELSE {"read", "exit"}
  BY <1>0, ThenOf DEF Ends1
<1>5. /\ PlayersInv' /\ procs'[p] = s /\ \A q \in Players : q # p => procs'[q] = procs[q]
      /\ o'.data = o.data
  <2> DEFINE n == PingPong!NoFds
             d == o.data
  <2>1. n \in Tables /\ d \in [Pipe -> Seq(Message)] /\ o' = [fds |-> [o.fds EXCEPT ![p] = n], data |-> d]
    BY <1>1, <1>2
  <2>2. s.pc \in Places(p) /\ FdsRight(p, s, n)
    BY <1>3
  <2>3. procs' = [procs EXCEPT ![p] = s] /\ PlayersInv
    BY <1>0 DEF Ends1
  <2> HIDE DEF n, d
  <2>4. /\ PlayersInv' /\ procs'[p] = s /\ \A q \in Players : q # p => procs'[q] = procs[q]
        /\ o'.data = d
    BY <1>4, <2>1, <2>2, <2>3, OnePlayer
  <2> QED
    BY <2>4 DEF d
<1>6. NumberInv'
  <2>1. CASE p = "parent"
    <3>1. Ping' = s /\ Pong' = Pong /\ Ping = procs[p]
      BY <1>5, <2>1 DEF Ping, Pong, Players
    <3> QED
      BY <1>0, <1>5, <3>1 DEF NumberInv, Ends1
  <2>2. CASE p = "child"
    <3>1. Ping' = Ping /\ Pong' = s /\ Pong = procs[p]
      BY <1>5, <2>2 DEF Ping, Pong, Players
    <3> QED
      BY <1>0, <1>5, <3>1 DEF NumberInv, Ends1
  <2> QED
    BY <2>1, <2>2 DEF Players
<1> QED
  BY <1>5, <1>6 DEF PingPongInv

LEMMA DiesKeeps ==
  ASSUME PingPongConstants, PingPongInv, NEW p \in Players, PingPong!Dies(p) PROVE PingPongInv'
<1> DEFINE s == [procs[p] EXCEPT !.pc = "zombie", !.ret = -9]
<1>1. procs \in [Players -> Players1]
  BY DEF PingPongInv, PlayersInv
<1>2. /\ s \in Players1 /\ s.pc = "zombie" /\ s.then = procs[p].then /\ s.sent = procs[p].sent
      /\ s.msg = procs[p].msg
  BY <1>1 DEF Players1, Places
<1>3. procs' = [procs EXCEPT ![p] = s] /\ o' = PingPong!CloseAll(o, p)
  BY <1>1 DEF PingPong!Dies
<1> HIDE DEF s
<1> QED
  BY <1>2, <1>3, EndKeeps DEF Ends1

LEMMA PlayerExitKeeps ==
  ASSUME PingPongConstants, PingPongInv, NEW p \in Players, PingPong!Exit(p) PROVE PingPongInv'
<1> DEFINE s == [procs[p] EXCEPT !.pc = "zombie"]
<1>1. procs \in [Players -> Players1]
  BY DEF PingPongInv, PlayersInv
<1>2. /\ s \in Players1 /\ s.pc = "zombie" /\ s.then = procs[p].then /\ s.sent = procs[p].sent
      /\ s.msg = procs[p].msg
  BY <1>1 DEF Players1, Places
<1>3. procs' = [procs EXCEPT ![p] = s] /\ o' = PingPong!CloseAll(o, p)
  BY <1>1 DEF PingPong!Exit
<1> HIDE DEF s
<1> QED
  BY <1>2, <1>3, EndKeeps DEF Ends1

\* What a player that works with its ends reads from and writes in
LEMMA EndsInUse ==
  ASSUME PingPongConstants, PlayersInv, NEW p \in Players, procs[p].pc \in {"read", "write"}
  PROVE  /\ Opened(o.fds[p]) = Uses(p)
         /\ o.fds[p][PingPong!From(p)][2] = IF p = "parent" THEN 2 ELSE 1
         /\ o.fds[p][PingPong!To(p)][2] = IF p = "parent" THEN 1 ELSE 2
<1>1. Opened(o.fds[p]) = Uses(p)
  BY DEF PlayersInv, FdsRight
<1>2. o.fds[p] \in Tables
  BY CallsOfPlayers
<1>3. \A f \in Uses(p) : o.fds[p][f] = EndOf(f)
  <2>1. ASSUME NEW f \in Uses(p) PROVE o.fds[p][f] = EndOf(f)
    <3>1. f \in 3 .. 6 /\ f \in PingPong!FD /\ o.fds[p][f] # None
      BY <1>1, EndsOfPlayers DEF Opened
    <3>2. Files(f) = {EndOf(f), None}
      <4>1. ~(f < 3)
        BY <3>1
      <4> QED
        BY <3>1, <4>1 DEF Files
    <3>3. o.fds[p][f] \in Files(f)
      BY <1>2, <3>1 DEF Tables
    <3> QED
      BY <3>1, <3>2, <3>3
  <2> QED
    BY <2>1
<1>4. PingPong!From(p) \in Uses(p) /\ PingPong!To(p) \in Uses(p)
  BY DEF PingPong!From, PingPong!To, PingPong!fds_1, PingPong!fds_2, PingPong!Parent, Uses
<1>5. o.fds[p][PingPong!From(p)] = EndOf(PingPong!From(p)) /\ o.fds[p][PingPong!To(p)] = EndOf(PingPong!To(p))
  BY <1>3, <1>4
<1>6. /\ EndOf(PingPong!From(p))[2] = IF p = "parent" THEN 2 ELSE 1
      /\ EndOf(PingPong!To(p))[2] = IF p = "parent" THEN 1 ELSE 2
  <2>1. /\ PingPong!From(p) = IF p = "parent" THEN 5 ELSE 3
        /\ PingPong!To(p) = IF p = "parent" THEN 4 ELSE 6
    BY DEF PingPong!From, PingPong!To, PingPong!fds_1, PingPong!fds_2, PingPong!Parent
  <2> QED
    BY <2>1, EndsOfPlayers
<1> QED
  BY <1>1, <1>5, <1>6

\* A player closes both of its ends.
LEMMA ClosesBoth ==
  ASSUME NEW p \in Players, NEW s \in Players1, NEW then \in {"wait", "exit"}, NEW fd, Opened(fd) = Uses(p),
         NEW t, Begun(t, s, PingPong!Both(p), then)
  PROVE  FdsRight(p, t, fd) /\ t.pc \in Places(p)
<1>1. Rest(t) = Uses(p)
  <2>1. {<<5, 4>>[i] : i \in DOMAIN <<5, 4>>} = {5, 4} /\ {<<3, 6>>[i] : i \in DOMAIN <<3, 6>>} = {3, 6}
    BY TwoOf
  <2>2. t.todo = IF p = "parent" THEN <<5, 4>> ELSE <<3, 6>>
    BY DEF Begun, PingPong!Both, PingPong!fds_1, PingPong!fds_2, PingPong!Parent
  <2> QED
    BY <2>1, <2>2 DEF Rest, Uses
<1>2. Kept(p, t) = {} /\ t.pc = "close" /\ t \in Players1
  BY DEF Begun, Kept
<1> QED
  BY <1>1, <1>2, BeginsToClose

LEMMA BothIs ==
  ASSUME NEW p \in Players PROVE PingPong!Both(p) \in Seq(3 .. 6)
<1>1. <<5, 4>> \in Seq(3 .. 6) /\ <<3, 6>> \in Seq(3 .. 6)
  BY TwoOf
<1> QED
  BY <1>1 DEF PingPong!Both, PingPong!fds_1, PingPong!fds_2, PingPong!Parent

\* Player p goes on as s, with the same descriptors and the pipes as d
GoesOn(p, s, d) == procs' = [procs EXCEPT ![p] = s] /\ o' = [fds |-> o.fds, data |-> d]

LEMMA GoesOnKeeps ==
  ASSUME PlayersInv, NEW p \in Players, NEW s \in Players1, NEW d \in [Pipe -> Seq(Message)],
         GoesOn(p, s, d), s.pc \in Places(p), FdsRight(p, s, o.fds[p]),
         s.then \in IF p = "parent" THEN {"write", "wait", "exit"} ELSE {"read", "exit"}
  PROVE  /\ PlayersInv' /\ procs'[p] = s /\ \A q \in Players : q # p => procs'[q] = procs[q]
         /\ o'.data = d
<1> DEFINE fd == o.fds[p]
<1>1. fd \in Tables
  BY CallsOfPlayers
<1>2. procs' = [procs EXCEPT ![p] = s] /\ o' = [fds |-> [o.fds EXCEPT ![p] = fd], data |-> d]
  <2>1. o.fds = [o.fds EXCEPT ![p] = fd]
    BY CallsOfPlayers
  <2> QED
    BY <2>1 DEF GoesOn
<1>3. FdsRight(p, s, fd)
  OBVIOUS
<1> HIDE DEF fd
<1> QED
  BY <1>1, <1>2, <1>3, OnePlayer

\* The parent sends: nothing was under way.
LEMMA SendKeeps ==
  ASSUME PingPongConstants, PingPongInv, Ping.pc = "write", NEW m \in Message,
         NEW s, s = [Ping EXCEPT !.pc = "read", !.sent = m],
         GoesOn("parent", s, [o.data EXCEPT ![1] = Append(@, m)])
  PROVE  PingPongInv'
<1> DEFINE p == "parent"
           d == [o.data EXCEPT ![1] = Append(@, m)]
<1>0. PlayersInv /\ NumberInv /\ p \in Players
  BY DEF PingPongInv, Players
<1>1. Ping \in Players1 /\ Ping.sent = None /\ Pong.msg = None /\ Ping = procs[p]
  BY <1>0 DEF PlayersInv, NumberInv, Ping
<1>2. /\ s \in Players1 /\ s.pc = "read" /\ s.then = Ping.then /\ s.sent = m
  BY <1>1 DEF Players1, Places
<1>3. o.data \in [Pipe -> Seq(Message)] /\ 1 \in Pipe /\ 2 \in Pipe
  BY <1>0, CallsOfPlayers DEF PingPongConstants
<1>4. o.data[1] = <<>> /\ o.data[2] = <<>>
  <2>1. ASSUME NEW k \in {1, 2} PROVE o.data[k] = <<>>
    <3>1. o.data[k] \in Seq(Message) /\ \A i \in DOMAIN o.data[k] : o.data[k][i] = None
      BY <1>0, <1>1, <1>3 DEF NumberInv
    <3>2. None \notin Message
      BY DEF PingPongConstants
    <3> QED
      BY <3>1, <3>2
  <2> QED
    BY <2>1
<1>5. d \in [Pipe -> Seq(Message)] /\ d[1] = <<m>> /\ d[2] = <<>>
  <2>1. Append(o.data[1], m) = <<m>> /\ Append(o.data[1], m) \in Seq(Message)
    BY <1>4
  <2> QED
    BY <1>3, <1>4, <2>1
<1>6. GoesOn(p, s, d)
  OBVIOUS
<1> HIDE DEF d, p
<1>7. FdsRight(p, s, o.fds[p]) /\ s.pc \in Places(p) /\ s.then \in IF p = "parent" THEN {"write", "wait", "exit"} ELSE {"read", "exit"}
  <2>1. Opened(o.fds[p]) = Uses(p)
    BY <1>0, <1>1, EndsInUse
  <2>2. procs[p].then \in IF p = "parent" THEN {"write", "wait", "exit"} ELSE {"read", "exit"}
    BY <1>0, ThenOf
  <2> QED
    BY <1>1, <1>2, <2>1, <2>2 DEF FdsRight, Places, p
<1>8. /\ PlayersInv' /\ procs'[p] = s /\ \A q \in Players : q # p => procs'[q] = procs[q]
      /\ o'.data = d
  BY <1>0, <1>2, <1>5, <1>6, <1>7, GoesOnKeeps
<1>9. Ping' = s /\ Pong' = Pong
  BY <1>8 DEF Ping, Pong, Players, p
<1>10. NumberInv'
  <2>1. \A k \in {1, 2} : \A i \in DOMAIN d[k] : d[k][i] = m
    BY <1>5
  <2> QED
    BY <1>0, <1>1, <1>2, <1>8, <1>9, <2>1 DEF NumberInv
<1> QED
  BY <1>8, <1>10 DEF PingPongInv

\* The child answers with what it read.
LEMMA AnswerKeeps ==
  ASSUME PingPongConstants, PingPongInv, Pong.pc = "write", Pong.msg \in Message,
         NEW s, Begun(s, Pong, PingPong!Both("child"), "exit"),
         GoesOn("child", s, [o.data EXCEPT ![2] = Append(@, Pong.msg)])
  PROVE  PingPongInv'
<1> DEFINE p == "child"
           d == [o.data EXCEPT ![2] = Append(@, Pong.msg)]
<1>0. PlayersInv /\ NumberInv /\ p \in Players
  BY DEF PingPongInv, Players
<1>1. Pong \in Players1 /\ Pong = procs[p] /\ Pong.msg = Ping.sent
  BY <1>0 DEF PlayersInv, NumberInv, Pong, PingPongConstants
<1>2. /\ s \in Players1 /\ s.pc = "close" /\ s.then = "exit" /\ s.msg = Pong.msg
  BY DEF Begun
<1>3. o.data \in [Pipe -> Seq(Message)] /\ 1 \in Pipe /\ 2 \in Pipe
  BY <1>0, CallsOfPlayers DEF PingPongConstants
<1>4. PICK j : /\ DOMAIN Append(o.data[2], Pong.msg) = DOMAIN o.data[2] \cup {j}
               /\ Append(o.data[2], Pong.msg)[j] = Pong.msg
               /\ \A i \in DOMAIN o.data[2] : Append(o.data[2], Pong.msg)[i] = o.data[2][i]
  <2>1. o.data[2] \in Seq(Message)
    BY <1>3
  <2> QED
    BY <2>1, Appended
<1>5. d \in [Pipe -> Seq(Message)] /\ d[2] = Append(o.data[2], Pong.msg) /\ d[1] = o.data[1]
  <2>1. Append(o.data[2], Pong.msg) \in Seq(Message)
    BY <1>3
  <2> QED
    BY <1>3, <2>1
<1>6. GoesOn(p, s, d)
  OBVIOUS
<1> HIDE DEF d, p
<1>7. FdsRight(p, s, o.fds[p]) /\ s.pc \in Places(p) /\ s.then \in IF p = "parent" THEN {"write", "wait", "exit"} ELSE {"read", "exit"}
  <2>1. Opened(o.fds[p]) = Uses(p)
    BY <1>0, <1>1, EndsInUse
  <2>2. Begun(s, Pong, PingPong!Both(p), "exit")
    BY DEF p
  <2>3. FdsRight(p, s, o.fds[p]) /\ s.pc \in Places(p)
    BY <1>0, <1>1, <2>1, <2>2, ClosesBoth
  <2> QED
    BY <1>2, <2>3 DEF p
<1>8. /\ PlayersInv' /\ procs'[p] = s /\ \A q \in Players : q # p => procs'[q] = procs[q]
      /\ o'.data = d
  BY <1>0, <1>2, <1>5, <1>6, <1>7, GoesOnKeeps
<1>9. Ping' = Ping /\ Pong' = s
  BY <1>8 DEF Ping, Pong, Players, p
<1>10. NumberInv'
  <2>1. \A k \in {1, 2} : \A i \in DOMAIN d[k] : d[k][i] = Ping.sent
    <3>1. \A i \in DOMAIN d[1] : d[1][i] = Ping.sent
      BY <1>0, <1>5 DEF NumberInv
    <3>2. \A i \in DOMAIN d[2] : d[2][i] = Ping.sent
      <4>1. \A i \in DOMAIN o.data[2] : o.data[2][i] = Ping.sent
        BY <1>0 DEF NumberInv
      <4> QED
        BY <1>1, <1>4, <1>5, <4>1
    <3> QED
      BY <3>1, <3>2
  <2> QED
    BY <1>0, <1>1, <1>2, <1>8, <1>9, <2>1 DEF NumberInv
<1> QED
  BY <1>8, <1>10 DEF PingPongInv

\* What is taken from a pipe is what was sent.
LEMMA TakenIs ==
  ASSUME PingPongConstants, PingPongInv, NEW k \in {1, 2}, o.data[k] # <<>>,
         NEW d, d = [o.data EXCEPT ![k] = Tail(@)]
  PROVE  /\ Head(o.data[k]) = Ping.sent /\ Ping.sent \in Message
         /\ d \in [Pipe -> Seq(Message)] /\ \A j \in {1, 2} : \A i \in DOMAIN d[j] : d[j][i] = Ping.sent
<1>0. PlayersInv /\ NumberInv
  BY DEF PingPongInv
<1>1. o.data \in [Pipe -> Seq(Message)] /\ k \in Pipe /\ {1, 2} \subseteq Pipe
  BY <1>0, CallsOfPlayers DEF PingPongConstants, Players
<1> DEFINE q == o.data[k]
<1>2. q \in Seq(Message) /\ q # <<>> /\ \A i \in DOMAIN q : q[i] = Ping.sent
  BY <1>0, <1>1 DEF NumberInv
<1> HIDE DEF q
<1>3. /\ 1 \in DOMAIN q /\ Head(q) = q[1] /\ Head(q) \in Message /\ Tail(q) \in Seq(Message)
      /\ \A i \in DOMAIN Tail(q) : i + 1 \in DOMAIN q /\ Tail(q)[i] = q[i + 1]
  BY <1>2
<1>4. \A j \in {1, 2} : d[j] = IF j = k THEN Tail(q) ELSE o.data[j]
  BY <1>1 DEF q
<1>5. d \in [Pipe -> Seq(Message)]
  BY <1>1, <1>3 DEF q
<1>6. \A j \in {1, 2} : \A i \in DOMAIN d[j] : d[j][i] = Ping.sent
  <2> TAKE j \in {1, 2}
  <2>1. CASE j = k
    BY <1>2, <1>3, <1>4, <2>1
  <2>2. CASE j # k
    BY <1>0, <1>4, <2>2 DEF NumberInv
  <2> QED
    BY <2>1, <2>2
<1> QED
  BY <1>2, <1>3, <1>5, <1>6 DEF q

\* A player that read or saw the end of the file and begins to close both ends
LEMMA LeavesKeeps ==
  ASSUME PingPongConstants, PingPongInv, NEW p \in Players, procs[p].pc = "read",
         NEW s \in Players1, NEW t, NEW then \in {"wait", "exit"}, then = "wait" => p = "parent",
         Begun(t, s, PingPong!Both(p), then),
         NEW d \in [Pipe -> Seq(Message)], GoesOn(p, t, d)
  PROVE  /\ PlayersInv' /\ procs'[p] = t /\ \A q \in Players : q # p => procs'[q] = procs[q]
         /\ o'.data = d
<1>0. PlayersInv
  BY DEF PingPongInv
<1>1. Opened(o.fds[p]) = Uses(p)
  BY <1>0, EndsInUse
<1>2. FdsRight(p, t, o.fds[p]) /\ t.pc \in Places(p)
  BY <1>1, ClosesBoth
<1>3. t \in Players1 /\ t.then \in IF p = "parent" THEN {"write", "wait", "exit"} ELSE {"read", "exit"}
  BY DEF Begun, Players
<1> QED
  BY <1>0, <1>2, <1>3, GoesOnKeeps

LEMMA ReadKeeps ==
  ASSUME PingPongConstants, PingPongInv, NEW p \in Players, PingPong!ReadMessage(p)
  PROVE  PingPongInv'
<1> DEFINE k == IF p = "parent" THEN 2 ELSE 1
           b == PingPong!Both(p)
<1>0. PlayersInv /\ NumberInv /\ k \in {1, 2}
  BY DEF PingPongInv
<1>1. procs \in [Players -> Players1] /\ procs[p].pc = "read" /\ b \in Seq(3 .. 6)
  BY <1>0, BothIs DEF PingPong!ReadMessage, PingPong!At, PlayersInv
<1>2. o.fds[p][PingPong!From(p)][2] = k
  BY <1>0, <1>1, EndsInUse
<1>3. o = [fds |-> o.fds, data |-> o.data] /\ o.data \in [Pipe -> Seq(Message)] /\ k \in Pipe
  BY <1>0, CallsOfPlayers DEF PingPongConstants
<1>4. CASE PingPong!AtEof(o, p, PingPong!From(p)) /\ procs' = [procs EXCEPT ![p] = PingPong!Error(@, b)] /\ o' = o
  <2> DEFINE s == procs[p]
             t == PingPong!Error(s, b)
             d == o.data
  <2>1. s \in Players1 /\ d \in [Pipe -> Seq(Message)]
    BY <1>1, <1>3
  <2>2. GoesOn(p, t, d)
    BY <1>1, <1>3, <1>4 DEF GoesOn
  <2> HIDE DEF s, b
  <2>3. Begun(t, s, b, "exit") /\ t.ret = -1
    BY <1>1, <2>1, ErrorIs
  <2> HIDE DEF t, d
  <2>4. /\ PlayersInv' /\ procs'[p] = t /\ \A q \in Players : q # p => procs'[q] = procs[q]
        /\ o'.data = d
    BY <1>1, <2>1, <2>2, <2>3, LeavesKeeps DEF b
  <2>5. t.pc = "close" /\ t.then = "exit" /\ t.sent = s.sent /\ t.msg = s.msg /\ t.ret = -1
    BY <2>3 DEF Begun
  <2>6. o'.data = o.data
    BY <2>4 DEF d
  <2>7. NumberInv'
    <3>0. NumberInv
      BY <1>0
    <3>1. CASE p = "parent"
      <4>1. Ping' = t /\ Pong' = Pong /\ Ping = s
        BY <2>4, <3>1 DEF Ping, Pong, Players, s
      <4> QED
        BY <2>5, <2>6, <3>0, <4>1 DEF NumberInv
    <3>2. CASE p = "child"
      <4>1. Ping' = Ping /\ Pong' = t /\ Pong = s
        BY <2>4, <3>2 DEF Ping, Pong, Players, s
      <4> QED
        BY <2>5, <2>6, <3>0, <4>1 DEF NumberInv
    <3> QED
      BY <3>1, <3>2 DEF Players
  <2> QED
    BY <2>4, <2>7 DEF PingPongInv
<1>5. CASE /\ PingPong!CanRead(o, p, PingPong!From(p)) /\ o' = PingPong!Read(o, p, PingPong!From(p))
           /\ procs' = [procs EXCEPT ![p] =
                LET s == [@ EXCEPT !.msg = PingPong!Next1(o, p, PingPong!From(p))]
                IN IF p = "parent" THEN PingPong!Closing(s, b, "wait") ELSE [s EXCEPT !.pc = "write"]]
  <2> DEFINE s == [procs[p] EXCEPT !.msg = Head(o.data[k])]
             d == [o.data EXCEPT ![k] = Tail(@)]
  <2>1. o.data[k] # <<>> /\ PingPong!Next1(o, p, PingPong!From(p)) = Head(o.data[k])
    BY <1>2, <1>5 DEF PingPong!CanRead, PingPong!PipeOf, PingPong!Next1
  <2>2. PingPong!Read(o, p, PingPong!From(p)) = [fds |-> o.fds, data |-> d]
    BY <1>0, <1>2, CallsOfPlayers
  <2>3. /\ Head(o.data[k]) = Ping.sent /\ Ping.sent \in Message
        /\ d \in [Pipe -> Seq(Message)] /\ \A j \in {1, 2} : \A i \in DOMAIN d[j] : d[j][i] = Ping.sent
    <3> HIDE DEF k
    <3>1. k \in {1, 2} /\ o.data[k] # <<>>
      BY <1>0, <2>1
    <3> QED
      BY <3>1, TakenIs
  <2>4. /\ s \in Players1 /\ s.msg = Ping.sent /\ s.sent = procs[p].sent /\ s.then = procs[p].then
        /\ s.ret = procs[p].ret
    BY <1>1, <2>3 DEF Players1
  <2>5. procs' = [procs EXCEPT ![p] = IF p = "parent" THEN PingPong!Closing(s, b, "wait")
                                      ELSE [s EXCEPT !.pc = "write"]]
    BY <1>1, <1>5, <2>1
  <2>6. CASE p = "parent"
    <3> DEFINE t == PingPong!Closing(s, b, "wait")
    <3>1. GoesOn(p, t, d)
      BY <1>5, <2>2, <2>5, <2>6 DEF GoesOn
    <3> HIDE DEF s, b, d, k
    <3>2. Begun(t, s, b, "wait")
      BY <1>1, <2>4, ClosingIs
    <3> HIDE DEF t
    <3>3. d \in [Pipe -> Seq(Message)]
      BY <2>3
    <3>4. /\ PlayersInv' /\ procs'[p] = t /\ \A q \in Players : q # p => procs'[q] = procs[q]
          /\ o'.data = d
      BY <1>1, <2>4, <2>6, <3>1, <3>2, <3>3, LeavesKeeps DEF b
    <3>5. Ping' = t /\ Pong' = Pong /\ Ping = procs[p]
      BY <2>6, <3>4 DEF Ping, Pong, Players
    <3>6. t.sent = Ping.sent /\ t.msg = Ping.sent /\ t.pc = "close" /\ t.then = "wait" /\ Ping.sent # None
      BY <2>3, <2>4, <3>2, <3>5 DEF Begun, PingPongConstants
    <3>7. NumberInv'
      <4>1. NumberInv /\ \A j \in {1, 2} : \A i \in DOMAIN o'.data[j] : o'.data[j][i] = Ping.sent
        BY <1>0, <2>3, <3>4
      <4> QED
        BY <3>5, <3>6, <4>1 DEF NumberInv
    <3> QED
      BY <3>4, <3>7 DEF PingPongInv
  <2>7. CASE p = "child"
    <3> DEFINE t == [s EXCEPT !.pc = "write"]
    <3>1. GoesOn(p, t, d)
      BY <1>5, <2>2, <2>5, <2>7 DEF GoesOn
    <3>2. t \in Players1 /\ t.pc = "write" /\ t.msg = s.msg /\ t.then = s.then
      <4> HIDE DEF s
      <4> QED
        BY <2>4 DEF Players1, Places
    <3> HIDE DEF s, b, d, k, t
    <3>3. FdsRight(p, t, o.fds[p]) /\ t.pc \in Places(p)
      <4>1. Opened(o.fds[p]) = Uses(p)
        BY <1>0, <1>1, EndsInUse
      <4> QED
        BY <2>7, <3>2, <4>1 DEF FdsRight, Places
    <3>4. t.then \in IF p = "parent" THEN {"write", "wait", "exit"} ELSE {"read", "exit"}
      BY <1>0, <2>4, <3>2, ThenOf
    <3>5. d \in [Pipe -> Seq(Message)]
      BY <2>3
    <3>6. /\ PlayersInv' /\ procs'[p] = t /\ \A q \in Players : q # p => procs'[q] = procs[q]
          /\ o'.data = d
      BY <1>0, <3>1, <3>2, <3>3, <3>4, <3>5, GoesOnKeeps
    <3>7. Ping' = Ping /\ Pong' = t
      BY <2>7, <3>6 DEF Ping, Pong, Players
    <3>8. NumberInv'
      <4>1. NumberInv /\ \A j \in {1, 2} : \A i \in DOMAIN o'.data[j] : o'.data[j][i] = Ping.sent
        BY <1>0, <2>3, <3>6
      <4>2. t.msg = Ping.sent
        BY <2>4, <3>2
      <4> QED
        BY <3>7, <4>1, <4>2 DEF NumberInv
    <3> QED
      BY <3>6, <3>8 DEF PingPongInv
  <2> QED
    BY <2>6, <2>7 DEF Players
<1> QED
  BY <1>4, <1>5 DEF PingPong!ReadMessage, PingPong!Parent

LEMMA WriteKeeps ==
  ASSUME PingPongConstants, PingPongInv, NEW p \in Players, PingPong!WriteMessage(p)
  PROVE  PingPongInv'
<1>0. PlayersInv /\ procs[p].pc = "write" /\ procs \in [Players -> Players1]
  BY DEF PingPongInv, PingPong!WriteMessage, PingPong!At, PlayersInv
<1>1. CASE PingPong!Dies(p)
  BY <1>1, DiesKeeps
<1>2. ASSUME NEW m \in Message, p = "child" => m = procs[p].msg,
             o' = PingPong!Write(o, p, PingPong!To(p), m),
             procs' = [procs EXCEPT ![p] = IF p = "parent" THEN [@ EXCEPT !.pc = "read", !.sent = m]
                                           ELSE PingPong!Closing(@, PingPong!Both(p), "exit")]
      PROVE  PingPongInv'
  <2>1. o.fds[p][PingPong!To(p)][2] = IF p = "parent" THEN 1 ELSE 2
    BY <1>0, EndsInUse
  <2>2. o' = [fds |-> o.fds, data |-> [o.data EXCEPT ![IF p = "parent" THEN 1 ELSE 2] = Append(@, m)]]
    BY <1>0, <1>2, <2>1, CallsOfPlayers
  <2>3. CASE p = "parent"
    <3> DEFINE s == [Ping EXCEPT !.pc = "read", !.sent = m]
    <3>1. GoesOn("parent", s, [o.data EXCEPT ![1] = Append(@, m)])
      BY <1>0, <1>2, <2>2, <2>3 DEF GoesOn, Ping
    <3>2. Ping.pc = "write" /\ s = [Ping EXCEPT !.pc = "read", !.sent = m]
      BY <1>0, <2>3 DEF Ping
    <3> HIDE DEF s
    <3> QED
      BY <3>1, <3>2, SendKeeps
  <2>4. CASE p = "child"
    <3> DEFINE s == PingPong!Closing(Pong, PingPong!Both("child"), "exit")
    <3>1. Pong.msg = m /\ Pong.pc = "write" /\ Pong \in Players1
      BY <1>0, <1>2, <2>4 DEF Pong
    <3>2. GoesOn("child", s, [o.data EXCEPT ![2] = Append(@, Pong.msg)])
      BY <1>0, <1>2, <2>2, <2>4, <3>1 DEF GoesOn, Pong
    <3>3. Begun(s, Pong, PingPong!Both("child"), "exit")
      BY <2>4, <3>1, BothIs, ClosingIs
    <3> HIDE DEF s
    <3> QED
      BY <3>1, <3>2, <3>3, AnswerKeeps
  <2> QED
    BY <2>3, <2>4 DEF Players
<1>3. QED
  BY <1>1, <1>2 DEF PingPong!WriteMessage, PingPong!Parent, PingPong!Child

LEMMA PlayersWait ==
  ASSUME PingPongConstants, PingPongInv, PingPong!Wait PROVE PingPongInv'
<1> DEFINE s == [Ping EXCEPT !.pc = "exit"]
           t == [Pong EXCEPT !.pc = "gone"]
           S == [p \in Players |-> IF p = "parent" THEN s ELSE t]
           T == o.fds
           d == o.data
<1>0. /\ PlayersInv /\ NumberInv /\ procs \in [Players -> Players1] /\ "parent" \in Players
      /\ "child" \in Players /\ "parent" # "child"
  BY DEF PingPongInv, PlayersInv, Players
<1>1. /\ Ping.pc = "wait" /\ Pong.pc = "zombie" /\ o' = o
      /\ procs' = [procs EXCEPT !["parent"].pc = "exit", !["child"].pc = "gone"]
  BY DEF PingPong!Wait, PingPong!At, PingPong!Parent, PingPong!Child, Ping, Pong
<1>2. procs' = S
  BY <1>0, <1>1 DEF Ping, Pong, Players
<1>3. Ping \in Players1 /\ Pong \in Players1
  BY <1>0 DEF Ping, Pong
<1>4. /\ s \in Players1 /\ s.pc = "exit" /\ s.sent = Ping.sent /\ s.msg = Ping.msg /\ s.ret = Ping.ret
      /\ s.then = Ping.then
  BY <1>3 DEF Players1, Places
<1>5. t \in Players1 /\ t.pc = "gone" /\ t.msg = Pong.msg /\ t.then = Pong.then
  BY <1>3 DEF Players1, Places
<1>6. o' = [fds |-> T, data |-> d] /\ T \in [Players -> Tables] /\ d \in [Pipe -> Seq(Message)]
  BY <1>0, <1>1, CallsOfPlayers
<1>7. Opened(T["parent"]) = {} /\ Opened(T["child"]) = {}
  BY <1>0, <1>1 DEF PlayersInv, FdsRight, Ping, Pong
<1> HIDE DEF s, t, T, d
<1>8. S \in [Players -> Players1] /\ S["parent"] = s /\ S["child"] = t
  BY <1>0, <1>4, <1>5
<1>9. \A p \in Players : /\ S[p].pc \in Places(p) /\ FdsRight(p, S[p], T[p])
                         /\ S[p].then \in IF p = "parent" THEN {"write", "wait", "exit"} ELSE {"read", "exit"}
  <2>1. FdsRight("parent", s, T["parent"]) /\ s.pc \in Places("parent")
    BY <1>4, <1>7 DEF FdsRight, Places
  <2>2. FdsRight("child", t, T["child"]) /\ t.pc \in Places("child")
    BY <1>0, <1>5, <1>7 DEF FdsRight, Places
  <2>3. s.then \in {"write", "wait", "exit"} /\ t.then \in {"read", "exit"}
    BY <1>0, <1>4, <1>5, ThenOf DEF Ping, Pong
  <2> HIDE DEF S
  <2> QED
    BY <1>0, <1>8, <2>1, <2>2, <2>3 DEF Players
<1> HIDE DEF S
<1>10. PlayersInv' /\ Ping' = s /\ Pong' = t /\ o'.data = d
  BY <1>0, <1>2, <1>6, <1>8, <1>9, BothPlayers
<1>11. NumberInv'
  BY <1>0, <1>1, <1>4, <1>5, <1>10 DEF NumberInv, d
<1> QED
  BY <1>10, <1>11 DEF PingPongInv

-----------------------------------------------------------------------------
(* primes                                                                  *)

CONSTANTS MAX, Chain, Terminal
VARIABLE buffer

Sieve == INSTANCE Sieve WITH self <- procs, Proc <- Chain, TTY <- Terminal

\* Processes are numbered from 0 on without a gap, and descriptors 0 to 2, the end
\* that a process reads from and a pipe have room.
SieveConstants ==
  /\ Chain \subseteq Nat /\ 0 \in Chain /\ \A p \in Chain : p # 0 => p - 1 \in Chain
  /\ Chain \subseteq Pipe /\ NFD \in Nat /\ NFD >= 6 /\ CAP \in Nat /\ MAX \in Nat
  /\ None \notin {<<"tty">>} \cup Sieve!Ends

\* Descriptors that are not standard, and those of a process that hold something
Links == 3 .. NFD - 1
Linked(fd) == {f \in Links : fd[f] # None}

Rows ==
  {fd \in [Sieve!FD -> Sieve!Ends \cup {<<"tty">>, None}] :
     \A f \in Sieve!FD : IF f < 3 THEN fd[f] \notin Sieve!Ends ELSE fd[f] # <<"tty">>}

Numbers == {q \in Seq(2 .. MAX) : Len(q) =< CAP}

Idle == {"none", "zombie", "gone"}

Stages ==
  [pc : Idle \cup {"pipe", "fork", "close", "generate", "first", "print", "filter", "wait", "exit"},
   todo : Seq(Links), then : {"generate", "first", "filter", "wait", "exit"},
   in : Links \cup {None}, out : Links \cup {None}, n : 0 .. MAX, prime : 0 .. MAX,
   frames : Seq(Links), ret : Int]

ToClose(s) == {s.todo[i] : i \in DOMAIN s.todo}
FrameFds(s) == {s.frames[i] : i \in DOMAIN s.frames}

\* Where a process is, or will be when it has closed what it has to
Goal(s) == IF s.pc = "close" THEN s.then ELSE s.pc

InOf(p, s) == IF p = 0 THEN {} ELSE {s.in}

\* What a process works with: the end it reads from, of its parent's pipe, and the one
\* that it writes in, of its own.
Stay(p, s) ==
  CASE Goal(s) \in {"pipe", "first", "print"} -> InOf(p, s)
    [] Goal(s) \in {"fork", "generate", "filter"} -> InOf(p, s) \cup {s.out}
    [] OTHER -> {}

\* Its ends: those that it works with, and while it has forked or forks, those that
\* it is about to close.
LinksRight(p, s, fd) ==
  /\ Stay(p, s) \subseteq Linked(fd)
  /\ s.pc \notin {"fork", "close"} => Linked(fd) = Stay(p, s)
  /\ s.pc = "close" => Linked(fd) \subseteq Stay(p, s) \cup ToClose(s) /\ Stay(p, s) \cap ToClose(s) = {}
  /\ s.pc = "fork" => \E f \in Links \ Stay(p, s) : fd[f] = Sieve!RdEnd(p) /\ Linked(fd) = Stay(p, s) \cup {f}
  /\ p # 0 /\ s.in \in Stay(p, s) => fd[s.in] = Sieve!RdEnd(p - 1)
  /\ Goal(s) \in {"fork", "generate", "filter"} => fd[s.out] = Sieve!WrEnd(p) /\ s.out \notin InOf(p, s)
  /\ s.pc = "close" => \A f \in Linked(fd) :
       \/ fd[f] \in {Sieve!WrEnd(p), Sieve!RdEnd(p)}
       \/ p > 0 /\ fd[f] \in {Sieve!RdEnd(p - 1), Sieve!WrEnd(p - 1)}
       \/ p > 1 /\ fd[f] = Sieve!RdEnd(p - 2)

StageRight(p, s, fd) ==
  /\ LinksRight(p, s, fd)
  /\ p # 0 => s.n # 1
  /\ Goal(s) \in {"filter", "first", "print"} => p # 0
  /\ Goal(s) = "generate" => p = 0
  /\ s.pc \notin Idle => /\ \A f \in 0 .. 2 : fd[f] = <<"tty">>
                         /\ p # 0 => s.in \in FrameFds(s)

SieveInv ==
  /\ o \in [fds : [Chain -> Rows], data : [Pipe -> Numbers]]
  /\ procs \in [Chain -> Stages]
  /\ \A p \in Chain : StageRight(p, procs[p], o.fds[p])

LEMMA SieveFacts ==
  ASSUME SieveConstants
  PROVE  /\ Sieve!FD = 0 .. NFD - 1 /\ Links \subseteq Sieve!FD /\ 0 .. 2 \subseteq Sieve!FD
         /\ <<"tty">> # None
         /\ <<"tty">> \notin Sieve!Ends
         /\ None \notin Sieve!Ends
         /\ \A k \in Pipe : Sieve!RdEnd(k) \in Sieve!Ends /\ Sieve!WrEnd(k) \in Sieve!Ends
         /\ \A j, k : /\ (Sieve!RdEnd(j) = Sieve!RdEnd(k) <=> j = k)
                      /\ (Sieve!WrEnd(j) = Sieve!WrEnd(k) <=> j = k)
                      /\ Sieve!RdEnd(j) # Sieve!WrEnd(k)
         /\ \A k : Sieve!RdEnd(k)[2] = k /\ Sieve!WrEnd(k)[2] = k
         /\ \A p \in Chain : p \in Nat /\ p \in Pipe /\ (p # 0 => p - 1 \in Chain /\ p - 1 \in Pipe)
<1> USE DEF SieveConstants
<1>1. Sieve!FD = 0 .. NFD - 1 /\ Links \subseteq Sieve!FD /\ 0 .. 2 \subseteq Sieve!FD
  BY DEF Sieve!FD, Links
<1>2. <<"tty">> # None /\ None \notin Sieve!Ends
  OBVIOUS
<1>3. <<"tty">> \notin Sieve!Ends
  <2>1. \A k, d : Len(<<"tty">>) # Len(<<"pipe", k, d>>)
    OBVIOUS
  <2> QED
    BY <2>1 DEF Sieve!Ends
<1>4. \A k \in Pipe : Sieve!RdEnd(k) \in Sieve!Ends /\ Sieve!WrEnd(k) \in Sieve!Ends
  BY DEF Sieve!Ends, Sieve!RdEnd, Sieve!WrEnd
<1>5. \A j, k : /\ (Sieve!RdEnd(j) = Sieve!RdEnd(k) <=> j = k)
                /\ (Sieve!WrEnd(j) = Sieve!WrEnd(k) <=> j = k)
                /\ Sieve!RdEnd(j) # Sieve!WrEnd(k)
  BY DEF Sieve!RdEnd, Sieve!WrEnd
<1>6. \A k : Sieve!RdEnd(k)[2] = k /\ Sieve!WrEnd(k)[2] = k
  BY DEF Sieve!RdEnd, Sieve!WrEnd
<1>7. \A p \in Chain : p \in Nat /\ p \in Pipe /\ (p # 0 => p - 1 \in Chain /\ p - 1 \in Pipe)
  OBVIOUS
<1> QED
  BY <1>1, <1>2, <1>3, <1>4, <1>5, <1>6, <1>7

\* A row in which descriptor f is e
Put(fd, f, e) == [fd EXCEPT ![f] = e]

LEMMA RowChanges ==
  ASSUME SieveConstants, NEW fd \in Rows, NEW f \in Links, NEW e \in Sieve!Ends \cup {None}
  PROVE  LET r == Put(fd, f, e)
         IN /\ r \in Rows /\ r[f] = e /\ \A g \in Sieve!FD : g # f => r[g] = fd[g]
            /\ e = None => Linked(r) = Linked(fd) \ {f}
            /\ e # None => Linked(r) = Linked(fd) \cup {f}
<1> DEFINE r == Put(fd, f, e)
<1>1. /\ fd \in [Sieve!FD -> Sieve!Ends \cup {<<"tty">>, None}]
      /\ \A g \in Sieve!FD : IF g < 3 THEN fd[g] \notin Sieve!Ends ELSE fd[g] # <<"tty">>
  BY DEF Rows
<1>2. f \in Sieve!FD /\ ~(f < 3) /\ e # <<"tty">>
  BY SieveFacts DEF Links
<1>3. r \in [Sieve!FD -> Sieve!Ends \cup {<<"tty">>, None}] /\ r[f] = e /\ \A g \in Sieve!FD : g # f => r[g] = fd[g]
  BY <1>1, <1>2 DEF Put
<1> HIDE DEF r
<1>4. r \in Rows
  BY <1>1, <1>2, <1>3 DEF Rows
<1>5. Linked(r) = IF e = None THEN Linked(fd) \ {f} ELSE Linked(fd) \cup {f}
  <2>1. Links \subseteq Sieve!FD
    BY SieveFacts
  <2> QED
    BY <1>3, <2>1 DEF Linked
<1> QED
  BY <1>3, <1>4, <1>5 DEF r

\* r is the row fd but for descriptor f, which is e and open.
OpenedIn(r, fd, f, e) ==
  /\ r \in Rows /\ r[f] = e /\ \A g \in Sieve!FD : g # f => r[g] = fd[g]
  /\ Linked(r) = Linked(fd) \cup {f}

LEMMA Opens ==
  ASSUME SieveConstants, NEW fd \in Rows, NEW f \in Links, NEW e \in Sieve!Ends
  PROVE  OpenedIn(Put(fd, f, e), fd, f, e)
<1>1. e # None /\ e \in Sieve!Ends \cup {None}
  BY SieveFacts
<1> DEFINE r == Put(fd, f, e)
<1>2. /\ r \in Rows /\ r[f] = e /\ \A g \in Sieve!FD : g # f => r[g] = fd[g]
      /\ e # None => Linked(r) = Linked(fd) \cup {f}
  BY <1>1, RowChanges
<1> HIDE DEF r
<1>3. OpenedIn(r, fd, f, e)
  BY <1>1, <1>2 DEF OpenedIn
<1> QED
  BY <1>3 DEF r

LEMMA EmptyRow ==
  ASSUME SieveConstants
  PROVE  Sieve!NoFds \in Rows /\ Linked(Sieve!NoFds) = {}
<1>1. Sieve!NoFds = [f \in Sieve!FD |-> None]
  BY DEF Sieve!NoFds
<1>2. Links \subseteq Sieve!FD /\ None \notin Sieve!Ends /\ <<"tty">> # None
  BY SieveFacts
<1> QED
  BY <1>1, <1>2 DEF Rows, Linked

LEMMA OpenEnds ==
  ASSUME SieveConstants, NEW fd \in Rows, NEW f \in Sieve!FD, fd[f] \in Sieve!Ends
  PROVE  f \in Linked(fd)
<1>1. ~(f < 3)
  BY DEF Rows
<1>2. f \in Links
  BY <1>1, SieveFacts DEF Links, SieveConstants
<1> QED
  BY <1>2, SieveFacts DEF Linked

\* The pipes when a number was read from k, or x written in it
Taken(d, k) == [d EXCEPT ![k] = Tail(@)]
Added(d, k, x) == [d EXCEPT ![k] = Append(@, x)]

LEMMA CallsOfStages ==
  ASSUME SieveInv, NEW p \in Chain
  PROVE  /\ o = [fds |-> o.fds, data |-> o.data] /\ o.fds \in [Chain -> Rows] /\ o.data \in [Pipe -> Numbers]
         /\ procs \in [Chain -> Stages] /\ StageRight(p, procs[p], o.fds[p])
         /\ \A f : Sieve!Close(o, p, f) =
              [fds |-> [o.fds EXCEPT ![p] = [o.fds[p] EXCEPT ![f] = None]], data |-> o.data]
         /\ Sieve!CloseAll(o, p) = [fds |-> [o.fds EXCEPT ![p] = Sieve!NoFds], data |-> o.data]
         /\ Sieve!Fork(o, p, p + 1) = [fds |-> [o.fds EXCEPT ![p + 1] = o.fds[p]], data |-> o.data]
         /\ \A f : Sieve!Read(o, p, f) = [fds |-> o.fds, data |-> Taken(o.data, o.fds[p][f][2])]
         /\ \A f, x : Sieve!Write(o, p, f, x) = [fds |-> o.fds, data |-> Added(o.data, o.fds[p][f][2], x)]
<1>1. o \in [fds : [Chain -> Rows], data : [Pipe -> Numbers]]
  BY DEF SieveInv
<1>2. o = [fds |-> o.fds, data |-> o.data] /\ o.fds \in [Chain -> Rows] /\ o.data \in [Pipe -> Numbers]
  BY <1>1
<1>3. \A f : Sieve!Close(o, p, f) =
              [fds |-> [o.fds EXCEPT ![p] = [o.fds[p] EXCEPT ![f] = None]], data |-> o.data]
  <2> TAKE f
  <2> DEFINE v == [o.fds EXCEPT ![p] = [o.fds[p] EXCEPT ![f] = None]]
  <2>1. Sieve!Close(o, p, f) = [o EXCEPT !.fds = v]
    BY DEF Sieve!Close
  <2>2. [o EXCEPT !.fds = v] = [fds |-> v, data |-> o.data]
    <3> HIDE DEF v
    <3> QED
      BY <1>1, RecordParts
  <2> QED
    BY <2>1, <2>2
<1>4. Sieve!CloseAll(o, p) = [fds |-> [o.fds EXCEPT ![p] = Sieve!NoFds], data |-> o.data]
  BY <1>1 DEF Sieve!CloseAll
<1>5. Sieve!Fork(o, p, p + 1) = [fds |-> [o.fds EXCEPT ![p + 1] = o.fds[p]], data |-> o.data]
  BY <1>1 DEF Sieve!Fork
<1>6. \A f : Sieve!Read(o, p, f) = [fds |-> o.fds, data |-> Taken(o.data, o.fds[p][f][2])]
  <2> TAKE f
  <2> DEFINE v == Taken(o.data, o.fds[p][f][2])
  <2>1. Sieve!Read(o, p, f) = [o EXCEPT !.data = v]
    BY DEF Sieve!Read, Sieve!PipeOf, Taken
  <2>2. [o EXCEPT !.data = v] = [fds |-> o.fds, data |-> v]
    <3> HIDE DEF v
    <3> QED
      BY <1>1, RecordParts
  <2> QED
    BY <2>1, <2>2
<1>7. \A f, x : Sieve!Write(o, p, f, x) = [fds |-> o.fds, data |-> Added(o.data, o.fds[p][f][2], x)]
  <2> TAKE f, x
  <2> DEFINE v == Added(o.data, o.fds[p][f][2], x)
  <2>1. Sieve!Write(o, p, f, x) = [o EXCEPT !.data = v]
    BY DEF Sieve!Write, Sieve!PipeOf, Added
  <2>2. [o EXCEPT !.data = v] = [fds |-> o.fds, data |-> v]
    <3> HIDE DEF v
    <3> QED
      BY <1>1, RecordParts
  <2> QED
    BY <2>1, <2>2
<1>8. procs \in [Chain -> Stages] /\ StageRight(p, procs[p], o.fds[p])
  BY DEF SieveInv
<1> QED
  BY <1>2, <1>3, <1>4, <1>5, <1>6, <1>7, <1>8

\* A step of one process
Moves(p, s, fd, d) ==
  procs' = [procs EXCEPT ![p] = s] /\ o' = [fds |-> [o.fds EXCEPT ![p] = fd], data |-> d]

LEMMA OneStage ==
  ASSUME SieveInv, NEW p \in Chain, NEW s \in Stages, NEW fd \in Rows, NEW d \in [Pipe -> Numbers],
         Moves(p, s, fd, d), StageRight(p, s, fd)
  PROVE  SieveInv'
<1>1. /\ procs \in [Chain -> Stages] /\ o.fds \in [Chain -> Rows]
      /\ \A q \in Chain : StageRight(q, procs[q], o.fds[q])
  BY CallsOfStages DEF SieveInv
<1>2. procs' \in [Chain -> Stages] /\ procs'[p] = s /\ \A q \in Chain : q # p => procs'[q] = procs[q]
  BY <1>1 DEF Moves
<1>3. /\ o'.fds \in [Chain -> Rows] /\ o'.fds[p] = fd /\ \A q \in Chain : q # p => o'.fds[q] = o.fds[q]
      /\ o' \in [fds : [Chain -> Rows], data : [Pipe -> Numbers]]
  BY <1>1 DEF Moves
<1>4. ASSUME NEW q \in Chain PROVE StageRight(q, procs'[q], o'.fds[q])
  <2>1. CASE q = p
    BY <1>2, <1>3, <2>1
  <2>2. CASE q # p
    BY <1>1, <1>2, <1>3, <2>2
  <2> QED
    BY <2>1, <2>2
<1> QED
  BY <1>2, <1>3, <1>4 DEF SieveInv

\* A step in which no descriptor changes
LEMMA RowStays ==
  ASSUME SieveInv, NEW p \in Chain, NEW s, NEW d, procs' = [procs EXCEPT ![p] = s],
         o' = [fds |-> o.fds, data |-> d]
  PROVE  Moves(p, s, o.fds[p], d)
<1>1. [o.fds EXCEPT ![p] = o.fds[p]] = o.fds
  BY CallsOfStages
<1> QED
  BY <1>1 DEF Moves

LEMMA NoProcIs ==
  ASSUME SieveConstants
  PROVE  /\ Sieve!NoProc \in Stages /\ Sieve!NoProc.pc = "none" /\ Sieve!NoProc.n = 0
         /\ LET s == [Sieve!NoProc EXCEPT !.pc = "pipe"] IN s \in Stages /\ s.pc = "pipe" /\ s.n = 0
<1>1. 0 \in 0 .. MAX
  BY DEF SieveConstants
<1>2. <<>> \in Seq(Links)
  OBVIOUS
<1> DEFINE q == <<>>
<1>3. Sieve!NoProc = [pc |-> "none", todo |-> q, then |-> "exit", in |-> None, out |-> None,
                      n |-> 0, prime |-> 0, frames |-> q, ret |-> 0]
  BY DEF Sieve!NoProc
<1> HIDE DEF q
<1>4. Sieve!NoProc \in Stages /\ Sieve!NoProc.pc = "none" /\ Sieve!NoProc.n = 0
  BY <1>1, <1>2, <1>3 DEF Stages, Idle, q
<1> DEFINE b == Sieve!NoProc
<1> HIDE DEF b
<1>5. b \in Stages /\ b.n = 0
  BY <1>4 DEF b
<1>6. LET s == [b EXCEPT !.pc = "pipe"] IN s \in Stages /\ s.pc = "pipe" /\ s.n = 0
  BY <1>5 DEF Stages, Idle
<1> QED
  BY <1>4, <1>6 DEF b

Stopped(code) == [Sieve!NoProc EXCEPT !.pc = "zombie", !.ret = code]

LEMMA StoppedIs ==
  ASSUME SieveConstants, NEW code \in Int
  PROVE  Stopped(code) \in Stages /\ Stopped(code).pc = "zombie" /\ Stopped(code).n = 0
<1> DEFINE b == Sieve!NoProc
<1>1. b \in Stages /\ b.n = 0
  BY NoProcIs
<1> HIDE DEF b
<1>2. Stopped(code) = [b EXCEPT !.pc = "zombie", !.ret = code]
  BY DEF b, Stopped
<1> QED
  BY <1>1, <1>2 DEF Stages, Idle

\* Who is not there, or no more, has nothing.
LEMMA IdleRight ==
  ASSUME NEW p \in Chain, NEW s \in Stages, s.pc \in Idle, p # 0 => s.n # 1, NEW fd, Linked(fd) = {}
  PROVE  StageRight(p, s, fd)
<1>1. Goal(s) = s.pc /\ Stay(p, s) = {} /\ s.pc \notin {"fork", "close", "pipe", "first", "print", "filter", "generate"}
  BY DEF Goal, Stay, Idle
<1>2. LinksRight(p, s, fd)
  BY <1>1 DEF LinksRight
<1> QED
  BY <1>1, <1>2 DEF StageRight

LEMMA InitSieve ==
  ASSUME SieveConstants, Sieve!Init PROVE SieveInv
<1> DEFINE fd(p) == [f \in Sieve!FD |-> IF p = 0 /\ f < 3 THEN <<"tty">> ELSE None]
           s(p) == IF p = 0 THEN [Sieve!NoProc EXCEPT !.pc = "pipe"] ELSE Sieve!NoProc
<1>1. /\ o = [fds |-> [p \in Chain |-> fd(p)], data |-> [k \in Pipe |-> <<>>]]
      /\ procs = [p \in Chain |-> s(p)]
  BY DEF Sieve!Init
<1>2. ASSUME NEW p \in Chain
      PROVE  fd(p) \in Rows /\ Linked(fd(p)) = {} /\ (p = 0 => \A f \in 0 .. 2 : fd(p)[f] = <<"tty">>)
  <2>1. fd(p) \in [Sieve!FD -> Sieve!Ends \cup {<<"tty">>, None}]
    OBVIOUS
  <2>2. \A f \in Sieve!FD : fd(p)[f] = IF p = 0 /\ f < 3 THEN <<"tty">> ELSE None
    OBVIOUS
  <2>3. \A f \in Links : f \in Sieve!FD /\ ~(f < 3)
    BY SieveFacts DEF Links, SieveConstants
  <2>4. \A f \in 0 .. 2 : f \in Sieve!FD /\ f < 3
    BY SieveFacts
  <2> HIDE DEF fd
  <2>5. fd(p) \in Rows
    BY <2>1, <2>2, SieveFacts DEF Rows
  <2>6. Linked(fd(p)) = {}
    BY <2>2, <2>3 DEF Linked
  <2>7. p = 0 => \A f \in 0 .. 2 : fd(p)[f] = <<"tty">>
    BY <2>2, <2>4
  <2> QED
    BY <2>5, <2>6, <2>7
<1>3. ASSUME NEW p \in Chain PROVE s(p) \in Stages /\ s(p).n = 0 /\ s(p).pc = IF p = 0 THEN "pipe" ELSE "none"
  BY NoProcIs
<1> HIDE DEF fd, s
<1>4. ASSUME NEW p \in Chain PROVE StageRight(p, s(p), fd(p))
  <2>1. CASE p = 0
    <3>1. s(p).pc = "pipe" /\ Goal(s(p)) = "pipe" /\ Stay(p, s(p)) = {}
      BY <1>3, <2>1 DEF Goal, Stay, InOf
    <3>2. LinksRight(p, s(p), fd(p))
      BY <1>2, <2>1, <3>1 DEF LinksRight
    <3> QED
      BY <1>2, <1>3, <2>1, <3>1, <3>2 DEF StageRight
  <2>2. CASE p # 0
    <3>1. s(p).pc \in Idle
      BY <1>3, <2>2 DEF Idle
    <3> QED
      BY <1>2, <1>3, <3>1, IdleRight
  <2> QED
    BY <2>1, <2>2
<1>5. <<>> \in Numbers
  <2>1. <<>> \in Seq(2 .. MAX) /\ Len(<<>>) = 0
    OBVIOUS
  <2> QED
    BY <2>1 DEF Numbers, SieveConstants
<1>6. o \in [fds : [Chain -> Rows], data : [Pipe -> Numbers]]
  <2>1. [p \in Chain |-> fd(p)] \in [Chain -> Rows]
    BY <1>2
  <2>2. [k \in Pipe |-> <<>>] \in [Pipe -> Numbers]
    BY <1>5
  <2> QED
    BY <1>1, <2>1, <2>2
<1>7. procs \in [Chain -> Stages] /\ \A p \in Chain : procs[p] = s(p) /\ o.fds[p] = fd(p)
  BY <1>1, <1>3
<1> QED
  BY <1>4, <1>6, <1>7 DEF SieveInv

\* t is s that begins to close q.
Shuts(t, s, q, then) ==
  /\ t \in Stages /\ t.pc = "close" /\ t.todo = q /\ t.then = then
  /\ t.in = s.in /\ t.out = s.out /\ t.n = s.n /\ t.frames = s.frames

Destinations == {"generate", "first", "filter", "wait", "exit"}

LEMMA ShutsIs ==
  ASSUME NEW s \in Stages, NEW q \in Seq(Links), NEW then \in Destinations
  PROVE  Shuts(Sieve!Closing(s, q, then), s, q, then)
BY DEF Sieve!Closing, Stages, Shuts, Destinations

LEMMA ReturnIs ==
  ASSUME NEW s \in Stages, NEW code \in Int
  PROVE  Shuts(Sieve!Return(s, code), s, s.frames, "exit")
<1> DEFINE r == [s EXCEPT !.ret = code]
           q == s.frames
<1>1. r \in Stages /\ r.in = s.in /\ r.out = s.out /\ r.n = s.n /\ r.frames = q /\ q \in Seq(Links)
  BY DEF Stages
<1>2. Sieve!Return(s, code) = Sieve!Closing(r, q, "exit")
  BY DEF Sieve!Return
<1> HIDE DEF r, q
<1>3. Shuts(Sieve!Closing(r, q, "exit"), r, q, "exit")
  BY <1>1, ShutsIs DEF Destinations
<1> QED
  BY <1>1, <1>2, <1>3 DEF Shuts, q

\* A process that was somewhere and closes whatever it no longer needs.
LEMMA ShutsRight ==
  ASSUME SieveConstants, SieveInv, NEW p \in Chain, procs[p].pc \notin Idle \cup {"close", "fork"},
         NEW t, NEW q \in Seq(Links), NEW then \in Destinations, NEW s, s = procs[p], NEW a \in Stages,
         a.in = s.in, a.frames = s.frames, a.n = s.n, a.out = s.out, Shuts(t, a, q, then),
         then \in {"wait", "exit"}, Linked(o.fds[p]) \subseteq {q[i] : i \in DOMAIN q}
  PROVE  StageRight(p, t, o.fds[p])
<1> DEFINE fd == o.fds[p]
<1>1. StageRight(p, s, fd)
  BY CallsOfStages
<1>2. /\ t.pc = "close" /\ t.then = then /\ Goal(t) = then /\ Stay(p, t) = {}
      /\ ToClose(t) = {q[i] : i \in DOMAIN q}
  BY DEF Shuts, Goal, Stay, ToClose
<1>3. t.in = s.in /\ t.frames = s.frames /\ t.n = s.n
  BY DEF Shuts
<1>4. \A f \in Linked(fd) : \/ fd[f] = Sieve!WrEnd(p)
                            \/ p > 0 /\ fd[f] = Sieve!RdEnd(p - 1)
  <2>1. Linked(fd) = Stay(p, s) /\ Goal(s) = s.pc
    BY <1>1 DEF StageRight, LinksRight, Goal
  <2>2. p \in Nat
    BY SieveFacts
  <2>3. \A f \in Stay(p, s) : (p # 0 /\ f = s.in) \/ (f = s.out /\ Goal(s) \in {"fork", "generate", "filter"})
    BY DEF Stay, InOf
  <2> HIDE DEF fd
  <2> QED
    BY <1>1, <2>1, <2>2, <2>3 DEF StageRight, LinksRight
<1>5. LinksRight(p, t, fd)
  <2> HIDE DEF fd
  <2>1. Linked(fd) \subseteq ToClose(t)
    BY <1>2 DEF fd
  <2> QED
    BY <1>2, <1>4, <2>1 DEF LinksRight
<1>6. p # 0 => s.in \in FrameFds(s)
  BY <1>1 DEF StageRight
<1>7. FrameFds(t) = FrameFds(s)
  BY <1>3 DEF FrameFds
<1> HIDE DEF fd
<1>8. StageRight(p, t, fd)
  BY <1>1, <1>2, <1>3, <1>5, <1>6, <1>7 DEF StageRight
<1> QED
  BY <1>8 DEF fd

LEMMA StageClosesOne ==
  ASSUME SieveConstants, SieveInv, NEW p \in Chain, Sieve!CloseOne(p) PROVE SieveInv'
<1> DEFINE s == procs[p]
           fd == o.fds[p]
           d == o.data
<1>1. s \in Stages /\ fd \in Rows /\ d \in [Pipe -> Numbers] /\ StageRight(p, s, fd)
  BY CallsOfStages
<1>2. s.pc = "close" /\ Goal(s) = s.then /\ s.todo \in Seq(Links) /\ s.then \in Destinations
  BY <1>1 DEF Sieve!CloseOne, Sieve!At, Goal, Stages, Destinations
<1>3. /\ Stay(p, s) \subseteq Linked(fd) /\ Stay(p, s) \cap ToClose(s) = {}
      /\ Linked(fd) \subseteq Stay(p, s) \cup ToClose(s)
  BY <1>1, <1>2 DEF StageRight, LinksRight
<1>4. CASE s.todo = <<>>
  <2> DEFINE t == [s EXCEPT !.pc = s.then]
  <2>1. t \in Stages /\ t.pc = s.then /\ t.in = s.in /\ t.out = s.out /\ t.n = s.n /\ t.frames = s.frames
    BY <1>1, <1>2 DEF Stages, Destinations
  <2>2. Moves(p, t, fd, d)
    <3>1. procs' = [procs EXCEPT ![p] = t] /\ o' = o
      BY <1>4 DEF Sieve!CloseOne
    <3>2. o' = [fds |-> o.fds, data |-> d]
      BY <3>1, CallsOfStages
    <3> HIDE DEF t, d
    <3> QED
      BY <3>1, <3>2, RowStays
  <2>3. ToClose(s) = {}
    <3>1. DOMAIN s.todo = {}
      BY <1>4
    <3> QED
      BY <3>1 DEF ToClose
  <2>4. Linked(fd) = Stay(p, s)
    <3> HIDE DEF s, fd
    <3> QED
      BY <1>3, <2>3
  <2> HIDE DEF s, fd, d, t
  <2>5. Goal(t) = Goal(s) /\ Stay(p, t) = Stay(p, s) /\ InOf(p, t) = InOf(p, s) /\ FrameFds(t) = FrameFds(s)
    BY <1>2, <2>1 DEF Goal, Stay, InOf, FrameFds, Destinations
  <2>6. LinksRight(p, t, fd)
    <3>1. t.pc \notin {"close", "fork"}
      BY <1>2, <2>1 DEF Destinations
    <3>2. /\ p # 0 /\ s.in \in Stay(p, s) => fd[s.in] = Sieve!RdEnd(p - 1)
          /\ Goal(s) \in {"fork", "generate", "filter"} => fd[s.out] = Sieve!WrEnd(p) /\ s.out \notin InOf(p, s)
      BY <1>1 DEF StageRight, LinksRight
    <3> QED
      BY <2>1, <2>4, <2>5, <3>1, <3>2 DEF LinksRight
  <2>7. StageRight(p, t, fd)
    BY <1>1, <1>2, <2>1, <2>5, <2>6 DEF StageRight, Idle
  <2> QED
    BY <1>1, <2>1, <2>2, <2>7, OneStage
<1>5. CASE s.todo # <<>>
  <2> DEFINE f == Head(s.todo)
             t == [s EXCEPT !.todo = Tail(s.todo)]
             e == [fd EXCEPT ![f] = None]
  <2>1. Tail(s.todo) \in Seq(Links) /\ f \in Links
    BY <1>2, <1>5
  <2>2. /\ t \in Stages /\ t.pc = "close" /\ t.then = s.then /\ t.in = s.in /\ t.out = s.out /\ t.n = s.n
        /\ t.frames = s.frames /\ t.todo = Tail(s.todo)
    BY <1>1, <1>2, <2>1 DEF Stages
  <2>3. Moves(p, t, e, d)
    <3>1. procs' = [procs EXCEPT ![p] = t] /\ o' = Sieve!Close(o, p, f)
      BY <1>5 DEF Sieve!CloseOne
    <3> QED
      BY <3>1, CallsOfStages DEF Moves
  <2>4. ToClose(s) = ToClose(t) \cup {f}
    <3> DEFINE q == s.todo
    <3>1. q \in Seq(Links) /\ q # <<>> /\ ToClose(s) = {q[i] : i \in DOMAIN q}
      BY <1>2, <1>5 DEF ToClose
    <3>2. ToClose(t) = {Tail(q)[i] : i \in DOMAIN Tail(q)} /\ f = Head(q)
      BY <2>2 DEF ToClose
    <3> HIDE DEF q
    <3>3. {q[i] : i \in DOMAIN q} = {Tail(q)[i] : i \in DOMAIN Tail(q)} \cup {Head(q)}
      BY <3>1, AllOfIt
    <3> HIDE DEF f, t, s
    <3> QED
      BY <3>1, <3>2, <3>3
  <2>5. e \in Rows /\ Linked(e) = Linked(fd) \ {f} /\ \A g \in Sieve!FD : g # f => e[g] = fd[g]
    <3> HIDE DEF fd, f
    <3>1. e = Put(fd, f, None) /\ None \in Sieve!Ends \cup {None}
      BY DEF Put
    <3> HIDE DEF e
    <3> QED
      BY <1>1, <2>1, <3>1, RowChanges
  <2> HIDE DEF s, fd, d, t, e, f
  <2>6. Goal(t) = Goal(s) /\ Stay(p, t) = Stay(p, s) /\ InOf(p, t) = InOf(p, s) /\ FrameFds(t) = FrameFds(s)
    BY <1>2, <2>2 DEF Goal, Stay, InOf, FrameFds
  <2>7. f \notin Stay(p, s) /\ Linked(e) \subseteq Sieve!FD /\ \A g \in Linked(e) : g \in Linked(fd) /\ e[g] = fd[g]
    <3>1. Links \subseteq Sieve!FD
      BY SieveFacts
    <3> QED
      BY <1>3, <2>4, <2>5, <3>1 DEF Linked
  <2>8. \A g \in Stay(p, s) : e[g] = fd[g]
    BY <1>3, <2>5, <2>7
  <2>9. LinksRight(p, t, e)
    <3>1. /\ p # 0 /\ s.in \in Stay(p, s) => e[s.in] = Sieve!RdEnd(p - 1)
      BY <1>1, <2>8 DEF StageRight, LinksRight
    <3>2. Goal(s) \in {"fork", "generate", "filter"} => e[s.out] = Sieve!WrEnd(p) /\ s.out \notin InOf(p, s)
      <4>1. Goal(s) \in {"fork", "generate", "filter"} => s.out \in Stay(p, s)
        BY DEF Stay
      <4> QED
        BY <1>1, <2>8, <4>1 DEF StageRight, LinksRight
    <3>3. Stay(p, s) \subseteq Linked(e) /\ Stay(p, s) \cap ToClose(t) = {} /\ Linked(e) \subseteq Stay(p, s) \cup ToClose(t)
      BY <1>3, <2>4, <2>5, <2>7
    <3>4. \A g \in Linked(e) :
             \/ e[g] \in {Sieve!WrEnd(p), Sieve!RdEnd(p)}
             \/ p > 0 /\ e[g] \in {Sieve!RdEnd(p - 1), Sieve!WrEnd(p - 1)}
             \/ p > 1 /\ e[g] = Sieve!RdEnd(p - 2)
      BY <1>1, <1>2, <2>7 DEF StageRight, LinksRight
    <3>5. /\ p # 0 /\ t.in \in Stay(p, t) => e[t.in] = Sieve!RdEnd(p - 1)
          /\ Goal(t) \in {"fork", "generate", "filter"} => e[t.out] = Sieve!WrEnd(p) /\ t.out \notin InOf(p, t)
      BY <2>2, <2>6, <3>1, <3>2
    <3>6. Stay(p, t) \subseteq Linked(e) /\ Stay(p, t) \cap ToClose(t) = {} /\ Linked(e) \subseteq Stay(p, t) \cup ToClose(t)
      BY <2>6, <3>3
    <3>7. t.pc = "close"
      BY <2>2
    <3> QED
      BY <3>4, <3>5, <3>6, <3>7 DEF LinksRight
  <2>10. \A g \in 0 .. 2 : e[g] = fd[g]
    <3>1. \A g \in 0 .. 2 : g \in Sieve!FD
      BY SieveFacts
    <3>2. \A g \in 0 .. 2 : g # f
      BY <2>1 DEF Links
    <3> QED
      BY <2>5, <3>1, <3>2
  <2>11. StageRight(p, t, e)
    BY <1>1, <1>2, <2>2, <2>6, <2>9, <2>10 DEF StageRight, Idle
  <2> QED
    BY <1>1, <2>2, <2>3, <2>5, <2>11, OneStage
<1> QED
  BY <1>4, <1>5

\* Who exits or is killed leaves nothing open.
Stops(p, code) == procs' = [procs EXCEPT ![p] = Stopped(code)] /\ o' = Sieve!CloseAll(o, p)

LEMMA StopKeeps ==
  ASSUME SieveConstants, SieveInv, NEW p \in Chain, NEW code \in Int, Stops(p, code)
  PROVE  SieveInv'
<1> DEFINE s == Stopped(code)
<1>1. s \in Stages /\ s.pc \in Idle /\ s.n = 0
  BY StoppedIs DEF Idle
<1> DEFINE e == Sieve!NoFds
           d == o.data
<1>2. e \in Rows /\ Linked(e) = {} /\ d \in [Pipe -> Numbers]
  BY EmptyRow, CallsOfStages
<1>3. Moves(p, s, e, d)
  BY CallsOfStages DEF Stops, Moves
<1> HIDE DEF e, d, s
<1>4. StageRight(p, s, e)
  BY <1>1, <1>2, IdleRight
<1> QED
  BY <1>1, <1>2, <1>3, <1>4, OneStage

\* A process begins to close what it has
BeginsToShut(p, t) == procs' = [procs EXCEPT ![p] = t] /\ o' = o

LEMMA ShutsKeeps ==
  ASSUME SieveConstants, SieveInv, NEW p \in Chain, procs[p].pc \notin Idle \cup {"close", "fork"},
         NEW t, NEW q \in Seq(Links), NEW then \in {"wait", "exit"}, Shuts(t, procs[p], q, then),
         Linked(o.fds[p]) \subseteq {q[i] : i \in DOMAIN q}, BeginsToShut(p, t)
  PROVE  SieveInv'
<1> DEFINE fd == o.fds[p]
           d == o.data
           s == procs[p]
<1>1. fd \in Rows /\ d \in [Pipe -> Numbers] /\ s \in Stages /\ t \in Stages /\ then \in Destinations
  BY CallsOfStages DEF Shuts, Destinations
<1>2. Moves(p, t, fd, d)
  <2>1. procs' = [procs EXCEPT ![p] = t] /\ o' = [fds |-> o.fds, data |-> d]
    BY CallsOfStages DEF BeginsToShut
  <2> HIDE DEF d
  <2> QED
    BY <2>1, RowStays
<1>3. StageRight(p, t, fd)
  BY <1>1, ShutsRight
<1> HIDE DEF fd, d
<1> QED
  BY <1>1, <1>2, <1>3, OneStage

\* What an end that a process works with is
LEMMA EndsAtWork ==
  ASSUME SieveConstants, SieveInv, NEW p \in Chain
  PROVE  LET s == procs[p]
             fd == o.fds[p]
         IN /\ s.pc \in {"first", "filter", "pipe", "print"} /\ p # 0 =>
                 fd[s.in] = Sieve!RdEnd(p - 1) /\ fd[s.in][2] = p - 1 /\ p - 1 \in Pipe
            /\ s.pc \in {"fork", "generate", "filter"} =>
                 fd[s.out] = Sieve!WrEnd(p) /\ fd[s.out][2] = p /\ p \in Pipe
            /\ s.pc \in {"first", "filter", "print"} => p # 0
            /\ s.pc \in {"pipe", "first", "print"} => Linked(fd) = InOf(p, s)
            /\ s.pc \in {"generate", "filter"} => Linked(fd) = InOf(p, s) \cup {s.out}
            /\ s.pc \notin Idle => \A f \in InOf(p, s) : f \in {s.frames[i] : i \in DOMAIN s.frames}
<1> DEFINE s == procs[p]
           fd == o.fds[p]
<1>1. StageRight(p, s, fd)
  BY CallsOfStages
<1> HIDE DEF s, fd
<1>2. s.pc # "close" => Goal(s) = s.pc
  BY DEF Goal
<1>3. s.pc \in {"first", "filter", "pipe", "print"} /\ p # 0 => s.in \in Stay(p, s)
  BY <1>2 DEF Stay, InOf
<1>4. s.pc \in {"first", "filter", "pipe", "print"} /\ p # 0 =>
        fd[s.in] = Sieve!RdEnd(p - 1) /\ fd[s.in][2] = p - 1 /\ p - 1 \in Pipe
  BY <1>1, <1>3, SieveFacts DEF StageRight, LinksRight
<1>5. s.pc \in {"fork", "generate", "filter"} => fd[s.out] = Sieve!WrEnd(p) /\ fd[s.out][2] = p /\ p \in Pipe
  BY <1>1, <1>2, SieveFacts DEF StageRight, LinksRight
<1>6. s.pc \in {"first", "filter", "print"} => p # 0
  BY <1>1, <1>2 DEF StageRight
<1>7. /\ s.pc \in {"pipe", "first", "print"} => Linked(fd) = InOf(p, s)
      /\ s.pc \in {"generate", "filter"} => Linked(fd) = InOf(p, s) \cup {s.out}
  BY <1>1, <1>2 DEF StageRight, LinksRight, Stay
<1>8. s.pc \notin Idle => \A f \in InOf(p, s) : f \in {s.frames[i] : i \in DOMAIN s.frames}
  BY <1>1 DEF StageRight, InOf, FrameFds
<1> QED
  BY <1>4, <1>5, <1>6, <1>7, <1>8 DEF s, fd

LEMMA NumbersMove ==
  ASSUME SieveConstants, NEW q \in Numbers
  PROVE  /\ q # <<>> => Head(q) \in 2 .. MAX /\ Tail(q) \in Numbers
         /\ \A n \in 2 .. MAX : Len(q) < CAP => Append(q, n) \in Numbers
<1>1. q \in Seq(2 .. MAX) /\ Len(q) \in Nat /\ Len(q) =< CAP /\ CAP \in Nat
  BY DEF Numbers, SieveConstants
<1>2. ASSUME q # <<>> PROVE Head(q) \in 2 .. MAX /\ Tail(q) \in Numbers
  <2> DEFINE S == 2 .. MAX
  <2>0. q \in Seq(S)
    BY <1>1
  <2> HIDE DEF S
  <2>1. Head(q) \in S /\ Tail(q) \in Seq(S) /\ Len(Tail(q)) = Len(q) - 1
    BY <1>2, <2>0
  <2> QED
    BY <1>1, <2>1 DEF Numbers, S
<1>3. ASSUME NEW n \in 2 .. MAX, Len(q) < CAP PROVE Append(q, n) \in Numbers
  <2>1. Append(q, n) \in Seq(2 .. MAX) /\ Len(Append(q, n)) = Len(q) + 1
    BY <1>1
  <2> QED
    BY <1>1, <1>3, <2>1 DEF Numbers
<1> QED
  BY <1>2, <1>3

Reading == {"first", "print", "pipe"}
Working == {"generate", "filter"}

\* A process goes on with the ends it has.
LEMMA WorksOn ==
  ASSUME NEW p \in Chain, NEW s, NEW t, NEW fd, StageRight(p, s, fd),
         \/ s.pc \in Reading /\ t.pc \in Reading
         \/ s.pc \in Working /\ t.pc = s.pc,
         t.in = s.in, t.out = s.out, t.frames = s.frames, p # 0 => t.n # 1,
         t.pc \in {"first", "print", "filter"} => p # 0
  PROVE  StageRight(p, t, fd)
<1>1. Goal(s) = s.pc /\ Goal(t) = t.pc /\ s.pc \notin Idle \cup {"close", "fork"} /\ t.pc \notin Idle \cup {"close", "fork"}
  BY DEF Goal, Reading, Working, Idle
<1>2. InOf(p, t) = InOf(p, s) /\ FrameFds(t) = FrameFds(s)
  BY DEF InOf, FrameFds
<1>3. Stay(p, t) = Stay(p, s)
  <2>1. CASE s.pc \in Reading /\ t.pc \in Reading
    BY <1>1, <1>2, <2>1 DEF Stay, Reading
  <2>2. CASE s.pc \in Working /\ t.pc = s.pc
    BY <1>1, <1>2, <2>2 DEF Stay, Working
  <2> QED
    BY <2>1, <2>2
<1>4. /\ Stay(p, s) \subseteq Linked(fd) /\ Linked(fd) = Stay(p, s)
      /\ p # 0 /\ s.in \in Stay(p, s) => fd[s.in] = Sieve!RdEnd(p - 1)
      /\ s.pc \in Working => fd[s.out] = Sieve!WrEnd(p) /\ s.out \notin InOf(p, s)
  BY <1>1 DEF StageRight, LinksRight, Working
<1>5. t.pc \in {"fork", "generate", "filter"} => s.pc \in Working
  BY DEF Reading, Working
<1>6. LinksRight(p, t, fd)
  BY <1>1, <1>2, <1>3, <1>4, <1>5 DEF LinksRight
<1>7. t.pc = "generate" => p = 0
  BY <1>1 DEF StageRight, Reading, Working
<1> QED
  BY <1>1, <1>2, <1>6, <1>7 DEF StageRight

\* It goes on as t, and the pipes as d.
StepsTo(p, t, d) == procs' = [procs EXCEPT ![p] = t] /\ o' = [fds |-> o.fds, data |-> d]

LEMMA WorkKeeps ==
  ASSUME SieveConstants, SieveInv, NEW p \in Chain, NEW t \in Stages, NEW d \in [Pipe -> Numbers], StepsTo(p, t, d),
         \/ procs[p].pc \in Reading /\ t.pc \in Reading
         \/ procs[p].pc \in Working /\ t.pc = procs[p].pc,
         t.in = procs[p].in, t.out = procs[p].out, t.frames = procs[p].frames, p # 0 => t.n # 1,
         t.pc \in {"first", "print", "filter"} => p # 0
  PROVE  SieveInv'
<1> DEFINE s == procs[p]
           fd == o.fds[p]
<1>1. StageRight(p, s, fd) /\ fd \in Rows
  BY CallsOfStages
<1>2. StageRight(p, t, fd)
  <2> HIDE DEF fd
  <2> QED
    BY <1>1, WorksOn
<1>3. Moves(p, t, fd, d)
  BY RowStays DEF StepsTo
<1> HIDE DEF fd
<1> QED
  BY <1>1, <1>2, <1>3, OneStage

LEMMA StageReadsFirst ==
  ASSUME SieveConstants, SieveInv, NEW p \in Chain, Sieve!First(p) PROVE SieveInv'
<1> DEFINE s == procs[p]
           fd == o.fds[p]
           k == p - 1
<1>1. s \in Stages /\ s.pc = "first" /\ o.data \in [Pipe -> Numbers] /\ o = [fds |-> o.fds, data |-> o.data]
  BY CallsOfStages DEF Sieve!First, Sieve!At
<1>2. fd[s.in][2] = k /\ k \in Pipe /\ p # 0 /\ Linked(fd) = InOf(p, s)
  BY <1>1, EndsAtWork
<1>3. CASE procs' = [procs EXCEPT ![p] = Sieve!Return(@, 0)] /\ o' = o
  <2> DEFINE t == Sieve!Return(s, 0)
             q == s.frames
  <2>1. BeginsToShut(p, t)
    BY <1>3, CallsOfStages DEF BeginsToShut
  <2>2. q \in Seq(Links) /\ Linked(fd) \subseteq {q[i] : i \in DOMAIN q}
    <3>1. q \in Seq(Links)
      BY <1>1 DEF Stages
    <3>2. \A f \in InOf(p, s) : f \in {q[i] : i \in DOMAIN q}
      BY <1>1, EndsAtWork DEF Idle
    <3> QED
      BY <1>2, <3>1, <3>2
  <2> HIDE DEF t
  <2>3. Shuts(t, s, q, "exit")
    BY <1>1, ReturnIs DEF t
  <2> HIDE DEF q
  <2> QED
    BY <1>1, <2>1, <2>2, <2>3, ShutsKeeps DEF Idle
<1>4. CASE /\ Sieve!CanRead(o, p, s.in)
           /\ procs' = [procs EXCEPT ![p].prime = Sieve!Next1(o, p, s.in), ![p].pc = "print"]
           /\ o' = Sieve!Read(o, p, s.in)
  <2> DEFINE t == [s EXCEPT !.prime = Head(o.data[k]), !.pc = "print"]
             d == Taken(o.data, k)
  <2>1. o.data[k] # <<>> /\ Sieve!Next1(o, p, s.in) = Head(o.data[k])
    BY <1>2, <1>4 DEF Sieve!CanRead, Sieve!PipeOf, Sieve!Next1
  <2>2. Head(o.data[k]) \in 2 .. MAX /\ Tail(o.data[k]) \in Numbers
    <3>1. o.data[k] \in Numbers
      BY <1>1, <1>2
    <3> QED
      BY <2>1, <3>1, NumbersMove
  <2>3. d \in [Pipe -> Numbers]
    BY <1>1, <1>2, <2>2 DEF Taken
  <2>4. t \in Stages /\ t.pc = "print" /\ t.in = s.in /\ t.out = s.out /\ t.frames = s.frames /\ t.n = s.n
    <3>1. Head(o.data[k]) \in 0 .. MAX
      BY <2>2 DEF SieveConstants
    <3> QED
      BY <1>1, <3>1 DEF Stages
  <2>5. StepsTo(p, t, d)
    <3>1. o' = [fds |-> o.fds, data |-> d]
      BY <1>2, <1>4, CallsOfStages
    <3>2. procs' = [procs EXCEPT ![p] = t]
      BY <1>4, <2>1, CallsOfStages
    <3> QED
      BY <3>1, <3>2 DEF StepsTo
  <2>6. p # 0 => s.n # 1
    BY CallsOfStages DEF StageRight
  <2> HIDE DEF t, d
  <2> QED
    BY <1>1, <1>2, <2>3, <2>4, <2>5, <2>6, WorkKeeps DEF Reading
<1> QED
  BY <1>3, <1>4 DEF Sieve!First

LEMMA StagePrints ==
  ASSUME SieveConstants, SieveInv, NEW p \in Chain, Sieve!PrintPrime(p) PROVE SieveInv'
<1> DEFINE s == procs[p]
           t == [s EXCEPT !.pc = "pipe"]
           d == o.data
<1>1. s \in Stages /\ s.pc = "print" /\ d \in [Pipe -> Numbers]
  BY CallsOfStages DEF Sieve!PrintPrime, Sieve!At
<1>2. t \in Stages /\ t.pc = "pipe" /\ t.in = s.in /\ t.out = s.out /\ t.frames = s.frames /\ t.n = s.n
  BY <1>1 DEF Stages
<1>3. StepsTo(p, t, d)
  BY CallsOfStages DEF Sieve!PrintPrime, StepsTo
<1>4. p # 0 => s.n # 1
  BY CallsOfStages DEF StageRight
<1> HIDE DEF t, d
<1> QED
  BY <1>1, <1>2, <1>3, <1>4, WorkKeeps DEF Reading

\* Writing a number, or being killed
LEMMA StageSends ==
  ASSUME SieveConstants, SieveInv, NEW p \in Chain, procs[p].pc \in Working, NEW n \in 2 .. MAX,
         NEW t \in Stages, t.pc = procs[p].pc, t.in = procs[p].in, t.out = procs[p].out,
         t.frames = procs[p].frames, p # 0 => t.n # 1, Sieve!Send(p, n, t)
  PROVE  SieveInv'
<1> DEFINE s == procs[p]
           fd == o.fds[p]
<1>1. s \in Stages /\ o.data \in [Pipe -> Numbers]
  BY CallsOfStages
<1>2. fd[s.out][2] = p /\ p \in Pipe /\ (s.pc = "filter" => p # 0)
  BY EndsAtWork DEF Working
<1>3. CASE Sieve!Killed(p)
  <2>1. Stops(p, -13)
    BY <1>3 DEF Sieve!Killed, Stops, Stopped
  <2> QED
    BY <2>1, StopKeeps
<1>4. CASE /\ Sieve!CanWrite(o, p, s.out) /\ o' = Sieve!Write(o, p, s.out, n)
           /\ procs' = [procs EXCEPT ![p] = t]
  <2> DEFINE d == Added(o.data, p, n)
  <2>1. Len(o.data[p]) < CAP /\ o.data[p] \in Numbers
    BY <1>1, <1>2, <1>4 DEF Sieve!CanWrite, Sieve!PipeOf
  <2>2. d \in [Pipe -> Numbers]
    <3>1. Append(o.data[p], n) \in Numbers
      BY <2>1, NumbersMove
    <3> QED
      BY <1>1, <1>2, <3>1 DEF Added
  <2>3. StepsTo(p, t, d)
    <3> DEFINE f == s.out
    <3>1. fd[f][2] = p /\ o' = Sieve!Write(o, p, f, n) /\ procs' = [procs EXCEPT ![p] = t]
      BY <1>2, <1>4
    <3> HIDE DEF f
    <3>2. Sieve!Write(o, p, f, n) = [fds |-> o.fds, data |-> Added(o.data, fd[f][2], n)]
      BY CallsOfStages
    <3> QED
      BY <3>1, <3>2 DEF StepsTo
  <2> HIDE DEF d
  <2> QED
    BY <1>2, <2>2, <2>3, WorkKeeps DEF Working
<1> QED
  BY <1>3, <1>4 DEF Sieve!Send

LEMMA LeastFree ==
  ASSUME NEW S \in SUBSET Nat, S # {}
  PROVE  Sieve!Least(S) \in S
<1> DEFINE y == CHOOSE x \in S : \A z \in S : x =< z
<1>1. y \in S
  BY Least
<1>2. Sieve!Least(S) = y
  BY DEF Sieve!Least
<1> HIDE DEF y
<1> QED
  BY <1>1, <1>2

\* The descriptors that pipe() gives
LEMMA PipeGives ==
  ASSUME SieveConstants, SieveInv, NEW p \in Chain, procs[p].pc = "pipe"
  PROVE  /\ Sieve!FreeFd(o, p) \in Links /\ Sieve!FreeFd2(o, p) \in Links
         /\ Sieve!FreeFd(o, p) # Sieve!FreeFd2(o, p)
         /\ o.fds[p][Sieve!FreeFd(o, p)] = None /\ o.fds[p][Sieve!FreeFd2(o, p)] = None
<1> DEFINE fd == o.fds[p]
           F == Sieve!FreeFds(o, p)
           a == Sieve!FreeFd(o, p)
           G == F \ {a}
<1>1. F = {f \in Sieve!FD : fd[f] = None} /\ Sieve!FD = 0 .. NFD - 1 /\ NFD \in Nat /\ NFD >= 6
  BY SieveFacts DEF Sieve!FreeFds, SieveConstants
<1>2. Linked(fd) \subseteq {procs[p].in} /\ \A f \in 0 .. 2 : fd[f] = <<"tty">>
  BY EndsAtWork, CallsOfStages DEF StageRight, InOf, Idle
<1>3. <<"tty">> # None
  BY SieveFacts
<1> HIDE DEF fd
<1>4. F \in SUBSET Nat /\ F \subseteq Links /\ \A f \in Links : fd[f] = None => f \in F
  <2> HIDE DEF F
  <2>1. F \in SUBSET Nat
    BY <1>1
  <2>2. ASSUME NEW f \in F PROVE f \in Links
    <3>1. f \notin 0 .. 2
      BY <1>1, <1>2, <1>3, <2>2
    <3> QED
      BY <1>1, <2>2, <3>1 DEF Links
  <2>3. \A f \in Links : fd[f] = None => f \in F
    BY <1>1 DEF Links
  <2> QED
    BY <2>1, <2>2, <2>3
<1>5. 3 \in Links /\ 4 \in Links /\ 5 \in Links
  BY <1>1 DEF Links
<1>6. \A f, g \in Links : f # g => f \in F \/ g \in F
  BY <1>2, <1>4 DEF Linked
<1> HIDE DEF F
<1>7. a \in F
  <2>1. F # {}
    BY <1>5, <1>6
  <2> QED
    BY <1>4, <2>1, LeastFree DEF Sieve!FreeFd, F
<1>8. Sieve!FreeFd2(o, p) \in G
  <2>1. 3 \in F \/ 4 \in F
    BY <1>5, <1>6
  <2>2. 4 \in F \/ 5 \in F
    BY <1>5, <1>6
  <2>3. 3 \in F \/ 5 \in F
    BY <1>5, <1>6
  <2>4. G # {}
    <3> HIDE DEF a
    <3> QED
      BY <2>1, <2>2, <2>3
  <2>5. G \in SUBSET Nat
    BY <1>4
  <2>6. Sieve!FreeFd2(o, p) = Sieve!Least(G)
    BY DEF Sieve!FreeFd2, F
  <2> HIDE DEF G
  <2> QED
    BY <2>4, <2>5, <2>6, LeastFree
<1> HIDE DEF a
<1>9. a \in Links /\ fd[a] = None
  BY <1>1, <1>4, <1>7
<1>10. Sieve!FreeFd2(o, p) \in Links /\ fd[Sieve!FreeFd2(o, p)] = None /\ Sieve!FreeFd2(o, p) # a
  BY <1>1, <1>4, <1>8
<1> QED
  BY <1>9, <1>10 DEF a, fd

LEMMA PipeOfStage ==
  ASSUME SieveInv, NEW p \in Chain, NEW a, NEW b, Sieve!FreeFd(o, p) = a, Sieve!FreeFd2(o, p) = b
  PROVE  Sieve!PipeCall(o, p, p)
           = [fds |-> TwoFds(o.fds, p, a, Sieve!RdEnd(p), b, Sieve!WrEnd(p)),
              data |-> [o.data EXCEPT ![p] = <<>>]]
<1> DEFINE x == Sieve!RdEnd(p)
           y == Sieve!WrEnd(p)
<1>1. Sieve!PipeCall(o, p, p) = TwoEntries(o, p, a, x, b, y, p)
  BY DEF Sieve!PipeCall, TwoEntries
<1>2. o = [fds |-> o.fds, data |-> o.data]
  BY CallsOfStages
<1>3. TwoEntries([fds |-> o.fds, data |-> o.data], p, a, x, b, y, p)
        = [fds |-> TwoFds(o.fds, p, a, x, b, y), data |-> [o.data EXCEPT ![p] = <<>>]]
  BY TwoEntriesAre
<1> QED
  BY <1>1, <1>2, <1>3

LEMMA StageMakesPipe ==
  ASSUME SieveConstants, SieveInv, NEW p \in Chain, Sieve!MakePipe(p) PROVE SieveInv'
<1> DEFINE s == procs[p]
           fd == o.fds[p]
<1>1. s \in Stages /\ s.pc = "pipe" /\ o.data \in [Pipe -> Numbers] /\ fd \in Rows /\ StageRight(p, s, fd)
  BY CallsOfStages DEF Sieve!MakePipe, Sieve!At
<1>2. Linked(fd) = InOf(p, s)
  BY <1>1, EndsAtWork
<1>3. CASE procs' = [procs EXCEPT ![p] = Sieve!Return(@, -1)] /\ o' = o
  <2> DEFINE t == Sieve!Return(s, -1)
             q == s.frames
  <2>1. BeginsToShut(p, t)
    BY <1>3, CallsOfStages DEF BeginsToShut
  <2>2. q \in Seq(Links) /\ Linked(fd) \subseteq {q[i] : i \in DOMAIN q}
    <3>1. q \in Seq(Links)
      BY <1>1 DEF Stages
    <3>2. \A f \in InOf(p, s) : f \in {q[i] : i \in DOMAIN q}
      BY <1>1, EndsAtWork DEF Idle
    <3> QED
      BY <1>2, <3>1, <3>2
  <2> HIDE DEF t
  <2>3. Shuts(t, s, q, "exit")
    BY <1>1, ReturnIs DEF t
  <2> HIDE DEF q
  <2> QED
    BY <1>1, <2>1, <2>2, <2>3, ShutsKeeps DEF Idle
<1>4. CASE /\ o' = Sieve!PipeCall(o, p, p)
           /\ procs' = [procs EXCEPT ![p].pc = "fork", ![p].out = Sieve!FreeFd2(o, p)]
  <2> DEFINE a == Sieve!FreeFd(o, p)
             b == Sieve!FreeFd2(o, p)
             e1 == Put(fd, a, Sieve!RdEnd(p))
             e == Put(e1, b, Sieve!WrEnd(p))
             t == [s EXCEPT !.pc = "fork", !.out = b]
             d == [o.data EXCEPT ![p] = <<>>]
  <2>1. a \in Links /\ b \in Links /\ a # b /\ fd[a] = None /\ fd[b] = None
    BY <1>1, PipeGives
  <2>2. o' = [fds |-> TwoFds(o.fds, p, a, Sieve!RdEnd(p), b, Sieve!WrEnd(p)), data |-> d]
    BY <1>4, PipeOfStage
  <2>3. procs' = [procs EXCEPT ![p] = t]
    BY <1>4, CallsOfStages
  <2>4. t \in Stages /\ t.pc = "fork" /\ t.out = b /\ t.in = s.in /\ t.n = s.n /\ t.frames = s.frames
    <3> HIDE DEF a, b
    <3> QED
      BY <1>1, <2>1 DEF Stages
  <2>5. d \in [Pipe -> Numbers]
    <3>1. <<>> \in Seq(2 .. MAX) /\ Len(<<>>) = 0
      OBVIOUS
    <3>2. <<>> \in Numbers
      BY <3>1 DEF Numbers, SieveConstants
    <3> QED
      BY <1>1, <3>2
  <2> HIDE DEF a, b, fd
  <2>6. Moves(p, t, e, d)
    <3>1. TwoFds(o.fds, p, a, Sieve!RdEnd(p), b, Sieve!WrEnd(p)) = [o.fds EXCEPT ![p] = e]
      BY CallsOfStages DEF TwoFds, Put, fd
    <3> HIDE DEF e, d, t
    <3> QED
      BY <2>2, <2>3, <3>1 DEF Moves
  <2>7. Sieve!RdEnd(p) \in Sieve!Ends /\ Sieve!WrEnd(p) \in Sieve!Ends /\ None \notin Sieve!Ends
    BY SieveFacts
  <2>8. e1 \in Rows /\ e1[a] = Sieve!RdEnd(p) /\ (\A g \in Sieve!FD : g # a => e1[g] = fd[g]) /\ Linked(e1) = Linked(fd) \cup {a}
    <3> DEFINE x == Sieve!RdEnd(p)
    <3>1. x \in Sieve!Ends
      BY <2>7
    <3> HIDE DEF x
    <3>2. OpenedIn(Put(fd, a, x), fd, a, x)
      BY <1>1, <2>1, <3>1, Opens
    <3> QED
      BY <3>2 DEF OpenedIn, x
  <2> HIDE DEF e1
  <2>9. e \in Rows /\ e[b] = Sieve!WrEnd(p) /\ (\A g \in Sieve!FD : g # b => e[g] = e1[g]) /\ Linked(e) = Linked(e1) \cup {b}
    <3> DEFINE x == Sieve!WrEnd(p)
    <3>1. x \in Sieve!Ends
      BY <2>7
    <3> HIDE DEF x
    <3>2. OpenedIn(Put(e1, b, x), e1, b, x)
      BY <2>1, <2>8, <3>1, Opens
    <3> QED
      BY <3>2 DEF OpenedIn, x
  <2> HIDE DEF e, t, d, s
  <2>10. Links \subseteq Sieve!FD /\ a \in Sieve!FD /\ 0 .. 2 \subseteq Sieve!FD /\ 0 .. 2 \cap Links = {}
    BY <2>1, SieveFacts DEF Links
  <2>11. e[a] = Sieve!RdEnd(p) /\ Linked(e) = InOf(p, s) \cup {a, b} /\ a \notin InOf(p, s) /\ b \notin InOf(p, s)
    BY <1>2, <2>1, <2>8, <2>9, <2>10 DEF Linked
  <2>12. Goal(t) = "fork" /\ InOf(p, t) = InOf(p, s) /\ Stay(p, t) = InOf(p, s) \cup {b} /\ FrameFds(t) = FrameFds(s)
    BY <2>4 DEF Goal, InOf, Stay, FrameFds
  <2>13. p # 0 => e[s.in] = Sieve!RdEnd(p - 1)
    <3> SUFFICES ASSUME p # 0 PROVE e[s.in] = Sieve!RdEnd(p - 1)
      OBVIOUS
    <3>1. fd[s.in] = Sieve!RdEnd(p - 1)
      BY <1>1, EndsAtWork DEF s, fd
    <3>2. s.in \in InOf(p, s) /\ s.in \in Links
      BY <1>2 DEF InOf, Linked
    <3> QED
      BY <2>8, <2>9, <2>10, <2>11, <3>1, <3>2
  <2>14. LinksRight(p, t, e)
    <3>1. a \in Links \ Stay(p, t) /\ e[a] = Sieve!RdEnd(p) /\ Linked(e) = Stay(p, t) \cup {a}
      BY <2>1, <2>11, <2>12
    <3>2. e[t.out] = Sieve!WrEnd(p) /\ t.out \notin InOf(p, t)
      BY <2>4, <2>9, <2>11, <2>12
    <3>3. p # 0 => e[t.in] = Sieve!RdEnd(p - 1)
      BY <2>4, <2>13
    <3> QED
      BY <2>4, <3>1, <3>2, <3>3 DEF LinksRight
  <2>15. \A f \in 0 .. 2 : e[f] = <<"tty">>
    <3>1. \A f \in 0 .. 2 : f \in Sieve!FD /\ f # a /\ f # b /\ fd[f] = <<"tty">>
      BY <1>1, <2>1, <2>10 DEF StageRight, Idle
    <3> QED
      BY <2>8, <2>9, <3>1
  <2>16. StageRight(p, t, e)
    BY <1>1, <2>4, <2>12, <2>14, <2>15 DEF StageRight, Idle
  <2> QED
    BY <2>4, <2>5, <2>6, <2>9, <2>16, OneStage
<1> QED
  BY <1>3, <1>4 DEF Sieve!MakePipe

\* The elements of the lists that a process closes
Those(q) == {q[i] : i \in DOMAIN q}

LEMMA ShortLists ==
  ASSUME NEW a \in Links, NEW b \in Links
  PROVE  /\ <<a>> \in Seq(Links) /\ Those(<<a>>) = {a}
         /\ <<a, b>> \in Seq(Links) /\ Those(<<a, b>>) = {a, b}
<1>1. <<a>> \in Seq(Links) /\ <<a, b>> \in Seq(Links)
  OBVIOUS
<1>2. DOMAIN <<a>> = {1} /\ DOMAIN <<a, b>> = {1, 2}
  OBVIOUS
<1>3. Those(<<a>>) = {a}
  BY <1>2 DEF Those
<1>4. Those(<<a, b>>) = {a, b}
  BY <1>2 DEF Those
<1> QED
  BY <1>1, <1>3, <1>4

LEMMA JoinedLists ==
  ASSUME NEW q \in Seq(Links), NEW r \in Seq(Links)
  PROVE  q \o r \in Seq(Links) /\ Those(q \o r) = Those(q) \cup Those(r)
<1>1. /\ q \o r \in Seq(Links) /\ Len(q \o r) = Len(q) + Len(r) /\ Len(q) \in Nat /\ Len(r) \in Nat
      /\ DOMAIN q = 1 .. Len(q) /\ DOMAIN r = 1 .. Len(r) /\ DOMAIN (q \o r) = 1 .. Len(q) + Len(r)
  OBVIOUS
<1>2. \A i \in 1 .. Len(q) + Len(r) : (q \o r)[i] = IF i =< Len(q) THEN q[i] ELSE r[i - Len(q)]
  OBVIOUS
<1> DEFINE s == q \o r
<1> HIDE DEF s
<1>3. ASSUME NEW i \in DOMAIN s PROVE s[i] \in Those(q) \cup Those(r)
  <2>1. CASE i =< Len(q)
    BY <1>1, <1>2, <2>1 DEF s, Those
  <2>2. CASE ~(i =< Len(q))
    <3>1. i - Len(q) \in DOMAIN r /\ s[i] = r[i - Len(q)]
      BY <1>1, <1>2, <2>2 DEF s
    <3> QED
      BY <3>1 DEF Those
  <2> QED
    BY <2>1, <2>2
<1>4. ASSUME NEW i \in DOMAIN q PROVE q[i] \in Those(s)
  <2>1. i \in DOMAIN s /\ s[i] = q[i]
    BY <1>1, <1>2 DEF s
  <2> QED
    BY <2>1 DEF Those
<1>5. ASSUME NEW i \in DOMAIN r PROVE r[i] \in Those(s)
  <2>1. i + Len(q) \in DOMAIN s /\ s[i + Len(q)] = r[i]
    BY <1>1, <1>2 DEF s
  <2> QED
    BY <2>1 DEF Those
<1>6. Those(s) = Those(q) \cup Those(r)
  BY <1>3, <1>4, <1>5 DEF Those
<1> QED
  BY <1>1, <1>6 DEF s

LEMMA StageExits ==
  ASSUME SieveConstants, SieveInv, NEW p \in Chain, Sieve!Exit(p) PROVE SieveInv'
<1>1. procs[p].ret \in Int
  <2>1. procs[p] \in Stages
    BY CallsOfStages
  <2> QED
    BY <2>1 DEF Stages
<1>2. Stops(p, procs[p].ret)
  BY DEF Sieve!Exit, Stops, Stopped
<1> QED
  BY <1>1, <1>2, StopKeeps

LEMMA StageGenerates ==
  ASSUME SieveConstants, SieveInv, NEW p \in Chain, Sieve!Generate(p) PROVE SieveInv'
<1> DEFINE s == procs[p]
           fd == o.fds[p]
<1>1. s \in Stages /\ s.pc = "generate" /\ p = 0 /\ s.n \in 0 .. MAX /\ MAX \in Nat
  <2>1. s \in Stages /\ s.pc = "generate" /\ StageRight(p, s, fd)
    BY CallsOfStages DEF Sieve!Generate, Sieve!At
  <2>2. Goal(s) = "generate"
    BY <2>1 DEF Goal
  <2> QED
    BY <2>1, <2>2 DEF StageRight, Stages, SieveConstants
<1>2. Linked(fd) = {s.out} /\ s.out \in Links
  BY <1>1, EndsAtWork DEF InOf, Linked
<1>3. CASE s.n + 2 > MAX
  <2> DEFINE q == <<s.out>>
             t == Sieve!Closing(s, q, "wait")
  <2>1. BeginsToShut(p, t)
    BY <1>3, CallsOfStages DEF BeginsToShut, Sieve!Generate
  <2>2. q \in Seq(Links) /\ Those(q) = {s.out}
    BY <1>2, ShortLists
  <2> HIDE DEF q
  <2>3. Shuts(t, s, q, "wait")
    BY <1>1, <2>2, ShutsIs DEF Destinations
  <2> HIDE DEF t
  <2>4. Linked(fd) \subseteq {q[i] : i \in DOMAIN q}
    BY <1>2, <2>2 DEF Those
  <2> QED
    BY <1>1, <2>1, <2>2, <2>3, <2>4, ShutsKeeps DEF Idle
<1>4. CASE ~(s.n + 2 > MAX)
  <2> DEFINE t == [s EXCEPT !.n = @ + 1]
             m == s.n + 2
  <2>1. Sieve!Send(p, m, t)
    BY <1>4 DEF Sieve!Generate
  <2>2. t \in Stages /\ t.pc = s.pc /\ t.in = s.in /\ t.out = s.out /\ t.frames = s.frames
    <3>1. s.n + 1 \in 0 .. MAX
      BY <1>1, <1>4
    <3> QED
      BY <1>1, <3>1 DEF Stages
  <2>3. m \in 2 .. MAX
    BY <1>1, <1>4
  <2> HIDE DEF t, m
  <2> QED
    BY <1>1, <2>1, <2>2, <2>3, StageSends DEF Working
<1> QED
  BY <1>3, <1>4

LEMMA StageFilters ==
  ASSUME SieveConstants, SieveInv, NEW p \in Chain, Sieve!Filter(p) PROVE SieveInv'
<1> DEFINE s == procs[p]
           fd == o.fds[p]
           k == p - 1
<1>1. /\ s \in Stages /\ s.pc = "filter" /\ s.n \in 0 .. MAX /\ MAX \in Nat /\ StageRight(p, s, fd)
      /\ o.data \in [Pipe -> Numbers] /\ o = [fds |-> o.fds, data |-> o.data]
  BY CallsOfStages DEF Sieve!Filter, Sieve!At, Stages, SieveConstants
<1>2. fd[s.in][2] = k /\ k \in Pipe /\ p # 0 /\ Linked(fd) = {s.in, s.out} /\ s.n # 1
  <2>1. p # 0 /\ Linked(fd) = InOf(p, s) \cup {s.out}
    BY <1>1, EndsAtWork
  <2> QED
    BY <1>1, <2>1, EndsAtWork DEF InOf, StageRight
<1>3. s.in \in Links /\ s.out \in Links
  BY <1>2 DEF Linked
<1>4. CASE /\ Sieve!CanRead(o, p, s.in)
           /\ LET n == Sieve!Next1(o, p, s.in)
              IN procs' = [procs EXCEPT ![p].n = IF n % s.prime # 0 THEN n ELSE 0]
           /\ o' = Sieve!Read(o, p, s.in)
  <2> DEFINE h == Head(o.data[k])
             m == IF h % s.prime # 0 THEN h ELSE 0
             t == [s EXCEPT !.n = m]
             d == Taken(o.data, k)
  <2>1. o.data[k] # <<>> /\ Sieve!Next1(o, p, s.in) = h
    BY <1>2, <1>4 DEF Sieve!CanRead, Sieve!PipeOf, Sieve!Next1
  <2>2. h \in 2 .. MAX /\ Tail(o.data[k]) \in Numbers
    <3>1. o.data[k] \in Numbers
      BY <1>1, <1>2
    <3> QED
      BY <2>1, <3>1, NumbersMove
  <2>3. d \in [Pipe -> Numbers]
    BY <1>1, <1>2, <2>2 DEF Taken
  <2>4. procs' = [procs EXCEPT ![p] = t]
    BY <1>4, <2>1, CallsOfStages
  <2>5. StepsTo(p, t, d)
    <3> DEFINE f == s.in
    <3>1. fd[f][2] = k /\ o' = Sieve!Read(o, p, f)
      BY <1>2, <1>4
    <3> HIDE DEF f, k, t
    <3>2. Sieve!Read(o, p, f) = [fds |-> o.fds, data |-> Taken(o.data, fd[f][2])]
      BY CallsOfStages
    <3> QED
      BY <2>4, <3>1, <3>2 DEF StepsTo
  <2>6. m \in 0 .. MAX /\ m # 1
    <3> HIDE DEF h
    <3> QED
      BY <1>1, <2>2
  <2> HIDE DEF m, d
  <2>7. t \in Stages /\ t.pc = s.pc /\ t.in = s.in /\ t.out = s.out /\ t.frames = s.frames /\ t.n = m
    BY <1>1, <2>6 DEF Stages
  <2> HIDE DEF t
  <2> QED
    BY <1>1, <1>2, <2>3, <2>5, <2>6, <2>7, WorkKeeps DEF Working
<1>5. CASE s.n # 0 /\ Sieve!Send(p, s.n, [s EXCEPT !.n = 0])
  <2> DEFINE t == [s EXCEPT !.n = 0]
             m == s.n
  <2>1. Sieve!Send(p, m, t) /\ m \in 2 .. MAX
    BY <1>1, <1>2, <1>5
  <2>2. t \in Stages /\ t.pc = s.pc /\ t.in = s.in /\ t.out = s.out /\ t.frames = s.frames /\ t.n = 0
    <3> DEFINE zero == 0
    <3>1. zero \in 0 .. MAX
      BY <1>1
    <3> HIDE DEF zero, s
    <3>2. LET v == [s EXCEPT !.n = zero]
          IN  /\ v \in Stages /\ v.pc = s.pc /\ v.in = s.in /\ v.out = s.out
              /\ v.frames = s.frames /\ v.n = zero
      BY <1>1, <3>1 DEF Stages
    <3> QED
      BY <3>2 DEF zero
  <2> HIDE DEF t, m
  <2> QED
    BY <1>1, <2>1, <2>2, StageSends DEF Working
<1>6. CASE procs' = [procs EXCEPT ![p] = Sieve!Closing(@, <<@.in, @.out>>, "wait")] /\ o' = o
  <2> DEFINE q == <<s.in, s.out>>
             t == Sieve!Closing(s, q, "wait")
  <2>1. BeginsToShut(p, t)
    BY <1>6, CallsOfStages DEF BeginsToShut
  <2>2. q \in Seq(Links) /\ Those(q) = {s.in, s.out}
    BY <1>3, ShortLists
  <2> HIDE DEF q
  <2>3. Shuts(t, s, q, "wait")
    BY <1>1, <2>2, ShutsIs DEF Destinations
  <2> HIDE DEF t
  <2>4. Linked(fd) \subseteq {q[i] : i \in DOMAIN q}
    BY <1>2, <2>2 DEF Those
  <2> QED
    BY <1>1, <2>1, <2>2, <2>3, <2>4, ShutsKeeps DEF Idle
<1> QED
  BY <1>4, <1>5, <1>6 DEF Sieve!Filter

\* A step of a process that changes its child too: it is t, and the child c.
Both(p, t, c) ==
  /\ procs' \in [Chain -> Stages] /\ procs'[p] = t
  /\ p + 1 \in Chain => procs'[p + 1] = c
  /\ \A q \in Chain : q # p /\ q # p + 1 => procs'[q] = procs[q]

ChildHas(p, fd) == o' = [fds |-> [o.fds EXCEPT ![p + 1] = fd], data |-> o.data]

LEMMA TwoStages ==
  ASSUME SieveConstants, SieveInv, NEW p \in Chain, NEW t, NEW c, NEW fd, Both(p, t, c), ChildHas(p, fd),
         StageRight(p, t, o.fds[p]), p + 1 \in Chain => fd \in Rows /\ StageRight(p + 1, c, fd)
  PROVE  SieveInv'
<1>1. /\ o.fds \in [Chain -> Rows] /\ o.data \in [Pipe -> Numbers]
      /\ \A q \in Chain : StageRight(q, procs[q], o.fds[q])
  BY CallsOfStages DEF SieveInv
<1>2. p \in Nat /\ p # p + 1
  BY SieveFacts
<1>3. /\ o'.fds \in [Chain -> Rows] /\ (p + 1 \in Chain => o'.fds[p + 1] = fd)
      /\ \A q \in Chain : q # p + 1 => o'.fds[q] = o.fds[q]
      /\ o' \in [fds : [Chain -> Rows], data : [Pipe -> Numbers]]
  BY <1>1 DEF ChildHas
<1>4. ASSUME NEW q \in Chain PROVE StageRight(q, procs'[q], o'.fds[q])
  <2>1. CASE q = p
    BY <1>2, <1>3, <2>1 DEF Both
  <2>2. CASE q = p + 1
    BY <1>3, <2>2 DEF Both
  <2>3. CASE q # p /\ q # p + 1
    BY <1>1, <1>3, <2>3 DEF Both
  <2> QED
    BY <2>1, <2>2, <2>3
<1> QED
  BY <1>3, <1>4 DEF SieveInv, Both

LEMMA StageWaits ==
  ASSUME SieveConstants, SieveInv, NEW p \in Chain, Sieve!Wait(p) PROVE SieveInv'
<1> DEFINE s == procs[p]
           fd == o.fds[p]
           q == s.frames
           t == Sieve!Return(s, s.ret)
           z == procs[p + 1]
           c == [z EXCEPT !.pc = "gone"]
           cfd == o.fds[p + 1]
<1>1. s \in Stages /\ s.pc = "wait" /\ StageRight(p, s, fd) /\ q \in Seq(Links) /\ s.ret \in Int /\ o' = o
  BY CallsOfStages DEF Sieve!Wait, Sieve!At, Stages
<1>2. p \in Nat /\ p # p + 1 /\ procs \in [Chain -> Stages]
  <2>1. p \in Nat
    BY SieveFacts
  <2>2. procs \in [Chain -> Stages]
    BY CallsOfStages
  <2> QED
    BY <2>1, <2>2
<1>3. Shuts(t, s, q, "exit")
  BY <1>1, ReturnIs
<1>4. p + 1 \in Chain => z \in Stages /\ z.pc = "zombie" /\ c \in Stages /\ c.pc = "gone" /\ c.n = z.n
  BY <1>2 DEF Sieve!Wait, Stages, Idle
<1>5. Both(p, t, c)
  <2>1. t \in Stages
    BY <1>3 DEF Shuts
  <2>2. procs' = [procs EXCEPT ![p + 1].pc = "gone", ![p] = Sieve!Return(@, @.ret)]
    BY DEF Sieve!Wait
  <2>3. \A r \in Chain : r # p + 1 /\ r # p => procs'[r] = procs[r]
    BY <1>2, <2>2
  <2>4. p + 1 \in Chain => procs'[p + 1] = c
    BY <1>2, <2>2
  <2>5. procs'[p] = t
    BY <1>2, <2>2
  <2>6. procs' \in [Chain -> Stages]
    <3>1. procs' = [r \in Chain |-> procs'[r]]
      BY <1>2, <2>2
    <3>2. \A r \in Chain : procs'[r] \in Stages
      <4> HIDE DEF t, c
      <4> QED
        BY <1>2, <1>4, <2>1, <2>3, <2>4, <2>5
    <3> QED
      BY <3>1, <3>2
  <2> HIDE DEF t, c
  <2> QED
    BY <2>3, <2>4, <2>5, <2>6 DEF Both
<1>6. Linked(fd) = {}
  <2>1. Goal(s) = "wait" /\ Stay(p, s) = {}
    BY <1>1 DEF Goal, Stay
  <2> QED
    BY <1>1, <2>1 DEF StageRight, LinksRight
<1>7. StageRight(p, t, fd)
  <2> HIDE DEF t, q
  <2> QED
    BY <1>1, <1>3, <1>6, ShutsRight DEF Idle, Destinations
<1>8. p + 1 \in Chain => cfd \in Rows /\ StageRight(p + 1, c, cfd)
  <2> SUFFICES ASSUME p + 1 \in Chain PROVE cfd \in Rows /\ StageRight(p + 1, c, cfd)
    OBVIOUS
  <2>1. cfd \in Rows /\ StageRight(p + 1, z, cfd)
    <3> DEFINE r == p + 1
    <3>0. r \in Chain
      OBVIOUS
    <3> HIDE DEF r
    <3>1. o.fds[r] \in Rows /\ StageRight(r, procs[r], o.fds[r])
      BY <3>0, CallsOfStages
    <3> QED
      BY <3>1 DEF r
  <2> HIDE DEF c, z, cfd
  <2>2. Goal(z) = "zombie" /\ Stay(p + 1, z) = {}
    BY <1>4 DEF Goal, Stay
  <2>3. Linked(cfd) = {} /\ (p + 1 # 0 => z.n # 1)
    BY <1>4, <2>1, <2>2 DEF StageRight, LinksRight
  <2>4. StageRight(p + 1, c, cfd)
    <3> DEFINE r == p + 1
    <3>1. r \in Chain /\ c \in Stages /\ c.pc \in Idle /\ (r # 0 => c.n # 1)
      BY <1>4, <2>3 DEF Idle
    <3> HIDE DEF r
    <3>2. StageRight(r, c, cfd)
      BY <2>3, <3>1, IdleRight
    <3> QED
      BY <3>2 DEF r
  <2> QED
    BY <2>1, <2>4
<1>9. ChildHas(p, cfd)
  <2>1. o = [fds |-> o.fds, data |-> o.data] /\ o.fds \in [Chain -> Rows]
    BY CallsOfStages
  <2>2. [o.fds EXCEPT ![p + 1] = o.fds[p + 1]] = o.fds
    BY <2>1
  <2> QED
    BY <1>1, <2>1, <2>2 DEF ChildHas
<1> HIDE DEF t, c, fd, cfd
<1> QED
  BY <1>5, <1>7, <1>8, <1>9, TwoStages DEF fd

\* What a process has when it forks: its ends, and the one that its child will read from.
LEMMA ForkFinds ==
  ASSUME SieveConstants, SieveInv, NEW p \in Chain, procs[p].pc = "fork"
  PROVE  LET s == procs[p]
             fd == o.fds[p]
             f == Sieve!ReadFd(p)
         IN /\ f \in Links /\ s.out \in Links /\ f # s.out /\ f \notin InOf(p, s) /\ s.out \notin InOf(p, s)
            /\ fd[f] = Sieve!RdEnd(p) /\ fd[s.out] = Sieve!WrEnd(p)
            /\ p # 0 => s.in \in Links /\ fd[s.in] = Sieve!RdEnd(p - 1)
            /\ Linked(fd) = InOf(p, s) \cup {s.out, f}
<1> DEFINE s == procs[p]
           fd == o.fds[p]
<1>1. s.pc = "fork" /\ StageRight(p, s, fd) /\ fd \in Rows
  BY CallsOfStages
<1>2. Sieve!ReadFd(p) = Sieve!Least({g \in Sieve!FD : fd[g] = Sieve!RdEnd(p)})
  BY DEF Sieve!ReadFd
<1> HIDE DEF s, fd
<1>3. Goal(s) = "fork" /\ Stay(p, s) = InOf(p, s) \cup {s.out}
  BY <1>1 DEF Goal, Stay
<1>4. PICK f \in Links \ Stay(p, s) : fd[f] = Sieve!RdEnd(p) /\ Linked(fd) = Stay(p, s) \cup {f}
  BY <1>1 DEF StageRight, LinksRight
<1>5. fd[s.out] = Sieve!WrEnd(p) /\ s.out \notin InOf(p, s)
  BY <1>1, <1>3 DEF StageRight, LinksRight
<1>6. p # 0 => s.in \in Stay(p, s) /\ fd[s.in] = Sieve!RdEnd(p - 1)
  BY <1>1, <1>3 DEF StageRight, LinksRight, InOf
<1>7. Stay(p, s) \subseteq Links
  BY <1>4 DEF Linked
<1> DEFINE S == {g \in Sieve!FD : fd[g] = Sieve!RdEnd(p)}
<1>8. \A g \in S : g = f
  <2> SUFFICES ASSUME NEW g \in S PROVE g = f
    OBVIOUS
  <2>1. p \in Nat /\ p - 1 # p /\ Sieve!RdEnd(p) \in Sieve!Ends
    BY SieveFacts
  <2>2. g \in Linked(fd)
    BY <1>1, <2>1, OpenEnds
  <2>3. Sieve!RdEnd(p) # Sieve!WrEnd(p) /\ Sieve!RdEnd(p - 1) # Sieve!RdEnd(p)
    BY <2>1, SieveFacts
  <2>4. g \notin Stay(p, s)
    BY <1>3, <1>5, <1>6, <2>3 DEF InOf
  <2> QED
    BY <1>4, <2>2, <2>4
<1>9. f \in S /\ f \in Nat
  BY <1>4, SieveFacts DEF Links, SieveConstants
<1> HIDE DEF S
<1>10. Sieve!Least(S) = f
  <2>1. S # {} /\ S \in SUBSET Nat
    BY <1>8, <1>9
  <2>2. Sieve!Least(S) \in S
    BY <2>1, LeastFree
  <2> QED
    BY <1>8, <2>2
<1>11. Sieve!ReadFd(p) = f
  BY <1>2, <1>10 DEF S
<1> QED
  BY <1>3, <1>4, <1>5, <1>6, <1>7, <1>11 DEF s, fd

\* The descriptors that a forking process shares with its child, which is r.
ForkedEnds(p, r, fd, f, rd, wr) ==
  /\ r \in Chain /\ r \in Nat /\ p \in Nat /\ r > 0 /\ r - 1 = p /\ (r > 1 <=> p > 0) /\ r - 2 = p - 1
  /\ f \in Links /\ fd[f] = Sieve!RdEnd(p) /\ fd[wr] = Sieve!WrEnd(p)
  /\ p # 0 => fd[rd] = Sieve!RdEnd(p - 1)
  /\ f # wr /\ f \notin (IF p = 0 THEN {} ELSE {rd})
  /\ Linked(fd) = (IF p = 0 THEN {} ELSE {rd}) \cup {wr, f}
  /\ \A g \in 0 .. 2 : fd[g] = <<"tty">>

\* What the child begins with
ForkedStage(c, p, f, rd, wr, kept) ==
  /\ c \in Stages /\ c.pc = "close" /\ c.then = "first" /\ c.in = f /\ c.n = 0
  /\ ToClose(c) = {wr} \cup (IF p = 0 THEN {} ELSE {rd})
  /\ FrameFds(c) = {f} \cup kept

LEMMA ForkedRight ==
  ASSUME NEW p, NEW r, NEW fd, NEW f, NEW rd, NEW wr, NEW c, NEW kept,
         ForkedEnds(p, r, fd, f, rd, wr), ForkedStage(c, p, f, rd, wr, kept)
  PROVE  StageRight(r, c, fd)
<1>1. c.pc = "close" /\ c.in = f /\ c.n = 0 /\ Goal(c) = "first" /\ r # 0 /\ InOf(r, c) = {f} /\ Stay(r, c) = {f}
  BY DEF ForkedStage, ForkedEnds, Goal, InOf, Stay
<1>2. /\ Stay(r, c) \subseteq Linked(fd) /\ Linked(fd) \subseteq Stay(r, c) \cup ToClose(c)
      /\ Stay(r, c) \cap ToClose(c) = {}
  BY <1>1 DEF ForkedStage, ForkedEnds
<1>3. fd[c.in] = Sieve!RdEnd(r - 1)
  BY <1>1 DEF ForkedEnds
<1>4. \A g \in Linked(fd) :
       \/ fd[g] \in {Sieve!WrEnd(r), Sieve!RdEnd(r)}
       \/ r > 0 /\ fd[g] \in {Sieve!RdEnd(r - 1), Sieve!WrEnd(r - 1)}
       \/ r > 1 /\ fd[g] = Sieve!RdEnd(r - 2)
  <2> SUFFICES ASSUME NEW g \in Linked(fd)
               PROVE  \/ r > 0 /\ fd[g] \in {Sieve!RdEnd(r - 1), Sieve!WrEnd(r - 1)}
                      \/ r > 1 /\ fd[g] = Sieve!RdEnd(r - 2)
    OBVIOUS
  <2>1. g = f \/ g = wr \/ (p # 0 /\ g = rd)
    BY DEF ForkedEnds
  <2>2. r > 0 /\ r - 1 = p /\ (r > 1 <=> p > 0) /\ r - 2 = p - 1 /\ p \in Nat
    BY DEF ForkedEnds
  <2>3. CASE g = f
    BY <2>2, <2>3 DEF ForkedEnds
  <2>4. CASE g = wr
    BY <2>2, <2>4 DEF ForkedEnds
  <2>5. CASE p # 0 /\ g = rd
    BY <2>2, <2>5 DEF ForkedEnds
  <2> QED
    BY <2>1, <2>3, <2>4, <2>5
<1>5. LinksRight(r, c, fd)
  BY <1>1, <1>2, <1>3, <1>4 DEF LinksRight
<1>6. c.in \in FrameFds(c) /\ \A g \in 0 .. 2 : fd[g] = <<"tty">>
  BY <1>1 DEF ForkedStage, ForkedEnds
<1> QED
  BY <1>1, <1>5, <1>6 DEF StageRight

\* The parent, which closes the end that its child reads from
LEMMA ParentRight ==
  ASSUME SieveConstants, SieveInv, NEW p \in Chain, procs[p].pc = "fork", NEW t,
         Shuts(t, procs[p], <<Sieve!ReadFd(p)>>, IF p = 0 THEN "generate" ELSE "filter")
  PROVE  StageRight(p, t, o.fds[p])
<1> DEFINE s == procs[p]
           fd == o.fds[p]
           f == Sieve!ReadFd(p)
<1>1. StageRight(p, s, fd) /\ s.pc = "fork"
  BY CallsOfStages
<1>2. /\ f \in Links /\ s.out \in Links /\ f # s.out /\ f \notin InOf(p, s) /\ s.out \notin InOf(p, s)
      /\ fd[f] = Sieve!RdEnd(p) /\ fd[s.out] = Sieve!WrEnd(p)
      /\ p # 0 => s.in \in Links /\ fd[s.in] = Sieve!RdEnd(p - 1)
      /\ Linked(fd) = InOf(p, s) \cup {s.out, f}
  BY ForkFinds
<1>3. p \in Nat
  BY SieveFacts
<1> HIDE DEF f
<1>4. Those(<<f>>) = {f}
  BY <1>2, ShortLists
<1>5. /\ t.pc = "close" /\ t.then = (IF p = 0 THEN "generate" ELSE "filter") /\ t.todo = <<f>>
      /\ t.in = s.in /\ t.out = s.out /\ t.n = s.n /\ t.frames = s.frames
  BY DEF Shuts, f
<1> HIDE DEF s, fd
<1>6. /\ Goal(t) = (IF p = 0 THEN "generate" ELSE "filter") /\ InOf(p, t) = InOf(p, s)
      /\ Stay(p, t) = InOf(p, s) \cup {s.out} /\ FrameFds(t) = FrameFds(s) /\ ToClose(t) = {f}
  <2>1. Goal(t) \in {"generate", "filter"} /\ Goal(t) = (IF p = 0 THEN "generate" ELSE "filter")
    BY <1>5 DEF Goal
  <2>2. InOf(p, t) = InOf(p, s) /\ FrameFds(t) = FrameFds(s)
    BY <1>5 DEF InOf, FrameFds
  <2>3. ToClose(t) = {f}
    BY <1>4, <1>5 DEF ToClose, Those
  <2> QED
    BY <1>5, <2>1, <2>2, <2>3 DEF Stay
<1>7. \A g \in Linked(fd) : \/ fd[g] \in {Sieve!WrEnd(p), Sieve!RdEnd(p)}
                            \/ p > 0 /\ fd[g] \in {Sieve!RdEnd(p - 1), Sieve!WrEnd(p - 1)}
  BY <1>2, <1>3 DEF InOf
<1>8. LinksRight(p, t, fd)
  <2>1. Stay(p, t) \subseteq Linked(fd) /\ Linked(fd) \subseteq Stay(p, t) \cup ToClose(t) /\ Stay(p, t) \cap ToClose(t) = {}
    BY <1>2, <1>6
  <2>2. fd[t.out] = Sieve!WrEnd(p) /\ t.out \notin InOf(p, t) /\ (p # 0 => fd[t.in] = Sieve!RdEnd(p - 1))
    BY <1>2, <1>5, <1>6
  <2> QED
    BY <1>5, <1>7, <2>1, <2>2 DEF LinksRight
<1>9. /\ p # 0 => s.n # 1 /\ s.in \in FrameFds(s)
      /\ \A g \in 0 .. 2 : fd[g] = <<"tty">>
  BY <1>1 DEF StageRight, Idle
<1>10. StageRight(p, t, fd)
  BY <1>5, <1>6, <1>8, <1>9 DEF StageRight
<1> QED
  BY <1>10 DEF fd

LEMMA InIs ==
  ASSUME SieveConstants, NEW p \in Chain, p # 0 => procs[p].in \in Links
  PROVE  Sieve!In(p) \in Seq(Links) /\ Those(Sieve!In(p)) = InOf(p, procs[p])
<1>1. CASE p = 0
  <2>1. Sieve!In(p) = <<>> /\ InOf(p, procs[p]) = {}
    BY <1>1 DEF Sieve!In, InOf
  <2>2. Those(<<>>) = {} /\ <<>> \in Seq(Links)
    BY DEF Those
  <2> QED
    BY <2>1, <2>2
<1>2. CASE p # 0
  <2> DEFINE x == procs[p].in
  <2>1. Sieve!In(p) = <<x>> /\ InOf(p, procs[p]) = {x} /\ x \in Links
    BY <1>2 DEF Sieve!In, InOf
  <2> HIDE DEF x
  <2> QED
    BY <2>1, ShortLists
<1> QED
  BY <1>1, <1>2

\* The child of p, when it begins
Child(p) == Sieve!Closing([Sieve!NoProc EXCEPT !.in = Sieve!ReadFd(p),
                                               !.frames = <<Sieve!ReadFd(p)>> \o procs[p].frames],
                          <<procs[p].out>> \o Sieve!In(p), "first")

LEMMA ChildIs ==
  ASSUME SieveConstants, SieveInv, NEW p \in Chain, procs[p].pc = "fork"
  PROVE  ForkedStage(Child(p), p, Sieve!ReadFd(p), procs[p].in, procs[p].out, FrameFds(procs[p]))
<1> DEFINE s == procs[p]
           f == Sieve!ReadFd(p)
           w == s.frames
           q == <<f>> \o w
           u == <<s.out>> \o Sieve!In(p)
           z == Sieve!NoProc
           b == [z EXCEPT !.in = f, !.frames = q]
<1>1. f \in Links /\ s.out \in Links /\ (p # 0 => s.in \in Links)
  BY ForkFinds
<1>2. w \in Seq(Links)
  <2>1. s \in Stages
    BY CallsOfStages
  <2> QED
    BY <2>1 DEF Stages
<1>3. z \in Stages /\ z.n = 0
  BY NoProcIs
<1> HIDE DEF f, w, z
<1>4. q \in Seq(Links) /\ Those(q) = {f} \cup Those(w)
  <2> DEFINE a == <<f>>
  <2>1. a \in Seq(Links) /\ Those(a) = {f}
    BY <1>1, ShortLists
  <2> HIDE DEF a
  <2>2. a \o w \in Seq(Links) /\ Those(a \o w) = Those(a) \cup Those(w)
    BY <1>2, <2>1, JoinedLists
  <2> QED
    BY <2>1, <2>2 DEF a
<1>5. u \in Seq(Links) /\ Those(u) = {s.out} \cup InOf(p, s)
  <2> DEFINE a == <<s.out>>
             e == Sieve!In(p)
  <2>1. a \in Seq(Links) /\ Those(a) = {s.out}
    BY <1>1, ShortLists
  <2>2. e \in Seq(Links) /\ Those(e) = InOf(p, s)
    BY <1>1, InIs
  <2> HIDE DEF a, e
  <2>3. a \o e \in Seq(Links) /\ Those(a \o e) = Those(a) \cup Those(e)
    BY <2>1, <2>2, JoinedLists
  <2> QED
    BY <2>1, <2>2, <2>3 DEF a, e
<1> HIDE DEF q, u
<1>6. b \in Stages /\ b.in = f /\ b.frames = q /\ b.n = 0
  BY <1>1, <1>3, <1>4 DEF Stages
<1> HIDE DEF b
<1> DEFINE c == Sieve!Closing(b, u, "first")
<1>7. Shuts(c, b, u, "first")
  BY <1>5, <1>6, ShutsIs DEF Destinations
<1>8. c = Child(p)
  BY DEF Child, b, u, q, z, w, f
<1> HIDE DEF c
<1>9. /\ c \in Stages /\ c.pc = "close" /\ c.then = "first" /\ c.in = f /\ c.n = 0
      /\ ToClose(c) = {s.out} \cup InOf(p, s) /\ FrameFds(c) = {f} \cup FrameFds(s)
  <2>1. ToClose(c) = Those(u) /\ FrameFds(c) = Those(q) /\ FrameFds(s) = Those(w)
    BY <1>6, <1>7 DEF Shuts, ToClose, FrameFds, Those, w
  <2> QED
    BY <1>4, <1>5, <1>6, <1>7, <2>1 DEF Shuts
<1>10. InOf(p, s) = IF p = 0 THEN {} ELSE {s.in}
  BY DEF InOf
<1> HIDE DEF s
<1>11. ForkedStage(c, p, f, s.in, s.out, FrameFds(s))
  BY <1>9, <1>10 DEF ForkedStage
<1> QED
  BY <1>8, <1>11 DEF s, f

LEMMA StageForks ==
  ASSUME SieveConstants, SieveInv, NEW p \in Chain, Sieve!ForkStage(p) PROVE SieveInv'
<1> DEFINE s == procs[p]
           fd == o.fds[p]
           f == Sieve!ReadFd(p)
           to == IF p = 0 THEN "generate" ELSE "filter"
<1>1. /\ s \in Stages /\ s.pc = "fork" /\ StageRight(p, s, fd) /\ fd \in Rows
      /\ procs \in [Chain -> Stages] /\ o.data \in [Pipe -> Numbers]
  BY CallsOfStages DEF Sieve!ForkStage, Sieve!ForkClosing, Sieve!At
<1>2. /\ f \in Links /\ s.out \in Links /\ f # s.out /\ f \notin InOf(p, s) /\ s.out \notin InOf(p, s)
      /\ fd[f] = Sieve!RdEnd(p) /\ fd[s.out] = Sieve!WrEnd(p)
      /\ p # 0 => s.in \in Links /\ fd[s.in] = Sieve!RdEnd(p - 1)
      /\ Linked(fd) = InOf(p, s) \cup {s.out, f}
  BY <1>1, ForkFinds
<1>3. p \in Nat /\ p # p + 1
  <2>1. p \in Nat
    BY SieveFacts
  <2> QED
    BY <2>1
<1>4. \A g \in 0 .. 2 : fd[g] = <<"tty">>
  BY <1>1 DEF StageRight, Idle
<1>5. CASE /\ o' = Sieve!Fork(o, p, p + 1)
           /\ procs' = [procs EXCEPT
                ![p] = Sieve!Closing(@, <<f>>, to),
                ![p + 1] = Sieve!Closing([Sieve!NoProc EXCEPT !.in = f, !.frames = <<f>> \o s.frames],
                                         <<s.out>> \o Sieve!In(p), "first")]
  <2> DEFINE q == <<f>>
             t == Sieve!Closing(s, q, to)
             c == Child(p)
  <2>1. Shuts(t, s, q, to)
    <3>1. q \in Seq(Links)
      BY <1>2, ShortLists
    <3>2. to \in Destinations
      BY DEF Destinations
    <3> HIDE DEF q, to
    <3> QED
      BY <1>1, <3>1, <3>2, ShutsIs
  <2>2. procs' = [procs EXCEPT ![p] = t, ![p + 1] = c]
    BY <1>1, <1>5 DEF Child
  <2> HIDE DEF t, q, to, f
  <2>3. StageRight(p, t, fd)
    BY <1>1, <2>1, ParentRight DEF q, to, f
  <2>4. ForkedStage(c, p, f, s.in, s.out, FrameFds(s))
    BY <1>1, ChildIs DEF f
  <2> HIDE DEF c
  <2>5. Both(p, t, c)
    <3>1. t \in Stages /\ c \in Stages
      BY <2>1, <2>4 DEF Shuts, ForkedStage
    <3> QED
      BY <1>1, <1>3, <2>2, <3>1 DEF Both
  <2>6. ChildHas(p, fd)
    BY <1>5, CallsOfStages DEF ChildHas
  <2>7. p + 1 \in Chain => StageRight(p + 1, c, fd)
    <3> DEFINE r == p + 1
    <3> SUFFICES ASSUME r \in Chain PROVE StageRight(r, c, fd)
      OBVIOUS
    <3>1. r \in Nat /\ r > 0 /\ r - 1 = p /\ (r > 1 <=> p > 0) /\ r - 2 = p - 1
      BY <1>3
    <3>2. InOf(p, s) = IF p = 0 THEN {} ELSE {s.in}
      BY DEF InOf
    <3> DEFINE x == s.in
               y == s.out
               w == FrameFds(s)
    <3> HIDE DEF r, fd
    <3>3. ForkedEnds(p, r, fd, f, x, y)
      BY <1>2, <1>3, <1>4, <3>1, <3>2 DEF ForkedEnds, f
    <3>4. ForkedStage(c, p, f, x, y, w)
      BY <2>4
    <3> HIDE DEF x, y, w
    <3> QED
      BY <3>3, <3>4, ForkedRight
  <2> HIDE DEF fd
  <2> QED
    BY <1>1, <2>3, <2>5, <2>6, <2>7, TwoStages DEF fd
<1>6. CASE /\ o' = o
           /\ procs' = [procs EXCEPT ![p] = Sieve!Closing([@ EXCEPT !.ret = -1], <<f, s.out>> \o @.frames, "exit")]
  <2> DEFINE a == <<f, s.out>>
             w == s.frames
             q == a \o w
             b == [s EXCEPT !.ret = -1]
             t == Sieve!Closing(b, q, "exit")
             d == o.data
  <2>1. procs' = [procs EXCEPT ![p] = t]
    BY <1>1, <1>6
  <2>2. a \in Seq(Links) /\ Those(a) = {f, s.out}
    BY <1>2, ShortLists
  <2>3. w \in Seq(Links) /\ Those(w) = FrameFds(s)
    BY <1>1 DEF Stages, FrameFds, Those
  <2> HIDE DEF a, w
  <2>4. q \in Seq(Links) /\ Those(q) = {f, s.out} \cup FrameFds(s)
    BY <2>2, <2>3, JoinedLists
  <2> HIDE DEF q
  <2>5. b \in Stages /\ b.in = s.in /\ b.out = s.out /\ b.n = s.n /\ b.frames = s.frames
    <3> DEFINE m == -1
               x == s
    <3>1. m \in Int /\ x \in Stages
      BY <1>1
    <3> HIDE DEF m, x
    <3>2. LET v == [x EXCEPT !.ret = m]
          IN v \in Stages /\ v.in = x.in /\ v.out = x.out /\ v.n = x.n /\ v.frames = x.frames
      BY <3>1 DEF Stages
    <3> QED
      BY <3>2 DEF m, x, w
  <2> HIDE DEF b
  <2>6. Shuts(t, b, q, "exit")
    BY <2>4, <2>5, ShutsIs DEF Destinations
  <2> HIDE DEF t
  <2>7. Moves(p, t, fd, d)
    <3>1. o' = [fds |-> o.fds, data |-> d]
      BY <1>6, CallsOfStages
    <3> HIDE DEF d
    <3> QED
      BY <2>1, <3>1, RowStays
  <2> HIDE DEF d, fd, s, f
  <2>8. /\ t \in Stages /\ t.pc = "close" /\ t.n = s.n /\ t.in = s.in /\ Goal(t) = "exit" /\ Stay(p, t) = {}
        /\ ToClose(t) = {f, s.out} \cup FrameFds(s) /\ FrameFds(t) = FrameFds(s)
    <3>1. ToClose(t) = Those(q)
      BY <2>6 DEF Shuts, ToClose, Those
    <3> QED
      BY <2>4, <2>5, <2>6, <3>1 DEF Shuts, Goal, Stay, FrameFds
  <2>9. p # 0 => s.n # 1 /\ s.in \in FrameFds(s)
    BY <1>1 DEF StageRight, Idle
  <2>10. Linked(fd) \subseteq ToClose(t)
    BY <1>2, <2>8, <2>9 DEF InOf, f
  <2>11. \A g \in Linked(fd) : \/ fd[g] \in {Sieve!WrEnd(p), Sieve!RdEnd(p)}
                               \/ p > 0 /\ fd[g] \in {Sieve!RdEnd(p - 1), Sieve!WrEnd(p - 1)}
    BY <1>2, <1>3 DEF InOf, f
  <2>12. LinksRight(p, t, fd)
    BY <2>8, <2>10, <2>11 DEF LinksRight
  <2>13. StageRight(p, t, fd)
    BY <1>4, <2>8, <2>9, <2>12 DEF StageRight
  <2>14. d \in [Pipe -> Numbers]
    BY <1>1 DEF d
  <2> QED
    BY <1>1, <2>7, <2>8, <2>13, <2>14, OneStage
<1> QED
  BY <1>5, <1>6 DEF Sieve!ForkStage, Sieve!ForkClosing

\* What the ends that a process has are
LEMMA EndsOfStage ==
  ASSUME SieveConstants, SieveInv, NEW p \in Chain, NEW f \in Linked(o.fds[p])
  PROVE  LET e == o.fds[p][f]
             pc == procs[p].pc
         IN \/ e = Sieve!WrEnd(p)
            \/ p # 0 /\ e = Sieve!RdEnd(p - 1)
            \/ pc \in {"fork", "close"} /\ e = Sieve!RdEnd(p)
            \/ pc = "close" /\ p > 0 /\ e = Sieve!WrEnd(p - 1)
            \/ pc = "close" /\ p > 1 /\ e = Sieve!RdEnd(p - 2)
<1> DEFINE s == procs[p]
           fd == o.fds[p]
<1>1. LinksRight(p, s, fd) /\ p \in Nat
  <2>1. StageRight(p, s, fd)
    BY CallsOfStages
  <2>2. p \in Nat
    BY SieveFacts
  <2> QED
    BY <2>1, <2>2 DEF StageRight
<1> HIDE DEF s, fd
<1>2. \A g \in Stay(p, s) : (p # 0 /\ g = s.in) \/ (g = s.out /\ Goal(s) \in {"fork", "generate", "filter"})
  BY DEF Stay, InOf
<1>3. CASE f \in Stay(p, s)
  <2>1. fd[f] = Sieve!WrEnd(p) \/ (p # 0 /\ fd[f] = Sieve!RdEnd(p - 1))
    BY <1>1, <1>2, <1>3 DEF LinksRight
  <2> QED
    BY <2>1 DEF fd
<1>4. CASE s.pc = "close"
  <2>1. \/ fd[f] \in {Sieve!WrEnd(p), Sieve!RdEnd(p)}
        \/ p > 0 /\ fd[f] \in {Sieve!RdEnd(p - 1), Sieve!WrEnd(p - 1)}
        \/ p > 1 /\ fd[f] = Sieve!RdEnd(p - 2)
    BY <1>1, <1>4 DEF LinksRight, fd
  <2> QED
    BY <1>1, <1>4, <2>1 DEF fd, s
<1>5. CASE f \notin Stay(p, s) /\ s.pc # "close"
  <2>1. s.pc = "fork"
    BY <1>1, <1>5 DEF LinksRight, fd
  <2>2. fd[f] = Sieve!RdEnd(p)
    BY <1>1, <1>5, <2>1 DEF LinksRight, fd
  <2> QED
    BY <2>1, <2>2 DEF fd, s
<1> QED
  BY <1>3, <1>4, <1>5

LEMMA SieveNext ==
  ASSUME SieveConstants, SieveInv, [Sieve!Next]_(Sieve!vars) PROVE SieveInv'
<1>1. ASSUME NEW p \in Chain, Sieve!Step(p) PROVE SieveInv'
  BY <1>1, StageClosesOne, StageMakesPipe, StageForks, StageGenerates, StageReadsFirst, StagePrints,
     StageFilters, StageWaits, StageExits DEF Sieve!Step
<1>2. CASE UNCHANGED Sieve!vars
  BY <1>2 DEF Sieve!vars, SieveInv, StageRight, LinksRight
<1> QED
  BY <1>1, <1>2 DEF Sieve!Next

LEMMA SieveTypes ==
  ASSUME SieveConstants, SieveInv PROVE Sieve!TypeOK
<1>1. o.fds \in [Chain -> Rows] /\ o.data \in [Pipe -> Numbers] /\ procs \in [Chain -> Stages]
  BY DEF SieveInv
<1>2. Rows \subseteq [Sieve!FD -> Sieve!Ends \cup {<<"tty">>, None}]
  BY DEF Rows
<1>3. o.fds \in [Chain -> [Sieve!FD -> Sieve!Ends \cup {<<"tty">>, None}]]
  BY <1>1, <1>2
<1>4. \A k \in Pipe : o.data[k] \in Seq(2 .. MAX) /\ Len(o.data[k]) =< CAP
  BY <1>1 DEF Numbers
<1>5. \A p \in Chain : procs[p].n \in 0 .. MAX /\ procs[p].in \in Sieve!FD \cup {None}
  BY <1>1, SieveFacts DEF Stages
<1> QED
  BY <1>3, <1>4, <1>5 DEF Sieve!TypeOK

LEMMA SieveNeighbours ==
  ASSUME SieveConstants, SieveInv PROVE Sieve!EndsAreNeighbours
<1> SUFFICES ASSUME NEW p \in Chain, NEW k \in Pipe
             PROVE  /\ p \in Sieve!Holders(o, Sieve!WrEnd(k)) => p = k \/ (p = k + 1 /\ Sieve!At(p, "close"))
                    /\ p \in Sieve!Holders(o, Sieve!RdEnd(k)) =>
                         p = k + 1 \/ (p = k /\ procs[p].pc \in {"fork", "close"}) \/ (p = k + 2 /\ Sieve!At(p, "close"))
  BY DEF Sieve!EndsAreNeighbours
<1> DEFINE fd == o.fds[p]
           pc == procs[p].pc
<1>1. fd \in Rows /\ p \in Nat
  <2>1. fd \in Rows
    BY CallsOfStages
  <2>2. p \in Nat
    BY SieveFacts
  <2> QED
    BY <2>1, <2>2
<1>2. \A e : p \in Sieve!Holders(o, e) => \E f \in Sieve!FD : fd[f] = e
  BY DEF Sieve!Holders
<1>3. ASSUME NEW e \in Sieve!Ends, p \in Sieve!Holders(o, e)
      PROVE  \/ e = Sieve!WrEnd(p)
             \/ p # 0 /\ e = Sieve!RdEnd(p - 1)
             \/ pc \in {"fork", "close"} /\ e = Sieve!RdEnd(p)
             \/ pc = "close" /\ p > 0 /\ e = Sieve!WrEnd(p - 1)
             \/ pc = "close" /\ p > 1 /\ e = Sieve!RdEnd(p - 2)
  <2>1. PICK f \in Sieve!FD : fd[f] = e
    BY <1>2, <1>3
  <2>2. f \in Linked(fd)
    <3> HIDE DEF fd
    <3> QED
      BY <1>1, <1>3, <2>1, OpenEnds
  <2> QED
    BY <2>1, <2>2, EndsOfStage
<1>4. /\ Sieve!RdEnd(k) \in Sieve!Ends /\ Sieve!WrEnd(k) \in Sieve!Ends
      /\ \A i, j : /\ (Sieve!RdEnd(i) = Sieve!RdEnd(j) <=> i = j)
                   /\ (Sieve!WrEnd(i) = Sieve!WrEnd(j) <=> i = j)
                   /\ Sieve!RdEnd(i) # Sieve!WrEnd(j)
  BY SieveFacts
<1> HIDE DEF fd, pc
<1>5. ASSUME p \in Sieve!Holders(o, Sieve!WrEnd(k)) PROVE p = k \/ (p - 1 = k /\ pc = "close")
  BY <1>3, <1>4, <1>5
<1>6. ASSUME p \in Sieve!Holders(o, Sieve!RdEnd(k))
      PROVE  p - 1 = k \/ (p = k /\ pc \in {"fork", "close"}) \/ (p - 2 = k /\ pc = "close")
  BY <1>3, <1>4, <1>6
<1>7. (p - 1 = k => p = k + 1) /\ (p - 2 = k => p = k + 2)
  BY <1>1
<1> QED
  BY <1>5, <1>6, <1>7 DEF pc, Sieve!At

LEMMA SieveShut ==
  ASSUME SieveConstants, SieveInv PROVE Sieve!ClosesItsEnds
<1> SUFFICES ASSUME NEW p \in Chain, procs[p].pc = "exit", NEW f \in Sieve!FD
             PROVE  o.fds[p][f] \in {<<"tty">>, None}
  BY DEF Sieve!ClosesItsEnds, Sieve!At
<1> DEFINE s == procs[p]
           fd == o.fds[p]
<1>1. StageRight(p, s, fd) /\ fd \in Rows
  BY CallsOfStages
<1>2. s.pc = "exit"
  OBVIOUS
<1> HIDE DEF s, fd
<1>3. Linked(fd) = {}
  <2>1. Goal(s) = "exit" /\ Stay(p, s) = {}
    BY <1>2 DEF Goal, Stay
  <2> QED
    BY <1>1, <1>2, <2>1 DEF StageRight, LinksRight
<1>4. fd[f] \notin Sieve!Ends
  BY <1>1, <1>3, OpenEnds
<1> QED
  BY <1>1, <1>4 DEF Rows, fd

-----------------------------------------------------------------------------
(* Theorems                                                                *)

\* The search keeps its invariant: the recursion is a path of open directories, and
\* what readdir has returned so far was printed or opened (find.c).
THEOREM FindInvariant == N \in Nat => (Find!Spec => []FindInv)
<1> SUFFICES ASSUME N \in Nat PROVE Find!Spec => []FindInv
  OBVIOUS
<1>1. Find!Init => FindInv
  BY InitFind
<1>2. FindInv /\ [Find!Next]_(Find!vars) => FindInv'
  <2> SUFFICES ASSUME FindInv, [Find!Next]_(Find!vars) PROVE FindInv'
    OBVIOUS
  <2>1. CASE Find!ReadDir
    BY <2>1, ReadDirKeeps
  <2>2. CASE Find!OpenAt
    BY <2>2, OpenAtKeeps
  <2>3. CASE Find!FdOpenDir
    BY <2>3, FdOpenDirKeeps
  <2>4. CASE Find!Return
    BY <2>4, ReturnKeeps
  <2>5. CASE Find!Others
    BY <2>5, OthersKeeps
  <2>6. CASE UNCHANGED Find!vars
    <3>1. UNCHANGED <<parent, dirs, exist, changed, frames, fds, out, ret, leaked>>
      BY <2>6 DEF Find!vars
    <3>2. TreeInv' /\ Find!PathTo' = Find!PathTo /\ \A x : PathOf(x)' = PathOf(x)
      BY <3>1, SameTree DEF FindInv
    <3>3. ExistInv' /\ FrameInv'
      BY <3>1, <3>2 DEF FindInv, ExistInv, FrameInv
    <3>4. Held' = Held /\ AtHand' = AtHand /\ Find!At("fdopendir")' = Find!At("fdopendir")
      BY <3>1 DEF Held, AtHand, Find!At, Find!Top
    <3>5. OpenInv'
      BY <3>1, <3>4 DEF FindInv, OpenInv
    <3>6. \A S : Seen(S) => Seen(S)'
      BY <3>1, <3>2, <3>4 DEF Seen
    <3> QED
      BY <3>1, <3>2, <3>3, <3>5, <3>6 DEF FindInv
  <2> QED
    BY <2>1, <2>2, <2>3, <2>4, <2>5, <2>6 DEF Find!Next, Find!Walk
<1> QED
  BY <1>1, <1>2, PTL DEF Find!Spec

\* A search that ends well has seen all that was there all the time.
LEMMA AllSeen ==
  ASSUME N \in Nat, FindInv, NEW S \in SUBSET Node, Seen(S), frames = <<>>, ret = 0
  PROVE  exist \ changed \subseteq S
<1> DEFINE Missed == (exist \ changed) \ S
<1> SUFFICES ASSUME Missed # {} PROVE FALSE
  OBVIOUS
<1>0. TreeInv /\ ExistInv
  BY DEF FindInv
<1>1. Missed \in SUBSET Nat
  BY <1>0 DEF ExistInv, Node, Find!Node
<1>2. PICK m \in Missed : \A k \in Missed : m =< k
  <2> HIDE DEF Missed
  <2> QED
    BY <1>1, Least
<1>3. m \in exist \ changed /\ m \notin S /\ m \in Node
  BY <1>0, <1>2 DEF ExistInv
<1>4. parent[m] < m /\ parent[m] \in Nat /\ m \in Nat
  BY <1>0, <1>3 DEF TreeInv, Node, Find!Node
<1>5. parent[m] \in (exist \ changed) \cup {0}
  BY <1>0, <1>3 DEF ExistInv
<1>6. parent[m] \in S \cup {0}
  BY <1>2, <1>4, <1>5
<1>7. AtHand = {} /\ DOMAIN frames = {}
  BY DEF AtHand
<1> QED
  BY <1>3, <1>6, <1>7 DEF Seen

\* A search that ends well has printed everything that matches and was there all the
\* time, and never anything twice or under another path (find_all_matches_within).
THEOREM FindIsRight == N \in Nat => (Find!Spec => []Find!SearchIsRight)
<1> SUFFICES ASSUME N \in Nat PROVE Find!Spec => []Find!SearchIsRight
  OBVIOUS
<1>1. Find!Spec => []FindInv
  BY FindInvariant
<1>2. FindInv => Find!SearchIsRight
  <2> SUFFICES ASSUME FindInv PROVE Find!SearchIsRight
    OBVIOUS
  <2>1. PICK S \in SUBSET Node : Seen(S)
    BY DEF FindInv
  <2>2. \A i \in DOMAIN out : \E n \in Matching : out[i] = Find!PathTo[n]
    BY <2>1 DEF Seen
  <2>3. \A i, j \in DOMAIN out : out[i] = out[j] => i = j
    BY <2>1 DEF Seen
  <2>4. ASSUME frames = <<>>, ret = 0, NEW n \in (Matching \cap exist) \ changed
        PROVE  \E i \in DOMAIN out : out[i] = Find!PathTo[n]
    <3>1. n \in S \cap Matching
      BY <2>1, <2>4, AllSeen
    <3> QED
      BY <2>1, <3>1 DEF Seen
  <2> QED
    BY <2>2, <2>3, <2>4 DEF Find!SearchIsRight, Find!Done
<1> QED
  BY <1>1, <1>2, PTL

\* Find has FiniteSets too.
LEMMA FindCounts == \A S : Find!Cardinality(S) = Cardinality(S)
BY DEF Find!Cardinality, Cardinality

\* One descriptor for each level of the recursion, none when it is over, and one that
\* is lost when fdopendir fails: never two (lines 172-176).
THEOREM FindClosesDirectories == N \in Nat => (Find!Spec => []Find!OneDescriptorPerLevel)
<1> SUFFICES ASSUME N \in Nat PROVE Find!Spec => []Find!OneDescriptorPerLevel
  OBVIOUS
<1>1. Find!Spec => []FindInv
  BY FindInvariant
<1>2. FindInv => Find!OneDescriptorPerLevel
  <2> SUFFICES ASSUME FindInv PROVE Find!OneDescriptorPerLevel
    OBVIOUS
  <2>1. OpenInv
    BY DEF FindInv
  <2>2. fds = {frames[i].dir : i \in DOMAIN frames} \cup leaked
               \cup (IF Find!At("fdopendir") THEN {Find!Top.entry} ELSE {})
    BY <2>1 DEF OpenInv, Held, Find!Top
  <2>3. CASE leaked = {}
    <3>1. Find!Cardinality(leaked) = 0
      BY <2>3, FS_EmptySet, FindCounts
    <3> QED
      BY <2>2, <3>1 DEF Find!OneDescriptorPerLevel
  <2>4. CASE \E d \in Node : leaked = {d}
    <3>1. PICK d \in Node : leaked = {d}
      BY <2>4
    <3>2. Cardinality({d}) = 1
      BY FS_Singleton
    <3>3. Find!Cardinality(leaked) = 1
      BY <3>1, <3>2, FindCounts
    <3> QED
      BY <2>2, <3>3 DEF Find!OneDescriptorPerLevel
  <2> QED
    BY <2>1, <2>3, <2>4 DEF OpenInv
<1> QED
  BY <1>1, <1>2, PTL

LEMMA PingPongNext ==
  ASSUME PingPongConstants, PingPongInv, [PingPong!Next]_(PingPong!vars) PROVE PingPongInv'
<1>1. ASSUME UNCHANGED PingPong!vars PROVE PingPongInv'
  <2>1. o' = o /\ procs' = procs
    BY <1>1 DEF PingPong!vars
  <2> QED
    BY <2>1 DEF PingPongInv, PlayersInv, NumberInv, Ping, Pong
<1>2. CASE PingPong!Main
  BY <1>2, MakePipe1Keeps, MakePipe2Keeps, ForkKeeps, PlayersWait DEF PingPong!Main
<1>3. ASSUME NEW p \in Players, PingPong!Step(p) \/ PingPong!Kill(p) PROVE PingPongInv'
  <2>1. CASE PingPong!Step(p)
    BY <2>1, CloseOneKeeps, WriteKeeps, ReadKeeps, PlayerExitKeeps DEF PingPong!Step
  <2>2. CASE PingPong!Kill(p)
    BY <2>2, DiesKeeps DEF PingPong!Kill
  <2> QED
    BY <1>3, <2>1, <2>2
<1> QED
  BY <1>1, <1>2, <1>3 DEF PingPong!Next

\* What each process has open is what its place in the program says, and what is
\* under way is what was sent.
THEOREM PingPongInvariant == ASSUME PingPongConstants PROVE PingPong!Spec => []PingPongInv
<1>1. PingPong!Init => PingPongInv
  BY InitPingPong
<1>2. PingPongInv /\ [PingPong!Next]_(PingPong!vars) => PingPongInv'
  BY PingPongNext
<1> QED
  BY <1>1, <1>2, PTL DEF PingPong!Spec

\* pingpong: a parent that returns 0 has read the very number that it wrote.
THEOREM PingPongAnswers == ASSUME PingPongConstants PROVE PingPong!Spec => []PingPong!RoundTrip
<1>1. PingPongInv => PingPong!RoundTrip
  BY DEF PingPongInv, NumberInv, PingPong!RoundTrip, PingPong!At, PingPong!Parent, Ping
<1> QED
  BY <1>1, PingPongInvariant, PTL

\* pingpong: whoever returns, having failed or not, has closed its pipes itself.
THEOREM PingPongCloses == ASSUME PingPongConstants PROVE PingPong!Spec => []PingPong!ClosesItsEnds
<1>1. ASSUME PingPongInv PROVE PingPong!ClosesItsEnds
  <2> SUFFICES ASSUME NEW p \in Players, procs[p].pc = "exit", NEW f \in PingPong!FD
               PROVE  o.fds[p][f] \in {PingPong!TTY, None}
    BY DEF PingPong!ClosesItsEnds, PingPong!At
  <2>1. Opened(o.fds[p]) = {} /\ o.fds[p] \in Tables
    BY <1>1, CallsOfPlayers DEF PingPongInv, PlayersInv, FdsRight
  <2>2. CASE f \in 3 .. 6
    BY <2>1, <2>2 DEF Opened
  <2>3. CASE f \notin 3 .. 6
    <3>1. Files(f) \subseteq {PingPong!TTY, None}
      BY <2>3 DEF Files
    <3> QED
      BY <2>1, <3>1 DEF Tables
  <2> QED
    BY <2>2, <2>3
<1> QED
  BY <1>1, PingPongInvariant, PTL

\* The descriptors and the states of the processes, with their types, for chains of any
\* length, pipes of any size and any number of calls that fail.
THEOREM SieveInvariant == ASSUME SieveConstants PROVE Sieve!Spec => []SieveInv
<1>1. Sieve!Init => SieveInv
  BY InitSieve
<1>2. SieveInv /\ [Sieve!Next]_(Sieve!vars) => SieveInv'
  BY SieveNext
<1> QED
  BY <1>1, <1>2, PTL DEF Sieve!Spec

\* Types: each process has one row of descriptors, and what is in a pipe are numbers
\* from 2 to MAX, no more than it holds.
THEOREM SieveTypeOK == ASSUME SieveConstants PROVE Sieve!Spec => []Sieve!TypeOK
<1>1. SieveInv => Sieve!TypeOK
  BY SieveTypes
<1> QED
  BY <1>1, SieveInvariant, PTL

\* Who has the end of a pipe is who made it, or his child; for the moment in which
\* somebody closes what he inherited, one generation further (primes.c:136-152). So
\* each stage sees end of file when its parent is done, however long the chain.
THEOREM SieveEndsAreNeighbours == ASSUME SieveConstants PROVE Sieve!Spec => []Sieve!EndsAreNeighbours
<1>1. SieveInv => Sieve!EndsAreNeighbours
  BY SieveNeighbours
<1> QED
  BY <1>1, SieveInvariant, PTL

\* On every path, those where pipe() or fork() fails included, a process that returns
\* from main has closed all its pipes, though each frame closes by numbers alone.
THEOREM SieveCloses == ASSUME SieveConstants PROVE Sieve!Spec => []Sieve!ClosesItsEnds
<1>1. SieveInv => Sieve!ClosesItsEnds
  BY SieveShut
<1> QED
  BY <1>1, SieveInvariant, PTL
=============================================================================
