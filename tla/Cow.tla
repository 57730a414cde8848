-------------------------------- MODULE Cow ---------------------------------
(***************************************************************************)
(* fork of the user library (lib/fork.c): copy-on-write, with its page     *)
(* fault handler, the version of part 2 that copies (fork_v0), and         *)
(* user/dumbfork.c.  The library is ordinary code between system calls:    *)
(* each action is one of its calls, and between two of them everybody else *)
(* runs, and the caller itself pushes on its stack.                        *)
(*                                                                         *)
(* The system calls are those of module Memory, applied to the tables of   *)
(* PageTables: a mapping of one's own or of a child that has not started,  *)
(* so no TLB is stale (TlbsCoherent there).  Which page page_alloc returns *)
(* is not observable here; it is any fixed one.                            *)
(***************************************************************************)
EXTENDS PageTables, Sequences

CONSTANTS
  Value,         \* what a page may hold
  Text, Data,    \* pages that load_icode may map: read-only; writable
  Stack,         \* the user stack below USTACKTOP
  UxStack,       \* the exception stack below UXSTACKTOP
  Pftemp, Utemp, \* where pgfault and the forks that copy map a page for a while
  Order,         \* VA in the order of addresses
  NFORK          \* how often programs fork, to bound the model

\* What a process has a copy of after a fork
Addr == Text \cup Data \cup {Stack}

ASSUME LayoutAssumption ==
  /\ Text \cup Data \cup {Stack, UxStack, Pftemp, Utemp} = VA
  /\ Text \cap Data = {} /\ Stack \notin Text \cup Data
  /\ {UxStack, Pftemp, Utemp} \cap (Text \cup Data \cup {Stack}) = {}
  /\ UxStack # Pftemp /\ UxStack # Utemp /\ Pftemp # Utemp
ASSUME OrderAssumption ==
  /\ Order \in Seq(VA)
  /\ \A va \in VA : \E i \in DOMAIN Order : Order[i] = va
  /\ \A i, j \in DOMAIN Order : Order[i] = Order[j] => i = j
ASSUME ValueAssumption ==
  Value # {} /\ None \notin Value /\ None \notin [Addr -> Value \cup {None}]
ASSUME PermAssumption == Perm = {"r", "w", "cow"}

VARIABLES
  mem,        \* the tables of all environments (module PageTables)
  content,    \* what each page holds
  status,     \* of struct Env: "FREE", "NOT_RUNNABLE" or "RUNNABLE"; "KILLED" for a
              \* slot the kernel freed by destroying its environment, "PANIC" for an
              \* environment that panic() ended
  upcall,     \* env_pgfault_upcall is set
  pgfault_handler, \* _pgfault_handler, in the memory of the program
  frame,      \* where each environment is in a fork
  fault,      \* where it is in pgfault
  forks,      \* how many forks were begun
  kinds,      \* the forks that the programs use: "fork", "fork_v0", "dumbfork"
  refused     \* whether a call found no page or no free environment

vars == <<mem, content, status, upcall, pgfault_handler, frame, fault, forks, kinds, refused>>

FrameAt(kind, step) ==
  [kind |-> kind, step |-> step, i |-> 0, child |-> None, pte |-> "none"]
NoFrame == FrameAt("none", "user")
NoFault == [step |-> "none", va |-> None, val |-> None]

PageOf(e, va) == mem.pte[e][va].page
PermOf(e, va) == mem.pte[e][va].perm

\* The page a page_alloc on m would return, None when there is none
Pick(m) == IF m.free = {} THEN None ELSE CHOOSE p \in m.free : TRUE

-----------------------------------------------------------------------------
(* The first program, as env_create leaves it                              *)

\* Its directory, its page tables and its pages
Parts(has) == {None} \cup {TableOf[v] : v \in has} \cup has

\* The program of e0 has the pages in `has', each part of it the page in `where'.
\* Any of the others are free.
InitAt(e0, has, where, free) ==
  LET used == {where[x] : x \in Parts(has)}
      held(e, x) == IF e = e0 /\ x \in Parts(has) THEN where[x] ELSE None
  IN
  /\ mem = [free |-> free,
            ref |-> [p \in Page |-> IF p \in used THEN 1 ELSE 0],
            pgdir |-> [e \in Env |-> held(e, None)],
            pde |-> [e \in Env |-> [t \in Table |-> held(e, t)]],
            pte |-> [e \in Env |-> [v \in VA |->
                       IF held(e, v) = None THEN Unmapped
                       ELSE [page |-> where[v],
                             perm |-> IF v \in Text THEN "r" ELSE "w"]]]]
  /\ status = [e \in Env |-> IF e = e0 THEN "RUNNABLE" ELSE "FREE"]
  /\ upcall = [e \in Env |-> FALSE]
  /\ pgfault_handler = [e \in Env |-> FALSE]
  /\ frame = [e \in Env |-> NoFrame]
  /\ fault = [e \in Env |-> NoFault]
  /\ forks = 0
  /\ refused = FALSE

\* Nobody uses both fork and the version it replaced.
KindSets == {k \in SUBSET {"fork", "fork_v0", "dumbfork"} : ~{"fork", "fork_v0"} \subseteq k}

Init ==
  /\ \E e0 \in Env, has \in {h \in SUBSET Addr : Stack \in h} :
       \E where \in [Parts(has) -> Page] :
         /\ \A x, y \in Parts(has) : where[x] = where[y] => x = y
         /\ \E free \in SUBSET (Page \ {where[x] : x \in Parts(has)}) :
              InitAt(e0, has, where, free)
  /\ content \in [Page -> Value]
  /\ kinds \in KindSets

-----------------------------------------------------------------------------
(* System calls                                                            *)

\* page_alloc clears the page it returns.
Zero == CHOOSE v \in Value : TRUE

Zeroed == IF Pick(mem) = None THEN content ELSE [content EXCEPT ![Pick(mem)] = Zero]

\* sys_page_alloc of a writable page at va of x
Alloc(x, va) ==
  LET p == Pick(mem)
      taken == PageAlloc(mem, p)
  IN IF p = None THEN mem ELSE PageInsert(taken, x, p, va, "w", Pick(taken))

AllocFails(x, va) ==
  \/ mem.free = {}
  \/ mem.pde[x][TableOf[va]] = None /\ mem.free = {Pick(mem)}

\* sys_page_map of what src has at srcva, and its success
Maps(src, srcva, x, va, perm) ==
  /\ Mapped(mem, src, srcva)
  /\ perm = "w" => PermOf(src, srcva) = "w"
  /\ Inserts(mem, x, va, Pick(mem))

Map(src, srcva, x, va, perm) ==
  IF Maps(src, srcva, x, va, perm)
  THEN PageInsert(mem, x, PageOf(src, srcva), va, perm, Pick(mem))
  ELSE mem

\* After a call that fails, the library panics: the environment stays where it is.
Panic(e) == status' = [status EXCEPT ![e] = "PANIC"] /\ UNCHANGED <<frame, fault>>

\* e calls, and goes on with `next' or panics.
SysPageAlloc(e, x, va, next) ==
  /\ mem' = Alloc(x, va)
  /\ content' = Zeroed
  /\ IF AllocFails(x, va) THEN Panic(e) /\ refused' = TRUE
     ELSE next /\ UNCHANGED <<status, refused>>

SysPageMap(e, src, srcva, x, va, perm, next) ==
  /\ mem' = Map(src, srcva, x, va, perm)
  /\ IF Maps(src, srcva, x, va, perm) THEN next /\ UNCHANGED <<status, refused>>
     ELSE Panic(e) /\ refused' = (refused \/ ~Inserts(mem, x, va, Pick(mem)))
  /\ UNCHANGED content

\* The kernel destroys e.
Kill(e) ==
  /\ mem' = EnvFreePages(mem, e)
  /\ status' = [status EXCEPT ![e] = "KILLED"]
  /\ fault' = [fault EXCEPT ![e] = NoFault]

-----------------------------------------------------------------------------
(* Stores, and page faults (kern/trap.c, lib/pgfault.c, pgfault of fork.c) *)

\* What only set_pgfault_handler, exofork and the beginning of a fork change
library == <<upcall, pgfault_handler, forks, kinds>>

\* page_fault_handler: upcall on the exception stack, which must be writable
TakeFault(e, va, v) ==
  IF upcall[e] /\ PermOf(e, UxStack) = "w"
  THEN /\ fault' = [fault EXCEPT ![e] = [step |-> "alloc", va |-> va, val |-> v]]
       /\ UNCHANGED <<mem, status, frame>>
  ELSE Kill(e) /\ frame' = [frame EXCEPT ![e] = NoFrame]

Store(e, va, v) ==
  /\ IF PermOf(e, va) = "w"
     THEN /\ content' = [content EXCEPT ![PageOf(e, va)] = v]
          /\ fault' = [fault EXCEPT ![e] = NoFault]
          /\ UNCHANGED <<mem, status, frame>>
     ELSE TakeFault(e, va, v) /\ UNCHANGED content
  /\ UNCHANGED <<library, refused>>

Runs(e) == status[e] = "RUNNABLE" /\ fault[e] = NoFault

\* The program writes in its data or on its stack; in a fork, whose calls push,
\* on the stack.
Write(e) ==
  \E va \in Data \cup {Stack}, v \in Value :
    /\ Runs(e) /\ Mapped(mem, e, va)
    /\ frame[e].step # "user" => va = Stack
    /\ Store(e, va, v)

FaultAt(e, step) == status[e] = "RUNNABLE" /\ fault[e].step = step
FaultStep(e, step) == fault' = [fault EXCEPT ![e].step = step] /\ UNCHANGED frame

\* pgfault; its test of the fault is always passed (fork.c:27 computes a bitwise
\* and of FEC_WR, which is 2, with 0 or 1)
PgfaultAlloc(e) ==
  /\ FaultAt(e, "alloc")
  /\ SysPageAlloc(e, e, Pftemp, FaultStep(e, "copy"))
  /\ UNCHANGED library

PgfaultCopy(e) ==
  /\ FaultAt(e, "copy")
  /\ content' = [content EXCEPT ![PageOf(e, Pftemp)] = content[PageOf(e, fault[e].va)]]
  /\ FaultStep(e, "map")
  /\ UNCHANGED <<mem, status, library, refused>>

\* Mutant of PgfaultMap: the copy is mapped copy-on-write again.
PgfaultMapCow(e) ==
  /\ FaultAt(e, "map")
  /\ SysPageMap(e, e, Pftemp, e, fault[e].va, "cow", FaultStep(e, "unmap"))
  /\ UNCHANGED library

PgfaultMap(e) ==
  /\ FaultAt(e, "map")
  /\ SysPageMap(e, e, Pftemp, e, fault[e].va, "w", FaultStep(e, "unmap"))
  /\ UNCHANGED library

PgfaultUnmap(e) ==
  /\ FaultAt(e, "unmap")
  /\ mem' = PageRemove(mem, e, Pftemp)
  /\ FaultStep(e, "retry")
  /\ UNCHANGED <<content, status, library, refused>>

\* pfentry.S returns to the instruction that faulted
Retry(e) == FaultAt(e, "retry") /\ Store(e, fault[e].va, fault[e].val)

Pgfault(e) == PgfaultAlloc(e) \/ PgfaultCopy(e) \/ PgfaultMap(e) \/ PgfaultUnmap(e)
              \/ Retry(e)

-----------------------------------------------------------------------------
(* fork, fork_v0 and dumbfork                                              *)

InFork(e, step) == Runs(e) /\ frame[e].step = step

\* The frame after a step
Step(e, step) == frame' = [frame EXCEPT ![e].step = step] /\ UNCHANGED fault
NextPage(e) == /\ frame' = [frame EXCEPT ![e].step = "read", ![e].i = @ + 1]
               /\ UNCHANGED fault
At(e) == Order[frame[e].i]
Child(e) == frame[e].child

BeginFork(e) ==
  /\ InFork(e, "user") /\ forks < NFORK
  /\ \E k \in kinds :
       frame' = [frame EXCEPT ![e] = FrameAt(k, IF k = "fork" /\ ~pgfault_handler[e]
                                                THEN "handler" ELSE "exofork")]
  /\ forks' = forks + 1
  /\ UNCHANGED <<mem, content, status, upcall, pgfault_handler, fault, kinds, refused>>

\* set_pgfault_handler, the first time; when there is no memory it gives up, and
\* fork goes on without a handler
SetPgfaultHandler(e) ==
  /\ InFork(e, "handler")
  /\ mem' = Alloc(e, UxStack)
  /\ content' = Zeroed
  /\ IF AllocFails(e, UxStack) THEN refused' = TRUE /\ UNCHANGED <<upcall, pgfault_handler>>
     ELSE /\ upcall' = [upcall EXCEPT ![e] = TRUE]
          /\ pgfault_handler' = [pgfault_handler EXCEPT ![e] = TRUE]
          /\ UNCHANGED refused
  /\ Step(e, "exofork")
  /\ UNCHANGED <<status, forks, kinds>>

\* env_alloc forgets the upcall; the memory of the child will be that of its parent
Exofork(e) ==
  /\ InFork(e, "exofork")
  /\ \/ \E n \in Env :
          /\ status[n] \in {"FREE", "KILLED"} /\ mem.free # {}
          /\ mem' = EnvSetupVm(mem, n, Pick(mem))
          /\ status' = [status EXCEPT ![n] = "NOT_RUNNABLE"]
          /\ upcall' = [upcall EXCEPT ![n] = FALSE]
          /\ pgfault_handler' = [pgfault_handler EXCEPT ![n] = pgfault_handler[e]]
          /\ frame' = [frame EXCEPT ![e].step = "read", ![e].i = 1, ![e].child = n]
          /\ UNCHANGED <<fault, refused>>
     \/ /\ mem.free = {} \/ \A n \in Env : status[n] \notin {"FREE", "KILLED"}
        /\ Panic(e) /\ refused' = TRUE
        /\ UNCHANGED <<mem, upcall, pgfault_handler>>
  /\ UNCHANGED <<content, forks, kinds>>

\* Mutant of Treatment: dup_or_share shares what may be written too.
TreatmentShares(e) ==
  IF ~Mapped(mem, e, At(e)) THEN "skip"
  ELSE IF frame[e].kind = "dumbfork" THEN "copy" ELSE "dup"

\* What the loop does with a page, decided on its uvpt entry: "skip" it, map it in
\* the child too ("dup"), or "copy" it
Treatment(e) ==
  LET va == At(e)
      kind == frame[e].kind
  IN IF ~Mapped(mem, e, va) THEN "skip"
     ELSE IF kind = "dumbfork" THEN IF va \in Addr THEN "copy" ELSE "skip"
     ELSE IF kind = "fork" /\ va = UxStack THEN "skip"
     ELSE IF kind = "fork_v0" /\ PermOf(e, va) = "w" THEN "copy"
     ELSE "dup"

ReadEntry(e) ==
  /\ InFork(e, "read") /\ frame[e].i =< Len(Order)
  /\ CASE Treatment(e) = "skip" -> NextPage(e)
       [] Treatment(e) = "copy" -> Step(e, "alloc")
       [] OTHER -> /\ frame' = [frame EXCEPT ![e].step = "child", ![e].pte = PermOf(e, At(e))]
                   /\ UNCHANGED fault
  /\ UNCHANGED <<mem, content, status, library, refused>>

LoopEnd(e) ==
  /\ InFork(e, "read") /\ frame[e].i > Len(Order)
  /\ Step(e, IF frame[e].kind = "fork" THEN "uxstack" ELSE "start")
  /\ UNCHANGED <<mem, content, status, library, refused>>

\* duppage and dup_or_share: the child's mapping first,
MapInChildAs(e, perm) ==
  /\ InFork(e, "child")
  /\ SysPageMap(e, e, At(e), Child(e), At(e), perm,
                IF perm = "r" THEN NextPage(e) ELSE Step(e, "self"))
  /\ UNCHANGED library

\* Mutant of MapInChild: a page is mapped in the child as it is in the parent.
MapInChildAsIs(e) == MapInChildAs(e, frame[e].pte)

MapInChild(e) ==
  MapInChildAs(e, IF frame[e].kind = "fork" /\ frame[e].pte # "r" THEN "cow" ELSE "r")

\* Mutant of MapInSelf: a page that was copy-on-write when the loop looked is left
\* alone.
MapInSelfIfWritable(e) ==
  /\ InFork(e, "self")
  /\ mem' = IF frame[e].pte = "cow" THEN mem ELSE Map(e, At(e), e, At(e), "cow")
  /\ NextPage(e)
  /\ UNCHANGED <<content, status, library, refused>>

\* then one's own, also when it was copy-on-write: it may be no longer
MapInSelf(e) ==
  /\ InFork(e, "self")
  /\ SysPageMap(e, e, At(e), e, At(e), "cow", NextPage(e))
  /\ UNCHANGED library

\* dup_or_share of a page it copies, and duppage of dumbfork.c
CopyAlloc(e) ==
  /\ InFork(e, "alloc")
  /\ SysPageAlloc(e, Child(e), At(e), Step(e, "map"))
  /\ UNCHANGED library

CopyMap(e) ==
  /\ InFork(e, "map")
  /\ SysPageMap(e, Child(e), At(e), e, Utemp, "w", Step(e, "copy"))
  /\ UNCHANGED library

CopyMove(e) ==
  /\ InFork(e, "copy")
  /\ content' = [content EXCEPT ![PageOf(e, Utemp)] = content[PageOf(e, At(e))]]
  /\ Step(e, "unmap")
  /\ UNCHANGED <<mem, status, library, refused>>

CopyUnmap(e) ==
  /\ InFork(e, "unmap")
  /\ mem' = PageRemove(mem, e, Utemp)
  /\ NextPage(e)
  /\ UNCHANGED <<content, status, library, refused>>

\* Mutant of ChildUxStack: the child shares its parent's exception stack.
ChildUxStackShared(e) ==
  /\ InFork(e, "uxstack")
  /\ SysPageMap(e, e, UxStack, Child(e), UxStack, "cow", Step(e, "upcall"))
  /\ UNCHANGED library

ChildUxStack(e) ==
  /\ InFork(e, "uxstack")
  /\ SysPageAlloc(e, Child(e), UxStack, Step(e, "upcall"))
  /\ UNCHANGED library

\* sys_env_set_pgfault_upcall; user_mem_assert destroys the child when there is
\* no upcall to give it, and then the id of the child is nobody's
ChildUpcall(e) ==
  /\ InFork(e, "upcall")
  /\ IF upcall[e]
     THEN /\ upcall' = [upcall EXCEPT ![Child(e)] = TRUE]
          /\ Step(e, "start")
          /\ UNCHANGED <<mem, status>>
     ELSE /\ Kill(Child(e))
          /\ frame' = [frame EXCEPT ![e].step = "start", ![e].child = None]
          /\ UNCHANGED upcall
  /\ UNCHANGED <<content, pgfault_handler, forks, kinds, refused>>

\* sys_env_set_status
StartChild(e) ==
  /\ InFork(e, "start")
  /\ IF Child(e) = None THEN Panic(e)
     ELSE /\ status' = [status EXCEPT ![Child(e)] = "RUNNABLE"]
          /\ frame' = [frame EXCEPT ![e] = NoFrame]
          /\ UNCHANGED fault
  /\ UNCHANGED <<mem, content, library, refused>>

Fork(e) ==
  \/ SetPgfaultHandler(e) \/ Exofork(e)
  \/ ReadEntry(e) \/ LoopEnd(e) \/ MapInChild(e) \/ MapInSelf(e)
  \/ CopyAlloc(e) \/ CopyMap(e) \/ CopyMove(e) \/ CopyUnmap(e)
  \/ ChildUxStack(e) \/ ChildUpcall(e) \/ StartChild(e)

Exit(e) ==
  /\ InFork(e, "user")
  /\ mem' = EnvFreePages(mem, e)
  /\ status' = [status EXCEPT ![e] = "FREE"]
  /\ UNCHANGED <<content, frame, fault, library, refused>>

Next == \E e \in Env : Write(e) \/ Pgfault(e) \/ BeginFork(e) \/ Fork(e) \/ Exit(e)

Spec == Init /\ [][Next]_vars

-----------------------------------------------------------------------------
(* Properties                                                              *)

\* Type correctness.
Frames ==
  [kind : {"none", "fork", "fork_v0", "dumbfork"},
   step : {"user", "handler", "exofork", "read", "child", "self", "alloc", "map", "copy",
           "unmap", "uxstack", "upcall", "start"},
   i : 0 .. Len(Order) + 1, child : Env \cup {None}, pte : Perm \cup {"none"}]
Faults ==
  [step : {"none", "alloc", "copy", "map", "unmap", "retry"},
   va : Data \cup {Stack, None}, val : Value \cup {None}]

TypeOK ==
  /\ mem \in Memories
  /\ content \in [Page -> Value]
  /\ status \in [Env -> {"FREE", "NOT_RUNNABLE", "RUNNABLE", "KILLED", "PANIC"}]
  /\ upcall \in [Env -> BOOLEAN] /\ pgfault_handler \in [Env -> BOOLEAN]
  /\ frame \in [Env -> Frames] /\ fault \in [Env -> Faults]
  /\ forks \in Nat /\ kinds \in KindSets /\ refused \in BOOLEAN

Live == {e \in Env : status[e] \in {"RUNNABLE", "PANIC"}}

\* What each process finds in its memory
View == [e \in Env |-> IF e \in Live
                       THEN [a \in Addr |-> IF Mapped(mem, e, a) THEN content[PageOf(e, a)]
                                            ELSE None]
                       ELSE None]

P == INSTANCE PrivateMemory WITH view <- View

\* Whatever is shared, each process finds in memory what it wrote there itself, or
\* its parent before the fork: the pages implement private memories.
MemoriesArePrivate == P!Spec

\* A page that an environment may write in is nobody else's, but for two moments of
\* a fork: between the calls of duppage, when the child does not run yet, and while
\* a page of the child is filled through UTEMP.
SharedIsReadOnly ==
  \A e, x \in Env, a \in Addr, b \in VA :
    /\ e # x /\ Mapped(mem, e, a) /\ PermOf(e, a) = "w"
    /\ Mapped(mem, x, b) /\ PageOf(x, b) = PageOf(e, a)
    => \/ frame[e].step = "self" /\ Child(e) = x /\ At(e) = a /\ a = b
       \/ frame[x].step \in {"copy", "unmap"} /\ Child(x) = e /\ At(x) = a /\ b = Utemp

\* Whoever runs with a copy-on-write page can take its fault: it has an upcall,
\* and an exception stack that is its own.
FaultsCanBeTaken ==
  \A e \in Env : status[e] = "RUNNABLE" /\ (\E a \in Addr : PermOf(e, a) = "cow") =>
    /\ upcall[e] /\ PermOf(e, UxStack) = "w"
    /\ Refs(mem, PageOf(e, UxStack)) = {<<e, UxStack>>}

\* A program that only writes where it may is not destroyed by the kernel, and its
\* library does not panic.
NobodyDies == \A e \in Env : status[e] \notin {"KILLED", "PANIC"}

\* Whatever is shared is read-only, so that a store faults; and with memory and
\* environments enough, and either fork or the forks that copy, who has such pages
\* can take the fault, and nobody is destroyed or panics.
SharingIsSafe ==
  /\ SharedIsReadOnly
  /\ ~refused /\ ("fork" \in kinds => kinds = {"fork"}) => FaultsCanBeTaken /\ NobodyDies
=============================================================================
