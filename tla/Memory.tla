------------------------------- MODULE Memory -------------------------------
(***************************************************************************)
(* The address spaces of JOS: the system calls on pages and the page half  *)
(* of IPC (kern/syscall.c), the life of an environment's memory            *)
(* (kern/env.c), and the TLB of each CPU.                                  *)
(*                                                                         *)
(* A kernel entry runs from trap to env_run or sched_halt under the kernel *)
(* lock (module KernelLock), so it is one action; which environment it     *)
(* ends in is the scheduler's choice (module Mlfq), here any that may run. *)
(* Calls that are refused before they change anything are left out.        *)
(*                                                                         *)
(* tlb[c] is the worst case of what CPU c may have cached: every           *)
(* translation it could have walked to since its last lcr3.                *)
(***************************************************************************)
EXTENDS PageTables

CONSTANTS CPU,
          NoVA,      \* dstva 0 of sys_ipc_recv, srcva UTOP of sys_ipc_try_send
          Image,     \* what load_icode maps: segments and stack
          KEPT,      \* how many of the pages page_init may keep to itself
          LIBRARY    \* programs change the address space of a child only
                     \* before they start it, as lib/fork.c does; FALSE: also
                     \* while it runs, as the kernel lets them

ASSUME CPUAssumption == None \notin CPU /\ CPU # {}
ASSUME ImageAssumption == Image \subseteq VA /\ NoVA \notin VA /\ KEPT \subseteq Nat
ASSUME PermAssumption == "w" \in Perm
ASSUME LibraryAssumption == LIBRARY \in BOOLEAN

VARIABLES mem,                        \* pages, pp_ref, directories and tables
          status, parent,             \* fields of struct Env
          recving, dstva, ipc_perm,   \* env_ipc_*
          curenv, tlb                 \* per CPU

ipcVars == <<recving, dstva, ipc_perm>>
vars == <<mem, status, parent, ipcVars, curenv, tlb>>

-----------------------------------------------------------------------------
(* Boot: env_create of the first environment                               *)

Init ==
  \E e0 \in Env, where \in [{None} \cup Image \cup {TableOf[v] : v \in Image} -> Page],
     kept \in {K \in SUBSET Page : Cardinality(K) \in KEPT} :
    LET used == {where[x] : x \in DOMAIN where}
        held(e, x) == IF e = e0 /\ x \in DOMAIN where THEN where[x] ELSE None
    IN
    /\ \A x, y \in DOMAIN where : where[x] = where[y] => x = y
    /\ used \cap kept = {}
    /\ mem = [free |-> Page \ (used \cup kept),
              ref |-> [p \in Page |-> IF p \in used THEN 1 ELSE 0],
              pgdir |-> [e \in Env |-> held(e, None)],
              pde |-> [e \in Env |-> [t \in Table |-> held(e, t)]],
              pte |-> [e \in Env |-> [v \in VA |->
                         IF held(e, v) = None THEN Unmapped
                         ELSE [page |-> held(e, v), perm |-> "w"]]]]
    /\ status = [e \in Env |-> IF e = e0 THEN "RUNNABLE" ELSE "FREE"]
    /\ parent = [e \in Env |-> None]
    /\ recving = [e \in Env |-> FALSE]
    /\ dstva = [e \in Env |-> NoVA]
    /\ ipc_perm = [e \in Env |-> "0"]
    /\ curenv = [c \in CPU |-> None]
    /\ tlb = [c \in CPU |-> {}]

-----------------------------------------------------------------------------
(* Into and out of the kernel                                              *)

Cached(e) == IF e = None THEN {} ELSE Translations(mem', e)

\* Mutant of Flush: an environment that is resumed keeps its translations.
FlushOnSwitch(c) ==
  tlb' = [d \in CPU |-> IF d = c /\ curenv'[c] # curenv[c] THEN Cached(curenv'[c])
                        ELSE tlb[d] \cup Cached(curenv'[d])]

\* env_run and sched_halt load cr3 and so empty c's TLB; the other CPUs go on
\* walking the tables the kernel has just changed.
Flush(c) ==
  tlb' = [d \in CPU |-> IF d = c THEN Cached(curenv'[c])
                        ELSE tlb[d] \cup Cached(curenv'[d])]

\* The call returns to its caller, which is still running.
Return(c) == UNCHANGED curenv /\ Flush(c)

\* sched_yield: st is the status of each environment, after what the call did.
\* c takes an environment that may run, itself if it still does, or halts.
SchedYield(c, st) ==
  LET e == curenv[c]
      may == {x \in Env : st[x] = "RUNNABLE"} \cup
             {x \in {e} \ {None} : st[x] = "RUNNING"}
      left == [x \in Env |-> IF x = e /\ st[x] = "RUNNING" THEN "RUNNABLE" ELSE st[x]]
  IN /\ \/ \E n \in may : /\ curenv' = [curenv EXCEPT ![c] = n]
                          /\ status' = [left EXCEPT ![n] = "RUNNING"]
        \/ may = {} /\ curenv' = [curenv EXCEPT ![c] = None] /\ status' = st
     /\ Flush(c)

\* The program of c's environment traps, and is not a zombie.
Calls(c, e) == curenv[c] = e /\ status[e] = "RUNNING"

\* A clock interrupt, or sys_yield
Timer(c) ==
  /\ curenv[c] # None => status[curenv[c]] = "RUNNING"
  /\ UNCHANGED <<mem, parent, ipcVars>>
  /\ SchedYield(c, status)

-----------------------------------------------------------------------------
(* The life of an environment                                              *)

\* sys_exofork: env_alloc with env_setup_vm.  A new env_id: whoever was a child
\* of the former environment in that slot is nobody's child now.
SysExofork(c) ==
  \E e, n \in Env, d \in mem.free :
    /\ Calls(c, e)
    /\ status[n] = "FREE"
    /\ mem' = EnvSetupVm(mem, n, d)
    /\ status' = [status EXCEPT ![n] = "NOT_RUNNABLE"]
    /\ parent' = [x \in Env |-> IF x = n THEN e
                                ELSE IF parent[x] = n THEN None ELSE parent[x]]
    /\ recving' = [recving EXCEPT ![n] = FALSE]
    /\ Return(c)
    /\ UNCHANGED <<dstva, ipc_perm>>

\* A child that sys_exofork has made and nobody has started
Embryo(e) == status[e] = "NOT_RUNNABLE" /\ ~recving[e]

\* Mutant of Envid2env: any environment may be named.
Envid2envAny(e, x) == status[x] # "FREE"

\* envid2env with checkperm
Envid2env(e, x) == x = e \/ (status[x] # "FREE" /\ parent[x] = e)

\* sys_env_set_status of a new child
SysEnvSetStatus(c) ==
  \E e, x \in Env :
    /\ Calls(c, e)
    /\ Envid2env(e, x) /\ Embryo(x)
    /\ status' = [status EXCEPT ![x] = "RUNNABLE"]
    /\ UNCHANGED <<mem, parent, ipcVars>>
    /\ Return(c)

\* sys_env_destroy, or a fault of e itself.  An environment that runs on another
\* CPU becomes a zombie; that a program destroys a zombie is left to Mlfq.
SysEnvDestroy(c) ==
  \E e, x \in Env :
    /\ Calls(c, e)
    /\ Envid2env(e, x) /\ status[x] # "DYING"
    /\ IF status[x] = "RUNNING" /\ x # e
       THEN /\ status' = [status EXCEPT ![x] = "DYING"]
            /\ UNCHANGED mem
            /\ Return(c)
       ELSE /\ mem' = EnvFreePages(mem, x)
            /\ IF x = e THEN SchedYield(c, [status EXCEPT ![x] = "FREE"])
               ELSE status' = [status EXCEPT ![x] = "FREE"] /\ Return(c)
    /\ UNCHANGED <<parent, ipcVars>>

\* trap() of an environment that was destroyed while it ran here
TrapOfZombie(c) ==
  \E e \in Env :
    /\ curenv[c] = e /\ status[e] = "DYING"
    /\ mem' = EnvFreePages(mem, e)
    /\ SchedYield(c, [status EXCEPT ![e] = "FREE"])
    /\ UNCHANGED <<parent, ipcVars>>

-----------------------------------------------------------------------------
(* System calls on pages                                                   *)

\* Whose address space e may change
MayChange(e, x) == Envid2env(e, x) /\ (LIBRARY /\ x # e => Embryo(x))

\* env_page_alloc; the page is lost when page_insert fails
EnvPageAlloc(m, x, va, perm, p, q) == PageInsert(PageAlloc(m, p), x, p, va, perm, q)

\* The page for a new table, when p has been taken before
SecondPage(m, p) == FreePages(PageAlloc(m, p))

SysPageAlloc(c) ==
  \E e, x \in Env, va \in VA, perm \in Perm, p \in mem.free :
    /\ Calls(c, e)
    /\ MayChange(e, x)
    /\ \E q \in SecondPage(mem, p) : mem' = EnvPageAlloc(mem, x, va, perm, p, q)
    /\ Return(c)
    /\ UNCHANGED <<status, parent, ipcVars>>

\* Mutant of MayMap: a page is mapped writable whatever the source says.
MayMapAnyhow(m, e, va, perm) == Mapped(m, e, va)

\* The tests of env_page_map
MayMap(m, e, va, perm) ==
  Mapped(m, e, va) /\ (perm = "w" => m.pte[e][va].perm = "w")

SysPageMap(c) ==
  \E e, src, dst \in Env, srcva, va \in VA, perm \in Perm, q \in FreePages(mem) :
    /\ Calls(c, e)
    /\ Envid2env(e, src) /\ MayChange(e, dst)
    /\ MayMap(mem, src, srcva, perm)
    /\ mem' = PageInsert(mem, dst, mem.pte[src][srcva].page, va, perm, q)
    /\ Return(c)
    /\ UNCHANGED <<status, parent, ipcVars>>

SysPageUnmap(c) ==
  \E e, x \in Env, va \in VA :
    /\ Calls(c, e)
    /\ MayChange(e, x) /\ Mapped(mem, x, va)
    /\ mem' = PageRemove(mem, x, va)
    /\ Return(c)
    /\ UNCHANGED <<status, parent, ipcVars>>

-----------------------------------------------------------------------------
(* IPC                                                                     *)

\* sys_ipc_recv with a page-aligned address below UTOP, 0 for no page.  Any other is
\* refused after env_ipc_recving was set, and what follows is about scheduling: the
\* action SysIpcRecv of Mlfq.  Programs of this module do not pass one, nor does
\* lib/ipc.c by itself.
SysIpcRecv(c) ==
  \E e \in Env, va \in VA \cup {NoVA} :
    /\ Calls(c, e)
    /\ recving' = [recving EXCEPT ![e] = TRUE]
    /\ dstva' = [dstva EXCEPT ![e] = va]
    /\ UNCHANGED <<mem, parent, ipc_perm>>
    /\ SchedYield(c, [status EXCEPT ![e] = "NOT_RUNNABLE"])

\* The label bail of sys_ipc_try_send
Deliver(c, x) ==
  /\ recving' = [recving EXCEPT ![x] = FALSE]
  /\ status' = [status EXCEPT ![x] = "RUNNABLE"]
  /\ Return(c)
  /\ UNCHANGED <<parent, dstva>>

\* A value without a page
SendValue(c) ==
  \E e, x \in Env :
    /\ Calls(c, e) /\ status[x] # "FREE" /\ recving[x]
    /\ ipc_perm' = [ipc_perm EXCEPT ![x] = "0"]
    /\ UNCHANGED mem
    /\ Deliver(c, x)

\* The entry sys_ipc_try_send tests: that of srcva when page_lookup found one,
\* otherwise whatever an uninitialized pointer leads to, which may pass.
SrcpteAllows(e, va, perm) ==
  Mapped(mem, e, va) /\ perm = "w" => mem.pte[e][va].perm = "w"

\* A value with a page for a receiver that asked for none: its env_ipc_perm
\* keeps what it was.
SendPageUnwanted(c) ==
  \E e, x \in Env, va \in VA, perm \in Perm :
    /\ Calls(c, e) /\ status[x] # "FREE" /\ recving[x]
    /\ SrcpteAllows(e, va, perm)
    /\ dstva[x] = NoVA
    /\ UNCHANGED <<mem, ipc_perm>>
    /\ Deliver(c, x)

\* A value with a page: env_page_alloc of a page nobody asked for, then
\* env_page_map over it, either of which may fail and leave the receiver waiting.
SendPage(c) ==
  \E e, x \in Env, srcva \in VA, perm \in Perm, p \in mem.free :
    /\ Calls(c, e) /\ status[x] # "FREE" /\ recving[x]
    /\ SrcpteAllows(e, srcva, perm)
    /\ dstva[x] # NoVA
    /\ \E q \in SecondPage(mem, p) :
         LET va == dstva[x]
             m == EnvPageAlloc(mem, x, va, perm, p, q)
             sent == Inserts(mem, x, va, q) /\ MayMap(m, e, srcva, perm)
         IN IF sent
            THEN /\ mem' = PageInsert(m, x, m.pte[e][srcva].page, va, perm, None)
                 /\ ipc_perm' = [ipc_perm EXCEPT ![x] = perm]
                 /\ Deliver(c, x)
            ELSE /\ mem' = m
                 /\ Return(c)
                 /\ UNCHANGED <<status, parent, ipcVars>>

SysIpcTrySend(c) == SendValue(c) \/ SendPageUnwanted(c) \/ SendPage(c)

-----------------------------------------------------------------------------

Next ==
  \E c \in CPU :
    \/ Timer(c) \/ TrapOfZombie(c)
    \/ SysExofork(c) \/ SysEnvSetStatus(c) \/ SysEnvDestroy(c)
    \/ SysPageAlloc(c) \/ SysPageMap(c) \/ SysPageUnmap(c)
    \/ SysIpcRecv(c) \/ SysIpcTrySend(c)

Spec == Init /\ [][Next]_vars

-----------------------------------------------------------------------------
(* Properties                                                              *)

Statuses == {"FREE", "DYING", "RUNNABLE", "RUNNING", "NOT_RUNNABLE"}

\* Type correctness of the state of kern/pmap.c, kern/env.c and the CPUs.
TypeOK ==
  /\ mem \in Memories
  /\ status \in [Env -> Statuses]
  /\ parent \in [Env -> Env \cup {None}]
  /\ recving \in [Env -> BOOLEAN]
  /\ dstva \in [Env -> VA \cup {NoVA}]
  /\ ipc_perm \in [Env -> Perm \cup {"0"}]
  /\ curenv \in [CPU -> Env \cup {None}]
  /\ tlb \in [CPU -> SUBSET (VA \X Mapping)]

RefsCounted == \A p \in Page : mem.ref[p] = Cardinality(Refs(mem, p))
FreePagesUnused == \A p \in mem.free : Refs(mem, p) = {}

\* pp_ref counts the directories, tables and mappings that refer to a page, through
\* every replacement of a mapping by page_insert, the page's own one too; and no page
\* on page_free_list is in use: page_alloc never hands out memory that somebody still
\* has in an address space or walks as a table.
PagesCounted == TypeOK /\ RefsCounted /\ FreePagesUnused

TablesArePrivate ==
  \A s \in Place : s[2] \notin VA /\ Held(mem, s) # None =>
    Refs(mem, Held(mem, s)) = {s}

SpacesLive ==
  \A e \in Env :
    IF status[e] = "FREE"
    THEN \A s \in Place : s[1] = e => Held(mem, s) = None
    ELSE mem.pgdir[e] # None

\* A page that is a directory or a page table is nothing else: no program ever
\* writes in it, and it goes with its environment.  An address space exists as long
\* as its environment: nobody who may run has no directory, and an environment that
\* is free holds no memory.
SpacesSound == TablesArePrivate /\ SpacesLive

\* While programs change a child's address space only before it runs, no CPU has
\* a translation that is not in the tables: page_remove's invlpg on the CPU that
\* executes it and lcr3 at every return are enough.
TlbsCoherent ==
  \A c \in CPU : tlb[c] \subseteq
    IF curenv[c] = None THEN {} ELSE Translations(mem, curenv[c])

Writable(m, p) == \E e \in Env, va \in VA : m.pte[e][va] = [page |-> p, perm |-> "w"]

WriteNeverGained ==
  \A p \in Page : Writable(mem', p) => Writable(mem, p) \/ p \in mem.free

SpaceIsPrivate ==
  \A e \in Env, va \in VA :
    mem'.pte[e][va] # mem.pte[e][va] =>
      \/ \E c \in CPU : curenv[c] # None /\ curenv[c] \in {e, parent[e]}
      \/ recving[e] /\ dstva[e] = va

\* Nobody becomes able to write in a page that nobody could write in, except in one
\* fresh from page_alloc: mapping and sending pages never add rights.  And an address
\* space changes only by the calls of its environment, by its parent's, or to receive
\* a page where it asked for one.
MemoryIsPrivate == [][WriteNeverGained /\ SpaceIsPrivate]_vars

\* When an environment goes, every page that only it referred to is free again,
\* those of its tables and of its directory too (env_free).
MemoryComesBack ==
  [][\A e \in Env : status[e] # "FREE" /\ status'[e] = "FREE" =>
       \A p \in Page : Refs(mem, p) # {} /\ (\A s \in Refs(mem, p) : s[1] = e) =>
         p \in mem'.free]_vars
=============================================================================
