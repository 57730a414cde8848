----------------------------- MODULE PageTables -----------------------------
(***************************************************************************)
(* Physical pages and two-level page tables below UTOP (kern/pmap.c).      *)
(*                                                                         *)
(* m is the state of that memory, a record of                              *)
(*   free    the pages on page_free_list, whose order no property sees     *)
(*   ref     pp_ref of each page                                           *)
(*   pgdir   env_pgdir of each environment, None when it has none          *)
(*   pde     the entries of its directory: the page of each page table     *)
(*   pte     the entries of its tables: a page and a permission            *)
(* and each function of pmap.c is an operator from states to states.       *)
(* Where it calls page_alloc, the page it gets is a parameter: None when   *)
(* the list is empty.                                                      *)
(***************************************************************************)
EXTENDS Integers, FiniteSets

CONSTANTS Page,      \* physical pages
          Env,       \* the slots of envs[]
          VA,        \* pages of the address space below UTOP
          Table,     \* the entries of a page directory below PDX(UTOP)
          TableOf,   \* PDX, by page of the address space
          Perm,      \* permissions on top of PTE_P|PTE_U: "w" is PTE_W, the
                     \* others ("r": none, "cow": PTE_COW) do not allow writing
          None

ASSUME PageAssumption == IsFiniteSet(Page) /\ None \notin Page
ASSUME SpaceAssumption ==
  /\ IsFiniteSet(Env) /\ IsFiniteSet(VA) /\ IsFiniteSet(Table)
  /\ TableOf \in [VA -> Table]
  /\ VA \cap Table = {} /\ None \notin VA \cup Table \cup Env

Mapping == [page : Page, perm : Perm]

Unmapped == [page |-> None, perm |-> "r"]

Mapped(m, e, va) == m.pte[e][va] # Unmapped

Translations(m, e) == {<<va, m.pte[e][va]>> : va \in {v \in VA : Mapped(m, e, v)}}

Memories ==
  [free : SUBSET Page, ref : [Page -> Nat],
   pgdir : [Env -> Page \cup {None}],
   pde : [Env -> [Table -> Page \cup {None}]],
   pte : [Env -> [VA -> Mapping \cup {Unmapped}]]]

-----------------------------------------------------------------------------
(* Who refers to a page: e's directory <<e, None>>, table t <<e, t>> and    *)
(* mapping <<e, va>> are the places of an environment e.                    *)

Place == Env \X (VA \cup Table \cup {None})

Held(m, s) ==
  IF s[2] = None THEN m.pgdir[s[1]]
  ELSE IF s[2] \in Table THEN m.pde[s[1]][s[2]] ELSE m.pte[s[1]][s[2]].page

Refs(m, p) == {s \in Place : Held(m, s) = p}

-----------------------------------------------------------------------------
(* kern/pmap.c *)

\* The pages page_alloc may return
FreePages(m) == IF m.free = {} THEN {None} ELSE m.free

\* Mutant of PageAlloc: the head of the list stays where it is.
PageAllocAgain(m, p) == m

PageAlloc(m, p) == [m EXCEPT !.free = @ \ {p}]

PageDecref(m, p) ==
  [m EXCEPT !.ref[p] = @ - 1,
            !.free = IF m.ref[p] = 1 THEN @ \cup {p} ELSE @]

\* Mutant of PgdirWalk: the new table is not counted.
PgdirWalkUncounted(m, e, t, q) ==
  IF m.pde[e][t] # None \/ q = None THEN m
  ELSE [PageAlloc(m, q) EXCEPT !.pde[e][t] = q]

\* pgdir_walk with create set: q is the page it would get for a new table
PgdirWalk(m, e, t, q) ==
  IF m.pde[e][t] # None \/ q = None THEN m
  ELSE [PageAlloc(m, q) EXCEPT !.ref[q] = @ + 1, !.pde[e][t] = q]

PageRemove(m, e, va) ==
  IF Mapped(m, e, va)
  THEN PageDecref([m EXCEPT !.pte[e][va] = Unmapped], m.pte[e][va].page)
  ELSE m

\* page_insert succeeds unless it needs a table and there is no page for it
Inserts(m, e, va, q) == m.pde[e][TableOf[va]] # None \/ q # None

\* Mutant of PageInsert: the old mapping goes before the new one is counted.
PageInsertLate(m, e, p, va, perm, q) ==
  LET walked == PgdirWalk(m, e, TableOf[va], q)
      removed == PageRemove(walked, e, va)
  IN IF ~Inserts(m, e, va, q) THEN m
     ELSE [removed EXCEPT !.ref[p] = @ + 1,
                          !.pte[e][va] = [page |-> p, perm |-> perm]]

PageInsert(m, e, p, va, perm, q) ==
  LET walked == PgdirWalk(m, e, TableOf[va], q)
      removed == PageRemove([walked EXCEPT !.ref[p] = @ + 1], e, va)
  IN IF ~Inserts(m, e, va, q) THEN m
     ELSE [removed EXCEPT !.pte[e][va] = [page |-> p, perm |-> perm]]

-----------------------------------------------------------------------------
(* kern/env.c *)

\* Mutant of EnvSetupVm: the directory is not counted.
EnvSetupVmUncounted(m, e, d) == [PageAlloc(m, d) EXCEPT !.pgdir[e] = d]

\* env_setup_vm: d is the page of the new directory
EnvSetupVm(m, e, d) ==
  [PageAlloc(m, d) EXCEPT !.ref[d] = @ + 1, !.pgdir[e] = d]

\* Mutant of EnvFreePages: the page of the directory is not given back.
EnvFreePagesButDir(m, e) ==
  LET dropped(p) == {s \in Refs(m, p) : s[1] = e /\ s[2] # None}
      left == [p \in Page |-> m.ref[p] - Cardinality(dropped(p))]
  IN [free |-> m.free \cup {p \in Page : m.ref[p] > 0 /\ left[p] = 0},
      ref |-> left,
      pgdir |-> [m.pgdir EXCEPT ![e] = None],
      pde |-> [m.pde EXCEPT ![e] = [t \in Table |-> None]],
      pte |-> [m.pte EXCEPT ![e] = [va \in VA |-> Unmapped]]]

\* Mutant of EnvFreePages: the loop stops before the page tables are freed.
EnvFreePagesButTables(m, e) ==
  LET dropped(p) == {s \in Refs(m, p) : s[1] = e /\ s[2] \notin Table}
      left == [p \in Page |-> m.ref[p] - Cardinality(dropped(p))]
  IN [free |-> m.free \cup {p \in Page : m.ref[p] > 0 /\ left[p] = 0},
      ref |-> left,
      pgdir |-> [m.pgdir EXCEPT ![e] = None],
      pde |-> m.pde,
      pte |-> [m.pte EXCEPT ![e] = [va \in VA |-> Unmapped]]]

\* env_free: page_remove of every mapping, page_decref of every table and of
\* the directory.  A page goes to the free list when its last reference does.
EnvFreePages(m, e) ==
  LET dropped(p) == {s \in Refs(m, p) : s[1] = e}
      left == [p \in Page |-> m.ref[p] - Cardinality(dropped(p))]
  IN [free |-> m.free \cup {p \in Page : m.ref[p] > 0 /\ left[p] = 0},
      ref |-> left,
      pgdir |-> [m.pgdir EXCEPT ![e] = None],
      pde |-> [m.pde EXCEPT ![e] = [t \in Table |-> None]],
      pte |-> [m.pte EXCEPT ![e] = [va \in VA |-> Unmapped]]]
=============================================================================
