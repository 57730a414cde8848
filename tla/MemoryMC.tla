------------------------------ MODULE MemoryMC ------------------------------
(***************************************************************************)
(* Memory for TLC: mem_init, or the address spaces of two environments:    *)
(* with two pages of address space in one table, or with one and a page of *)
(* physical memory more, which is what sending a page takes.               *)
(***************************************************************************)
EXTENDS Memory, TLC

CONSTANTS v1, v2, t1, e1, p1, p2, p3, p4, p5, p6

VARIABLES session,
          pc, npages, nextfree, chunks, page_free_list, tables, kern_map, base, regions

OneTable == [va \in VA |-> t1]
OnePage == {v1}
MCVA == {v1, v2}

-----------------------------------------------------------------------------
(* Machines of a few dozen pages, with page tables of 32 entries           *)

\* Base memory only; extended memory; memory above 16 "MB", 64 "KB" a unit
Machines ==
  {<<32, 0, x, 0, 0, 0>> : x \in {0, 4, 24, 40, 60, 80, 120}}
  \cup {<<32, 0, 60, 0, y, 0>> : y \in {1, 2}}

EndOfKernel == {4 * n + r : n \in 15 .. 21, r \in {-3, 0}}

Boot == INSTANCE BootMemory WITH
  PGSIZE <- 4, NPTENTRIES <- 32, KERNBASE <- 256, KERNSPAN <- 64, KB <- 1,
  EXTSTART <- 44, EXT16START <- 100, IOPHYSMEM <- 32, MPENTRY_PADDR <- 8,
  KSTKSIZE <- 2, KSTKGAP <- 2, NCPU <- 2, PAGEINFO <- 1, ENVSIZE <- 7,
  NVRAM <- Machines, Ends <- EndOfKernel, MmioSizes <- {13, 28, 33}

ASSUME BootAssumption == Boot!Geometry /\ Boot!Roomy

boot == <<pc, npages, nextfree, chunks, page_free_list, tables, kern_map, base, regions>>

NoBoot == /\ pc = None /\ npages = None /\ nextfree = None /\ chunks = None
          /\ page_free_list = None /\ tables = None /\ kern_map = None
          /\ base = None /\ regions = None

-----------------------------------------------------------------------------
\* Which pages the first environment has makes no difference
Named == mem.pgdir[e1] = p1 /\ mem.pde[e1][t1] = p2 /\ mem.pte[e1][v1].page = p3

MCInit ==
  /\ Init /\ Named
  /\ \/ session = "boot" /\ mem.free = {p4, p5, p6} /\ Boot!Init
     \/ session = "two" /\ mem.free = {p4, p5} /\ NoBoot
     \/ session = "one" /\ mem.free = {p4, p5, p6} /\ NoBoot

\* Programs that do not use v2
Untouched == \A e \in Env : mem'.pte[e][v2] = Unmapped /\ dstva'[e] # v2

MCNext ==
  \/ session = "boot" /\ Boot!Next /\ UNCHANGED <<session, vars>>
  \/ session # "boot" /\ Next /\ (session = "one" => Untouched) /\ UNCHANGED <<session, boot>>

MCSpec == MCInit /\ [][MCNext]_<<session, vars, boot>>

Symmetry == Permutations({p1, p2, p3, p4, p5}) \cup Permutations(Env) \cup Permutations(CPU)

-----------------------------------------------------------------------------
\* mem_init gives each page to one purpose: what is on page_free_list is neither
\* reserved, nor the kernel's, nor allocated; what boot_alloc gives is apart
\* (FreeListSound, ChunksDisjoint of BootMemory).
BootPagesApart == session = "boot" => Boot!FreeListSound /\ Boot!ChunksDisjoint

\* The kernel's half of the address space is as inc/memlayout.h draws it: made of
\* tables that entry_pgdir reaches, with gaps between stacks and devices apart; and no
\* mapping of it is made over another (TablesReachable to MappedOnce of BootMemory).
KernelMapRight ==
  [][session = "boot" => Boot!KernelMap' /\ Boot!MappedOnce]_boot
=============================================================================
