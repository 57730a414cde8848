----------------------------- MODULE BootMemory -----------------------------
(***************************************************************************)
(* mem_init of the JOS kernel (kern/pmap.c): the size of memory, the boot  *)
(* allocator, the list of free pages, the kernel's half of the address     *)
(* space, and the MMIO region that is handed out afterwards.               *)
(*                                                                         *)
(* Physical addresses are bytes.  Virtual addresses are page numbers, laid *)
(* out as inc/memlayout.h does above UTOP, in a space whose size and whose *)
(* page tables are parameters.                                             *)
(***************************************************************************)
EXTENDS Integers, Sequences, FiniteSets, SequencesExt

\* IOPHYSMEM, EXTPHYSMEM and MPENTRY_PADDR are whole pages, KERNBASE and KERNSPAN
\* whole page tables, and the stacks of all CPUs fit in one table.
CONSTANTS
  PGSIZE, NPTENTRIES,   \* bytes of a page, entries of a page table
  KERNBASE,             \* as a page number
  KERNSPAN,             \* pages from KERNBASE to the end of the address space
  KB,                   \* bytes of the unit in which the NVRAM counts
  EXTSTART, EXT16START, \* 1MB and 16MB in that unit
  IOPHYSMEM,            \* bytes
  MPENTRY_PADDR,        \* bytes
  KSTKSIZE, KSTKGAP,    \* pages
  NCPU,
  PAGEINFO, ENVSIZE,    \* bytes of struct PageInfo, of the array envs
  NVRAM,                \* contents of the NVRAM: its six memory size registers
  Ends,                 \* physical addresses of the end of the kernel's bss
  MmioSizes             \* sizes of the regions device drivers ask for, in bytes

EXTPHYSMEM == EXTSTART * KB

VARIABLES
  pc,              \* the next step of mem_init; "running", "panic"
  npages,
  nextfree,        \* static of boot_alloc, as a physical address
  chunks,          \* what boot_alloc has given out: first and last page
  page_free_list,  \* page numbers, in order
  tables,          \* kern_pgdir: the page of each page table, 0 when not present
  kern_map,        \* what those tables say of each page above UTOP
  base,            \* static of mmio_map_region
  regions          \* what mmio_map_region has given out: first and last page

vars == <<pc, npages, nextfree, chunks, page_free_list, tables, kern_map, base,
          regions>>

-----------------------------------------------------------------------------
(* inc/memlayout.h and inc/mmu.h                                            *)

KSTACKTOP == KERNBASE
MMIOLIM == KSTACKTOP - NPTENTRIES
MMIOBASE == MMIOLIM - NPTENTRIES
UVPT == MMIOBASE - NPTENTRIES
UPAGES == UVPT - NPTENTRIES
UENVS == UPAGES - NPTENTRIES
UTOP == UENVS
Top == KERNBASE + KERNSPAN

PGNUM(pa) == pa \div PGSIZE
PDX(va) == va \div NPTENTRIES
Roundup(n) == ((n + PGSIZE - 1) \div PGSIZE) * PGSIZE
PagesOf(n) == Roundup(n) \div PGSIZE

\* A set of numbers as a list, from the greatest to the least
Descending(S) ==
  [i \in 1 .. Cardinality(S) |-> CHOOSE p \in S : Cardinality({q \in S : q > p}) = i - 1]

Unmapped == [pa |-> 0, perm |-> "none"]

\* entry_pgdir, which is in force until lcr3(kern_pgdir), maps one table's worth
EntryMapped(p) == p < NPTENTRIES

-----------------------------------------------------------------------------
(* The functions of kern/pmap.c                                            *)

\* nvram_read: two registers, low byte first
NvramRead(nv, r) == nv[r] + 256 * nv[r + 1]

\* i386_detect_memory: registers 1-2 base, 3-4 extended, 5-6 above 16MB in 64K
TotalMem(nv) ==
  LET basemem == NvramRead(nv, 1)
      extmem == NvramRead(nv, 3)
      ext16mem == NvramRead(nv, 5) * 64
  IN IF ext16mem > 0 THEN EXT16START + ext16mem
     ELSE IF extmem > 0 THEN EXTSTART + extmem ELSE basemem

\* boot_alloc
Fits(n) == nextfree + n < PGSIZE * npages

\* Mutant of BootAlloc: the next chunk starts where this one ends.
BootAllocUnaligned(n) ==
  /\ nextfree' = nextfree + n
  /\ chunks' = Append(chunks, <<PGNUM(nextfree), PGNUM(nextfree' - 1)>>)

BootAlloc(n) ==
  /\ nextfree' = Roundup(nextfree + n)
  /\ chunks' = Append(chunks, <<PGNUM(nextfree), PGNUM(nextfree' - 1)>>)

\* Mutant of InUse: the page other CPUs start in is on the list.
InUseButEntry(i) ==
  \/ i = 0
  \/ i >= PGNUM(IOPHYSMEM) /\ i < PGNUM(EXTPHYSMEM)
  \/ i >= PGNUM(EXTPHYSMEM) /\ i < PGNUM(nextfree)

\* The pages page_init passes over
InUse(i) ==
  \/ i = 0
  \/ i = PGNUM(MPENTRY_PADDR)
  \/ i >= PGNUM(IOPHYSMEM) /\ i < PGNUM(EXTPHYSMEM)
  \/ i >= PGNUM(EXTPHYSMEM) /\ i < PGNUM(nextfree)

\* Mutant of LowFirst: the list stays as page_init built it.
LowFirstNot(list) == list

\* check_page_free_list(1) moves the pages entry_pgdir maps to the front of the list
\* that page_init built, and leaves the order otherwise.
LowFirst(list) ==
  LET low == {p \in Range(list) : EntryMapped(p)}
  IN Descending(low) \o Descending(Range(list) \ low)

\* The tables pgdir_walk adds while boot_map_region goes through [va, va + n)
NewTables(n, va) == {d \in PDX(va) .. PDX(va + n - 1) : tables[d] = 0}

\* boot_map_region: when page_alloc fails it writes through a null pointer
Mappable(n, va) == Cardinality(NewTables(n, va)) =< Len(page_free_list)

\* map is the tables' contents before, n the size in pages, pa a page number
Region(map, va, n, pa, perm) ==
  [v \in DOMAIN map |->
     IF v \in va .. va + n - 1 THEN [pa |-> pa + v - va, perm |-> perm] ELSE map[v]]

BootMapRegion(map, va, n) ==
  LET new == NewTables(n, va)
  IN /\ tables' = [d \in DOMAIN tables |->
                     IF d \in new THEN page_free_list[Cardinality({e \in new : e =< d})]
                     ELSE tables[d]]
     /\ page_free_list' = SubSeq(page_free_list, Cardinality(new) + 1, Len(page_free_list))
     /\ kern_map' = map

\* Mutant of StackOf: stacks are placed one below the other.
StackOfNoGap(i) == KSTACKTOP - i * KSTKSIZE - KSTKSIZE

\* mem_init_mp: where the stack of CPU i starts
StackOf(i) == KSTACKTOP - i * (KSTKSIZE + KSTKGAP) - KSTKSIZE

\* percpu_kstacks lies in the kernel's bss, here right after EXTPHYSMEM
KstackPage(i) == PGNUM(EXTPHYSMEM) + i * KSTKSIZE

WithStacks(map) ==
  [v \in DOMAIN map |->
     IF \E i \in 0 .. NCPU - 1 : v - StackOf(i) \in 0 .. KSTKSIZE - 1
     THEN LET i == CHOOSE i \in 0 .. NCPU - 1 : v - StackOf(i) \in 0 .. KSTKSIZE - 1
          IN [pa |-> KstackPage(i) + v - StackOf(i), perm |-> "kernel"]
     ELSE map[v]]

-----------------------------------------------------------------------------
(* mem_init, step by step                                                  *)

Init ==
  /\ pc = "kern_pgdir"
  /\ \E nv \in NVRAM : npages = TotalMem(nv) \div (PGSIZE \div KB)
  /\ \E end \in Ends : nextfree = Roundup(end)
  /\ chunks = <<>>
  /\ page_free_list = <<>>
  /\ tables = [d \in PDX(UTOP) .. PDX(Top - 1) |-> 0]
  /\ kern_map = [v \in UTOP .. Top - 1 |-> Unmapped]
  /\ base = MMIOBASE
  /\ regions = <<>>

\* The three calls of boot_alloc; the recursive entry for UVPT
AllocWanted ==
  CASE pc = "kern_pgdir" -> PGSIZE
    [] pc = "pages" -> npages * PAGEINFO
    [] pc = "envs" -> ENVSIZE

AllocStep ==
  /\ pc \in {"kern_pgdir", "pages", "envs"}
  /\ IF Fits(AllocWanted)
     THEN /\ BootAlloc(AllocWanted)
          /\ tables' = IF pc = "kern_pgdir"
                       THEN [tables EXCEPT ![PDX(UVPT)] = PGNUM(nextfree)] ELSE tables
          /\ pc' = CASE pc = "kern_pgdir" -> "pages"
                     [] pc = "pages" -> "envs"
                     [] pc = "envs" -> "page_init"
     ELSE pc' = "panic" /\ UNCHANGED <<nextfree, chunks, tables>>
  /\ UNCHANGED <<npages, page_free_list, kern_map, base, regions>>

\* page_init puts each free page at the head of the list; boot_alloc(0), which it
\* calls for every page above EXTPHYSMEM, panics when nothing is left.
PageInit ==
  /\ pc = "page_init"
  /\ IF npages > PGNUM(EXTPHYSMEM) /\ ~Fits(0)
     THEN pc' = "panic" /\ UNCHANGED page_free_list
     ELSE /\ page_free_list' = Descending({i \in 0 .. npages - 1 : ~InUse(i)})
          /\ pc' = "check"
  /\ UNCHANGED <<npages, nextfree, chunks, tables, kern_map, base, regions>>

\* check_page_free_list(1), check_page_alloc and check_page, which give back what
\* they take, but for the table and the three pages of address space of the
\* regions they ask of mmio_map_region.  They panic without pages of both kinds.
CheckPages ==
  /\ pc = "check"
  /\ IF (\E p \in Range(page_free_list) : p < PGNUM(EXTPHYSMEM)) /\
        (\E p \in Range(page_free_list) : p >= PGNUM(EXTPHYSMEM))
     THEN LET list == LowFirst(page_free_list)
          IN /\ tables' = [tables EXCEPT ![PDX(MMIOBASE)] = Head(list)]
             /\ page_free_list' = Tail(list)
             /\ base' = base + 3
             /\ pc' = "UPAGES"
     ELSE pc' = "panic" /\ UNCHANGED <<tables, page_free_list, base>>
  /\ UNCHANGED <<npages, nextfree, chunks, kern_map, regions>>

\* boot_map_region for UPAGES, UENVS, KERNBASE; then mem_init_mp and lcr3
MapStep(from, to, va, n, map) ==
  /\ pc = from
  /\ IF Mappable(n, va)
     THEN BootMapRegion(map, va, n) /\ pc' = to
     ELSE pc' = "fault" /\ UNCHANGED <<tables, page_free_list, kern_map>>
  /\ UNCHANGED <<npages, nextfree, chunks, base, regions>>

MapPages == LET n == PagesOf(npages * PAGEINFO)
            IN MapStep("UPAGES", "UENVS", UPAGES, n,
                       Region(kern_map, UPAGES, n, chunks[2][1], "user"))

MapEnvs == LET n == PagesOf(ENVSIZE)
           IN MapStep("UENVS", "KERNBASE", UENVS, n,
                      Region(kern_map, UENVS, n, chunks[3][1], "user"))

MapMemory == MapStep("KERNBASE", "stacks", KERNBASE, KERNSPAN,
                     Region(kern_map, KERNBASE, KERNSPAN, 0, "kernel"))

MemInitMp ==
  LET n == NCPU * (KSTKSIZE + KSTKGAP) - KSTKGAP
  IN MapStep("stacks", "running", KSTACKTOP - n, n, WithStacks(kern_map))

\* Mutant of MmioEnd: a device gets the whole pages of its size only.
MmioEndDown(size) == base + size \div PGSIZE

\* mmio_map_region: where the next region will start
MmioEnd(size) == base + PagesOf(size)

\* Mutant of MmioFits: the start of the region is tested, not its end.
MmioFitsStart(size) == base < MMIOLIM

MmioFits(size) == MmioEnd(size) < MMIOLIM

\* mmio_map_region: pa does not matter; an address beyond memory is not a page
MmioMapRegion ==
  /\ pc = "running"
  /\ \E size \in MmioSizes :
       IF ~MmioFits(size)
       THEN pc' = "panic" /\ UNCHANGED <<kern_map, base, regions>>
       ELSE /\ kern_map' = Region(kern_map, base, PagesOf(size), npages, "device")
            /\ base' = MmioEnd(size)
            /\ regions' = Append(regions, <<base, base + PagesOf(size) - 1>>)
            /\ UNCHANGED pc
  /\ UNCHANGED <<npages, nextfree, chunks, page_free_list, tables>>

Next == AllocStep \/ PageInit \/ CheckPages \/ MapPages \/ MapEnvs \/ MapMemory
        \/ MemInitMp \/ MmioMapRegion

Spec == Init /\ [][Next]_vars

-----------------------------------------------------------------------------
(* Properties                                                              *)

\* A machine and a kernel: whole numbers of bytes and pages, and a kernel that is
\* loaded at EXTPHYSMEM, as the linker script has it
Geometry ==
  /\ {PGSIZE, NPTENTRIES, KB, KSTKSIZE, NCPU} \subseteq Nat \ {0}
  /\ {KERNBASE, KERNSPAN, EXTSTART, EXT16START, KSTKGAP, PAGEINFO, ENVSIZE} \subseteq Nat
  /\ PGSIZE >= KB
  /\ NVRAM \subseteq [1 .. 6 -> Nat] /\ MmioSizes \subseteq Nat
  /\ \A end \in Ends : end \in Nat /\ end >= EXTPHYSMEM

\* What inc/memlayout.h leaves room for: all of memory at KERNBASE, and one page
\* table's worth of address space for pages, for envs and for the stacks
Roomy ==
  /\ \A nv \in NVRAM : TotalMem(nv) \div (PGSIZE \div KB) =< KERNSPAN
  /\ KERNSPAN * PAGEINFO =< NPTENTRIES * PGSIZE
  /\ ENVSIZE =< NPTENTRIES * PGSIZE
  /\ NCPU * (KSTKSIZE + KSTKGAP) =< NPTENTRIES

\* Type correctness; "fault" is no value of pc: the tables of mem_init always
\* find a page, of the memory sizes and kernels of the instance.
TypeOK ==
  /\ pc \in {"kern_pgdir", "pages", "envs", "page_init", "check", "UPAGES",
             "UENVS", "KERNBASE", "stacks", "running", "panic"}
  /\ npages \in Nat /\ nextfree \in Nat
  /\ page_free_list \in Seq(Nat)
  /\ \A d \in DOMAIN tables : tables[d] \in Nat
  /\ base \in MMIOBASE .. MMIOLIM - 1

Reserved ==
  {0, PGNUM(MPENTRY_PADDR)} \cup PGNUM(IOPHYSMEM) .. PGNUM(EXTPHYSMEM) - 1
  \cup UNION {c[1] .. c[2] : c \in Range(chunks)}

\* page_free_list holds existing pages, each once, that are neither the first
\* one, nor where other CPUs start, nor the I/O hole, nor the kernel, nor anything
\* boot_alloc gave out, nor one of the kernel's page tables.
FreeListSound ==
  /\ \A i, j \in DOMAIN page_free_list : page_free_list[i] = page_free_list[j] => i = j
  /\ \A p \in Range(page_free_list) :
       /\ p < npages /\ p \notin Reserved
       /\ ~(p \in PGNUM(EXTPHYSMEM) .. PGNUM(nextfree) - 1)
       /\ \A d \in DOMAIN tables : tables[d] # p

\* What boot_alloc gives out starts on a page, and no page is given out twice.
ChunksDisjoint ==
  \A i, j \in DOMAIN chunks :
    /\ nextfree % PGSIZE = 0
    /\ i < j => chunks[i][2] < chunks[j][1]

\* Every page table made before kern_pgdir is loaded is in the first 4MB, which
\* is all that entry_pgdir lets the kernel write in.
TablesReachable == \A d \in DOMAIN tables : EntryMapped(tables[d])

\* The finished map: pages and envs where they were allocated, all of memory at
\* KERNBASE, every CPU's stack on its own pages, and between two stacks a gap
\* that faults.
LayoutRight ==
  pc = "running" =>
    /\ \A i \in 0 .. PagesOf(npages * PAGEINFO) - 1 :
         kern_map[UPAGES + i].pa = chunks[2][1] + i
    /\ \A i \in 0 .. PagesOf(ENVSIZE) - 1 : kern_map[UENVS + i].pa = chunks[3][1] + i
    /\ \A p \in 0 .. npages - 1 : kern_map[KERNBASE + p].pa = p
    /\ \A i \in 0 .. NCPU - 1, k \in 1 .. KSTKSIZE + KSTKGAP :
         kern_map[KSTACKTOP - i * (KSTKSIZE + KSTKGAP) - k] =
           IF k > KSTKSIZE THEN Unmapped
           ELSE [pa |-> KstackPage(i) + KSTKSIZE - k, perm |-> "kernel"]

\* Devices get disjoint parts of the MMIO region, which ends before the stacks.
DevicesApart ==
  \A i, j \in DOMAIN regions :
    /\ regions[i][1] >= MMIOBASE /\ regions[i][2] < MMIOLIM
    /\ i < j => regions[i][2] < regions[j][1]

\* What the kernel's half of the address space must be at every step.
KernelMap == TypeOK /\ TablesReachable /\ LayoutRight /\ DevicesApart

\* boot_map_region never finds a mapping: page_remove, which it calls first, would
\* take a reference from a page that was never counted.
MappedOnce == \A v \in DOMAIN kern_map : kern_map[v] # Unmapped => kern_map'[v] = kern_map[v]
=============================================================================
