------------------------------- MODULE Malloc -------------------------------
(***************************************************************************)
(* The allocator of tp1-malloc (malloc.c): blocks mapped from the system,  *)
(* each tiled by regions whose headers are linked both ways inside the     *)
(* memory they describe, with malloc, calloc, realloc and free.            *)
(*                                                                         *)
(* Memory is counted in units of a region header (32 bytes).  An address   *)
(* is the slot mmap chose and an offset into it.  The header of a region   *)
(* that was merged into its neighbour stays in memory: a stale prev may    *)
(* still lead to it, until a program writes over it.                       *)
(***************************************************************************)
EXTENDS Integers, Sequences, FiniteSets, SequencesExt

CONSTANTS
  Slots,                         \* where mmap may put blocks
  NULL,
  Garbage,                       \* what a program wrote over a header
  MIN_REGION_LEN,                \* malloc.c, in headers
  BLOCK_SM, BLOCK_MD, BLOCK_LG,  \* malloc.c, in headers
  HARD_LIMIT,                    \* malloc.c, in headers
  SIZE_T,                        \* how many values a size_t has, in headers
  Requests,                      \* the sizes programs ask for
  BEST_FIT                       \* which build

VARIABLES
  heap,     \* header: what is at every address a header could be at,
            \* blocks: block_header_list, size: of the block in each slot
            \* (0: none), total_mmy, sane: until the library has taken
            \* something else for the region before one
  asked     \* the pointers programs hold, by the header in front of each, and
            \* the size each was asked with

vars == <<heap, asked>>

HEADER == 1

Addresses == Slots \X (0 .. BLOCK_LG - 1)

held == DOMAIN asked

\* region_header_t, but for check_num
Header == [next : Addresses \cup {NULL}, prev : Addresses \cup {NULL},
           size : 0 .. SIZE_T - 1, free : BOOLEAN]

ASSUME SizesAssumption ==
  /\ MIN_REGION_LEN \in Nat \ {0} /\ MIN_REGION_LEN < BLOCK_SM
  /\ {BLOCK_SM, BLOCK_MD, BLOCK_LG, HARD_LIMIT, SIZE_T} \subseteq Nat
  /\ BLOCK_SM <= BLOCK_MD /\ BLOCK_MD <= BLOCK_LG /\ 2 * BLOCK_LG < SIZE_T
  /\ HARD_LIMIT > 0
  /\ Requests \subseteq 0 .. SIZE_T - 1
  /\ IsFiniteSet(Slots) /\ BEST_FIT \in BOOLEAN
  /\ NULL \notin Addresses /\ Garbage \notin Header

\* Memory that was never written.
Zero == [next |-> NULL, prev |-> NULL, size |-> 0, free |-> FALSE]

\* size_t arithmetic
Plus(m, n) == (m + n) % SIZE_T

Init ==
  /\ heap = [header |-> [a \in Addresses |-> Zero], blocks |-> <<>>,
             size |-> [b \in Slots |-> 0], total_mmy |-> 0, sane |-> TRUE]
  /\ asked = <<>>

-----------------------------------------------------------------------------
(* Regions: operators on h, the headers in memory *)

\* The regions of block b: those its next links lead to.
Regions(h, b) ==
  LET from[r \in Addresses] ==
        {r} \cup (IF h[r] = Garbage \/ h[r].next = NULL THEN {} ELSE from[h[r].next])
  IN from[<<b, 0>>]

\* Whether the prev of r, where the library looks for a free region that ends at
\* r, leads to something else: to a region that does not, or to what is left of a
\* header that was merged away, which may look free.
Misled(h, r) ==
  LET prev == h[r].prev IN
  /\ prev # NULL
  /\ h[prev] # Garbage => h[prev].free
  /\ ~(prev \in Regions(h, r[1]) /\ h[prev].next = r)

SPLITREGION(r, n) == <<r[1], Plus(r[2] + HEADER, n)>>

\* split_region.  The region after the new one keeps its prev.
Split(h, r, n) ==
  [h EXCEPT ![SPLITREGION(r, n)] = [next |-> h[r].next, prev |-> r,
                                    size |-> h[r].size - n - HEADER, free |-> TRUE],
            ![r].next = SPLITREGION(r, n),
            ![r].size = n]

\* Mutant of TrySplit: also when the rest has no room for a header.
TrySplitAlways(h, r, n) == Split(h, r, n)

\* try_split_region
TrySplit(h, r, n) ==
  IF h[r].size < Plus(n, HEADER + MIN_REGION_LEN) THEN h ELSE Split(h, r, n)

\* "region->free = false; try_split_region(region, size)"
Take(h, r, n) == TrySplit([h EXCEPT ![r].free = FALSE], r, n)

\* coalesce_region_with_its_next
Coalesce(h, r) ==
  LET next == h[r].next
      last == h[next].next
      merged == [h EXCEPT ![r].size = @ + h[next].size + HEADER, ![r].next = last]
  IN IF last # NULL /\ merged[last] # Garbage
       THEN [merged EXCEPT ![last].prev = r]
       ELSE merged

IsFree(h, r) == r # NULL /\ h[r] # Garbage /\ h[r].free

\* Mutant of MoveNextDown: the room between the two is lost.
MoveNextShort(h, r, n) ==
  [h EXCEPT ![SPLITREGION(r, n)] =
              [next |-> h[h[r].next].next, prev |-> h[h[r].next].prev,
               size |-> h[h[r].next].size, free |-> TRUE],
            ![r].next = SPLITREGION(r, n),
            ![r].size = n]

\* split_and_coalesce_next_regions: the next region now begins where r ends.
MoveNextDown(h, r, n) ==
  LET next == h[r].next IN
  [h EXCEPT ![SPLITREGION(r, n)] =
              [next |-> h[next].next, prev |-> h[next].prev,
               size |-> h[next].size + (h[r].size - n), free |-> TRUE],
            ![r].next = SPLITREGION(r, n),
            ![r].size = n]

\* A program, or move_data for it, fills n units behind the header of r.
Fill(h, r, n, value) ==
  [a \in Addresses |->
     IF a[1] = r[1] /\ a[2] \in r[2] + HEADER .. r[2] + n THEN value ELSE h[a]]

-----------------------------------------------------------------------------
(* malloc: operators on s, a state of the heap *)

\* ALIGN4 keeps multiples of a header; no region is shorter than the minimum.
Rounded(n) == IF n < MIN_REGION_LEN THEN MIN_REGION_LEN ELSE n

TooLarge(n) == Plus(n, HEADER) > BLOCK_LG

\* The regions of all blocks.
Linked(s) == UNION {Regions(s.header, b) : b \in ToSet(s.blocks)}

Fitting(s, n) == {r \in Linked(s) : s.header[r].size >= n /\ s.header[r].free}

\* Whether the search comes to q after r: next links lead up within a block.
Precedes(s, r, q) ==
  \/ \E i, j \in DOMAIN s.blocks : i < j /\ s.blocks[i] = r[1] /\ s.blocks[j] = q[1]
  \/ r[1] = q[1] /\ r[2] < q[2]

\* find_free_region: the first that fits, or the first of the smallest that fit
FindFree(s, n) ==
  LET fit == Fitting(s, n)
      best == {r \in fit : \A q \in fit : s.header[r].size <= s.header[q].size}
      found == IF BEST_FIT THEN best ELSE fit
  IN CHOOSE r \in found : \A q \in found : q = r \/ Precedes(s, r, q)

\* get_block_size; 0 stands for EXIT_ERROR
BlockSize(n) ==
  LET fits == {m \in {BLOCK_SM, BLOCK_MD, BLOCK_LG} : Plus(n, HEADER) <= m}
  IN IF fits = {} THEN 0 ELSE Min(fits)

\* new_block and new_region, when mmap has chosen slot b
NewRegion(s, n, b) ==
  [s EXCEPT !.header[<<b, 0>>] =
              [next |-> NULL, prev |-> NULL, size |-> BlockSize(n) - HEADER, free |-> TRUE],
            !.blocks = Append(@, b),
            !.size[b] = BlockSize(n),
            !.total_mmy = @ + BlockSize(n)]

\* malloc: every pointer it may return, and the heap it leaves.  None: NULL.
Mallocs(s, n) ==
  LET m == Rounded(n)
      Give(t, r) == [heap |-> [t EXCEPT !.header = Take(@, r, m)], at |-> r]
      Mappable == {b \in Slots : /\ s.size[b] = 0 /\ BlockSize(m) # 0
                                 /\ s.total_mmy + BlockSize(m) < HARD_LIMIT}
  IN IF n = 0 \/ TooLarge(n) THEN {}
     ELSE IF Fitting(s, m) # {} THEN {Give(s, FindFree(s, m))}
     ELSE {Give(NewRegion(s, m, b), <<b, 0>>) : b \in Mappable}

-----------------------------------------------------------------------------
(* free *)

Unlinked(blocks, b) == RemoveAt(blocks, CHOOSE i \in DOMAIN blocks : blocks[i] = b)

\* Mutant of ReturnBlock: the block is unmapped but stays charged.
ReturnBlockCharged(s, b) ==
  [s EXCEPT !.header = [a \in Addresses |-> IF a[1] = b THEN Zero ELSE @[a]],
            !.blocks = Unlinked(@, b),
            !.size[b] = 0]

\* return_block_to_OS
ReturnBlock(s, b) ==
  [s EXCEPT !.header = [a \in Addresses |-> IF a[1] = b THEN Zero ELSE @[a]],
            !.blocks = Unlinked(@, b),
            !.size[b] = 0,
            !.total_mmy = @ - s.size[b]]

\* try_coalesce_regions, first half: with the next region
CoalesceNext(h, r) == IF IsFree(h, h[r].next) THEN Coalesce(h, r) ELSE h

\* free
Free(s, r) ==
  LET freed == [s.header EXCEPT ![r].free = TRUE]
      h == CoalesceNext(freed, r)
      prev == h[r].prev
      merge == IsFree(h, prev) /\ h[prev].next # NULL /\ h[h[prev].next] # Garbage
      left == IF merge THEN prev ELSE r
      t == [s EXCEPT !.header = IF merge THEN Coalesce(h, prev) ELSE h,
                     !.sane = ~Misled(freed, r)]
  IN IF t.header[left].prev = NULL /\ t.header[left].next = NULL
       THEN ReturnBlock(t, left[1])
       ELSE t

-----------------------------------------------------------------------------
(* realloc, when r must grow to n *)

\* sum_of_regions
Sum(h, r, x) == h[r].size + h[x].size + HEADER

\* Mutant of EnoughWith: counts a header too many.
EnoughWithHeader(h, r, x, n) == IsFree(h, x) /\ n <= Sum(h, r, x) + HEADER

\* are_free_to_coalesce
EnoughWith(h, r, x, n) == IsFree(h, x) /\ n <= Sum(h, r, x)
EnoughWithBoth(h, r, x, y, n) ==
  IsFree(h, x) /\ IsFree(h, y) /\ n <= Sum(h, r, x) + h[y].size + HEADER

\* reallocate_with_prev_region and, if next is free too and needed,
\* reallocate_with_next_and_prev_region
GrowDown(h, r, n, both) ==
  LET prev == h[r].prev
      once == Coalesce(h, prev)
      merged == IF both THEN Coalesce(once, prev) ELSE once
  IN Take(Fill(merged, prev, merged[r].size, Garbage), prev, n)

\* reallocate_on_new_region
Moved(s, r, n) ==
  {[heap |-> Free([m.heap EXCEPT !.header = Fill(@, m.at, @[r].size, Garbage)], r),
    at |-> m.at] : m \in Mallocs(s, n)}

\* handle_realloc_that_requires_more_memory
Grown(s, r, n) ==
  LET h == s.header
      next == h[r].next
      prev == h[r].prev
      At(g, p) == {[heap |-> [s EXCEPT !.header = g], at |-> p]}
  IN IF EnoughWith(h, r, next, n) THEN At(Take(Coalesce(h, r), r, n), r)
     ELSE IF Misled(h, r) THEN {[heap |-> [s EXCEPT !.sane = FALSE], at |-> r]}
     ELSE IF EnoughWith(h, r, prev, n) THEN At(GrowDown(h, r, n, FALSE), prev)
     ELSE IF EnoughWithBoth(h, r, prev, next, n) THEN At(GrowDown(h, r, n, TRUE), prev)
     ELSE Moved(s, r, n)

\* handle_realloc_that_requires_less_memory
Shrunk(h, r, n) ==
  IF IsFree(h, h[r].next) THEN MoveNextDown(h, r, n) ELSE TrySplit(h, r, n)

\* handle_realloc: every pointer realloc may return, and the heap it leaves
Reallocs(s, r, n) ==
  IF s.header[r].size < n
    THEN Grown(s, r, n)
    ELSE {[heap |-> IF s.header[r].size = n THEN s
                    ELSE [s EXCEPT !.header = Shrunk(@, r, n)], at |-> r]}

-----------------------------------------------------------------------------
(* What a program does *)

\* Once the library was misled, programs may write over each other and over its
\* headers: the model ends.
Sound == heap.sane

Hold(r, n) == [p \in held \cup {r} |-> IF p = r THEN n ELSE asked[p]]

Drop(r) == [p \in held \ {r} |-> asked[p]]

Malloc(n) ==
  /\ Sound
  /\ \E m \in Mallocs(heap, n) : heap' = m.heap /\ asked' = Hold(m.at, n)

\* calloc clears the region it was given
Calloc(n) ==
  /\ Sound
  /\ \E m \in Mallocs(heap, n) :
       /\ heap' = [m.heap EXCEPT !.header = Fill(@, m.at, @[m.at].size, Zero)]
       /\ asked' = Hold(m.at, n)

FreeHeld(r) ==
  /\ Sound
  /\ heap' = Free(heap, r)
  /\ asked' = Drop(r)

\* realloc(p, 0) is free(p); one that is too large or finds no memory changes nothing.
Realloc(r, n) ==
  /\ Sound
  /\ n # 0 /\ ~TooLarge(n)
  /\ \E m \in Reallocs(heap, r, Rounded(n)) :
       /\ heap' = m.heap
       /\ asked' = [p \in (held \ {r}) \cup {m.at} |-> IF p = m.at THEN n ELSE asked[p]]

\* A program writes to all of its memory, over a header some prev still leads to.
Write(r) ==
  /\ Sound
  /\ \E x \in Linked(heap) : LET p == heap.header[x].prev IN
       /\ p # NULL /\ heap.header[p] # Garbage
       /\ p[1] = r[1] /\ p[2] \in r[2] + 1 .. r[2] + heap.header[r].size
  /\ heap' = [heap EXCEPT !.header = Fill(@, r, @[r].size, Garbage)]
  /\ UNCHANGED asked

Next ==
  \/ \E n \in Requests : Malloc(n) \/ Calloc(n)
  \/ \E r \in held : FreeHeld(r) \/ Write(r)
  \/ \E r \in held, n \in Requests : Realloc(r, n)

Spec == Init /\ [][Next]_vars

-----------------------------------------------------------------------------
\* The type invariant.
TypeOK ==
  /\ heap.header \in [Addresses -> Header \cup {Garbage}]
  /\ heap.blocks \in Seq(Slots)
  /\ heap.size \in [Slots -> {0, BLOCK_SM, BLOCK_MD, BLOCK_LG}]
  /\ heap.total_mmy \in 0 .. HARD_LIMIT
  /\ held \subseteq Addresses /\ \A r \in held : asked[r] \in Requests
  /\ heap.sane \in BOOLEAN

\* The regions of a block tile it: whatever split, coalesce and realloc did, each
\* region ends where the next one begins, and the last where the block ends.
Tiling ==
  Sound => \A b \in ToSet(heap.blocks) : \A r \in Regions(heap.header, b) :
    LET x == heap.header[r] IN
    r[2] + HEADER + x.size = IF x.next = NULL THEN heap.size[b] ELSE x.next[2]

\* The units of memory that are mapped.
Mapped == {a \in Addresses : a[2] < heap.size[a[1]]}

Accounting ==
  /\ IsInjective(heap.blocks)
  /\ ToSet(heap.blocks) = {b \in Slots : heap.size[b] # 0}
  /\ heap.total_mmy = Cardinality(Mapped)
  /\ heap.total_mmy < HARD_LIMIT

InUseIsHeld ==
  Sound => /\ held = {r \in Linked(heap) : ~heap.header[r].free}
           /\ \A r \in held : heap.header[r].size >= asked[r]

\* The regions in use are those programs hold, and each is as large as it was asked
\* to be: realloc, in all of its cases, loses none and invents none.  Each block is
\* listed once, total_mmy is what is mapped, and the limit is kept.
MemoryIsHeldOnce == TypeOK /\ Accounting /\ InUseIsHeld
=============================================================================
