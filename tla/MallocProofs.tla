----------------------------- MODULE MallocProofs ----------------------------
(***************************************************************************)
(* Until the library is misled by a stale prev, the regions of every block *)
(* tile it and those in use are the ones that programs hold: for any       *)
(* number and size of blocks, both ways to search, and any requests that   *)
(* do not overflow a size_t.                                               *)
(***************************************************************************)
EXTENDS Malloc, FiniteSetTheorems, SequenceTheorems, WellFoundedInduction, TLAPS

\* What memory may hold at the addresses where headers can be.  The sizes of headers
\* that were merged away are not trusted, but they are those of former regions.
Headers == [Addresses -> Header \cup {Garbage}]
Bounded(h) == \A a \in Addresses : h[a] # Garbage => h[a].size < BLOCK_LG

\* Where region r ends.
End(h, r) == r[2] + HEADER + h[r].size

\* The addresses in L are the regions of blocks of the sizes z: linked from the
\* first to the last, each to where it ends, with a prev that leads somewhere into
\* the same block.
Chain(h, z, L) ==
  /\ L \subseteq Addresses
  /\ \A b \in Slots : z[b] # 0 => <<b, 0>> \in L
  /\ \A r \in L :
       /\ h[r] # Garbage
       /\ z[r[1]] # 0 /\ End(h, r) =< z[r[1]]
       /\ h[r].next = NULL => End(h, r) = z[r[1]]
       /\ h[r].next # NULL => /\ h[r].next \in L
                              /\ h[r].next[1] = r[1] /\ h[r].next[2] = End(h, r)
       /\ r[2] = 0 => h[r].prev = NULL
       /\ r[2] # 0 => h[r].prev # NULL /\ h[r].prev[1] = r[1]
       /\ r[2] # 0 => \E q \in L : h[q].next = r

Blocks == [Slots -> {0, BLOCK_SM, BLOCK_MD, BLOCK_LG}]

-----------------------------------------------------------------------------
(* Numbers and addresses                                                   *)

LEMMA Least ==
  ASSUME NEW S \in SUBSET Nat, S # {}
  PROVE  \E x \in S : \A y \in S : x =< y
<1> DEFINE R == {ss \in Nat \X Nat : ss[1] < ss[2]}
<1>1. IsWellFoundedOn(R, Nat)
  BY NatLessThanWellFounded DEF OpToRel
<1>2. \A x, y \in Nat : y < x => <<y, x>> \in R
  OBVIOUS
<1> HIDE DEF R
<1>3. PICK x \in S : \A y \in S : ~ (<<y, x>> \in R)
  BY <1>1, WFMin
<1>4. ASSUME NEW y \in S PROVE x =< y
  <2>1. x \in Nat /\ y \in Nat
    OBVIOUS
  <2>2. ~(y < x)
    BY <1>2, <1>3, <2>1
  <2> QED
    BY <2>1, <2>2
<1> QED
  BY <1>4

LEMMA Sizes ==
  /\ MIN_REGION_LEN \in Nat /\ MIN_REGION_LEN >= 1
  /\ BLOCK_SM \in Nat /\ BLOCK_MD \in Nat /\ BLOCK_LG \in Nat
  /\ HARD_LIMIT \in Nat /\ SIZE_T \in Nat
  /\ MIN_REGION_LEN < BLOCK_SM /\ BLOCK_SM =< BLOCK_MD /\ BLOCK_MD =< BLOCK_LG
  /\ 2 * BLOCK_LG < SIZE_T
BY SizesAssumption

LEMMA AddressParts ==
  /\ \A a \in Addresses : a[1] \in Slots /\ a[2] \in Nat /\ a[2] < BLOCK_LG /\ a = <<a[1], a[2]>>
  /\ \A b \in Slots, n \in Nat : n < BLOCK_LG => <<b, n>> \in Addresses
  /\ NULL \notin Addresses
BY Sizes, SizesAssumption DEF Addresses

LEMMA SameAddress ==
  ASSUME NEW a \in Addresses, NEW c \in Addresses, a[1] = c[1], a[2] = c[2]
  PROVE  a = c
BY AddressParts

\* The lowest and the highest of a set of addresses.
LEMMA LowestAddress ==
  ASSUME NEW S \in SUBSET Addresses, S # {}
  PROVE  \E a \in S : \A c \in S : a[2] =< c[2]
<1> DEFINE T == {a[2] : a \in S}
<1>1. T \in SUBSET Nat /\ T # {}
  BY AddressParts
<1>2. PICK n \in T : \A m \in T : n =< m
  BY <1>1, Least
<1> QED
  BY <1>2

LEMMA HighestAddress ==
  ASSUME NEW S \in SUBSET Addresses, S # {}
  PROVE  \E a \in S : \A c \in S : c[2] =< a[2]
<1> DEFINE T == {BLOCK_LG - a[2] : a \in S}
<1>1. T \in SUBSET Nat /\ T # {}
  BY AddressParts, Sizes
<1>2. PICK n \in T : \A m \in T : n =< m
  BY <1>1, Least
<1>3. PICK a \in S : n = BLOCK_LG - a[2]
  BY <1>2
<1>4. \A c \in S : BLOCK_LG - a[2] =< BLOCK_LG - c[2]
  BY <1>2, <1>3
<1> QED
  BY <1>4, AddressParts, Sizes

LEMMA HeaderFields ==
  ASSUME NEW h \in Headers, NEW a \in Addresses, h[a] # Garbage
  PROVE  /\ h[a] \in Header
         /\ h[a].size \in Nat /\ h[a].free \in BOOLEAN
         /\ h[a].next # NULL => h[a].next \in Addresses
         /\ h[a].prev # NULL => h[a].prev \in Addresses
<1>1. h[a] \in Header
  BY DEF Headers
<1> QED
  BY <1>1, Sizes DEF Header

-----------------------------------------------------------------------------
(* The regions of a block are what its chain has there                     *)

\* What the links lead to from each address, as Regions has it
Links(h) ==
  CHOOSE from : from = [r \in Addresses |->
    {r} \cup (IF h[r] = Garbage \/ h[r].next = NULL THEN {} ELSE from[h[r].next])]

Closed(h, S) == \A x \in S : h[x] # Garbage /\ h[x].next # NULL => h[x].next \in S

Reach(h, r) == {x \in Addresses : \A S \in SUBSET Addresses : r \in S /\ Closed(h, S) => x \in S}

LEMMA ReachStep ==
  ASSUME NEW h \in Headers, NEW r \in Addresses
  PROVE  Reach(h, r) = {r} \cup (IF h[r] = Garbage \/ h[r].next = NULL THEN {} ELSE Reach(h, h[r].next))
<1>1. \A x \in Addresses : h[x] # Garbage /\ h[x].next # NULL => h[x].next \in Addresses
  BY HeaderFields
<1>2. r \in Reach(h, r)
  BY DEF Reach
<1>3. CASE h[r] = Garbage \/ h[r].next = NULL
  <2>1. {r} \in SUBSET Addresses /\ Closed(h, {r})
    BY <1>3 DEF Closed
  <2>2. Reach(h, r) \subseteq {r}
    BY <2>1 DEF Reach
  <2> QED
    BY <1>2, <1>3, <2>2
<1>4. CASE ~(h[r] = Garbage \/ h[r].next = NULL)
  <2> DEFINE n == h[r].next
             S == {r} \cup Reach(h, n)
  <2>1. n \in Addresses
    BY <1>1, <1>4
  <2>2. n \in Reach(h, n) /\ S \in SUBSET Addresses
    BY <2>1 DEF Reach
  <2>3. \A x \in Reach(h, n) : h[x] # Garbage /\ h[x].next # NULL => h[x].next \in Reach(h, n)
    BY <1>1 DEF Reach, Closed
  <2>4. Closed(h, S)
    BY <2>2, <2>3 DEF Closed
  <2>5. Reach(h, r) \subseteq S
    BY <2>2, <2>4 DEF Reach
  <2>6. \A T \in SUBSET Addresses : r \in T /\ Closed(h, T) => n \in T
    BY <1>4 DEF Closed
  <2>7. Reach(h, n) \subseteq Reach(h, r)
    BY <2>6 DEF Reach
  <2> QED
    BY <1>2, <1>4, <2>5, <2>7
<1> QED
  BY <1>3, <1>4

LEMMA LinksStep ==
  ASSUME NEW h \in Headers
  PROVE  \A r \in Addresses :
           Links(h)[r] = {r} \cup (IF h[r] = Garbage \/ h[r].next = NULL THEN {}
                                   ELSE Links(h)[h[r].next])
<1> DEFINE Is(f) == f = [r \in Addresses |->
             {r} \cup (IF h[r] = Garbage \/ h[r].next = NULL THEN {} ELSE f[h[r].next])]
           g == [r \in Addresses |-> Reach(h, r)]
<1>1. \A x \in Addresses : h[x] # Garbage /\ h[x].next # NULL => h[x].next \in Addresses
  BY HeaderFields
<1>2. ASSUME NEW r \in Addresses
      PROVE  g[r] = {r} \cup (IF h[r] = Garbage \/ h[r].next = NULL THEN {} ELSE g[h[r].next])
  BY <1>1, ReachStep
<1>3. Is(g)
  BY <1>2
<1>4. Links(h) = CHOOSE f : Is(f)
  BY DEF Links
<1>5. Is(Links(h))
  <2> HIDE DEF Is, g
  <2> QED
    BY <1>3, <1>4
<1> HIDE DEF g
<1>6. DOMAIN Links(h) = Addresses
  BY <1>5
<1> QED
  BY <1>5

LEMMA RegionsAreLinks ==
  ASSUME NEW h, NEW b
  PROVE  Regions(h, b) = Links(h)[<<b, 0>>]
BY DEF Regions, Links

-----------------------------------------------------------------------------
(* Chains                                                                  *)

LEMMA ChainFacts ==
  ASSUME NEW h \in Headers, NEW z \in Blocks, NEW L, Chain(h, z, L), NEW r \in L
  PROVE  /\ r \in Addresses /\ h[r] \in Header /\ h[r].size \in Nat /\ h[r].free \in BOOLEAN
         /\ End(h, r) \in Nat /\ r[2] < End(h, r) /\ End(h, r) =< z[r[1]]
         /\ z[r[1]] \in Nat /\ z[r[1]] # 0 /\ z[r[1]] =< BLOCK_LG /\ h[r].size < BLOCK_LG
         /\ h[r].next = NULL \/ h[r].next \in L
         /\ h[r].prev = NULL \/ h[r].prev \in Addresses
<1>1. r \in Addresses /\ h[r] # Garbage
  BY DEF Chain
<1>2. h[r] \in Header /\ h[r].size \in Nat /\ h[r].free \in BOOLEAN
  BY <1>1, HeaderFields
<1>3. r[1] \in Slots /\ r[2] \in Nat
  BY <1>1, AddressParts
<1>4. z[r[1]] \in Nat /\ z[r[1]] # 0 /\ z[r[1]] =< BLOCK_LG
  BY <1>3, Sizes DEF Blocks, Chain
<1>5. End(h, r) \in Nat /\ r[2] < End(h, r) /\ End(h, r) =< z[r[1]] /\ h[r].size < BLOCK_LG
  BY <1>2, <1>3, <1>4, Sizes DEF End, HEADER, Chain
<1> QED
  BY <1>1, <1>2, <1>4, <1>5, HeaderFields DEF Chain

\* No region begins inside another one.
LEMMA Apart ==
  ASSUME NEW h \in Headers, NEW z \in Blocks, NEW L, Chain(h, z, L),
         NEW r \in L, NEW q \in L, q[1] = r[1]
  PROVE  q[2] =< r[2] \/ End(h, r) =< q[2]
<1> DEFINE Inside(p, x) == x[1] = p[1] /\ p[2] < x[2] /\ x[2] < End(h, p)
           S == {x \in L : \E p \in L : Inside(p, x)}
<1>1. \A p \in L : /\ p \in Addresses /\ p[2] \in Nat /\ End(h, p) \in Nat
                   /\ p[2] < End(h, p)
  BY ChainFacts, AddressParts
<1>2. S = {}
  <2> SUFFICES ASSUME S # {} PROVE FALSE
    OBVIOUS
  <2>1. S \in SUBSET Addresses
    BY <1>1
  <2>2. PICK x \in S : \A c \in S : x[2] =< c[2]
    BY <2>1, LowestAddress
  <2>3. PICK p \in L : Inside(p, x)
    BY <2>2
  <2>4. x \in L /\ x[2] # 0
    BY <1>1, <2>2, <2>3
  <2>5. PICK y \in L : h[y].next = x
    BY <2>4 DEF Chain
  <2>6. x \in Addresses /\ x # NULL
    BY <1>1, <2>4, AddressParts
  <2>7. x[1] = y[1] /\ x[2] = End(h, y)
    BY <2>5, <2>6 DEF Chain
  <2>8. y[2] < x[2] /\ y[2] \in Nat /\ x[2] \in Nat /\ p[2] \in Nat
    BY <1>1, <2>7, <2>4
  <2>9. CASE p[2] < y[2]
    <3>1. Inside(p, y)
      BY <2>3, <2>7, <2>8, <2>9, <1>1
    <3>2. x[2] =< y[2]
      BY <2>2, <3>1
    <3> QED
      BY <2>8, <3>2
  <2>10. CASE p[2] = y[2]
    <3>1. p = y
      BY <1>1, <2>3, <2>7, <2>10, SameAddress
    <3> QED
      BY <2>3, <2>7, <2>8, <3>1
  <2>11. CASE y[2] < p[2]
    <3>1. Inside(y, p)
      BY <2>3, <2>7, <2>8, <2>11
    <3>2. x[2] =< p[2]
      BY <2>2, <3>1
    <3> QED
      BY <2>3, <2>8, <3>2
  <2> QED
    BY <2>8, <2>9, <2>10, <2>11
<1>3. ~Inside(r, q)
  BY <1>2
<1> QED
  BY <1>1, <1>3

\* From a region, the links lead to regions of the same block only, and what is
\* linked from there is there, too.
LEMMA ChainLinks ==
  ASSUME NEW h \in Headers, NEW z \in Blocks, NEW L, Chain(h, z, L), NEW r \in L
  PROVE  /\ r \in Links(h)[r]
         /\ Links(h)[r] \subseteq {q \in L : q[1] = r[1]}
         /\ \A x \in Links(h)[r] : h[x].next # NULL => h[x].next \in Links(h)[r]
<1> DEFINE f == Links(h)
           Good(p) == /\ p \in f[p]
                      /\ f[p] \subseteq {q \in L : q[1] = p[1]}
                      /\ \A x \in f[p] : h[x].next # NULL => h[x].next \in f[p]
           S == {p \in L : ~Good(p)}
<1>1. \A p \in L : /\ p \in Addresses /\ p[2] \in Nat /\ p[2] < End(h, p) /\ End(h, p) \in Nat
                   /\ h[p] # Garbage
  BY ChainFacts, AddressParts DEF Chain
<1>2. \A p \in L : f[p] = {p} \cup (IF h[p].next = NULL THEN {} ELSE f[h[p].next])
  BY <1>1, LinksStep
<1>3. S = {}
  <2> SUFFICES ASSUME S # {} PROVE FALSE
    OBVIOUS
  <2>1. S \in SUBSET Addresses
    BY <1>1
  <2>2. PICK p \in S : \A c \in S : c[2] =< p[2]
    BY <2>1, HighestAddress
  <2>3. p \in L /\ ~Good(p) /\ f[p] = {p} \cup (IF h[p].next = NULL THEN {} ELSE f[h[p].next])
    BY <1>2, <2>2
  <2>4. CASE h[p].next = NULL
    <3> HIDE DEF f
    <3>1. f[p] = {p}
      BY <2>3, <2>4
    <3>2. Good(p)
      BY <2>3, <2>4, <3>1
    <3> QED
      BY <2>3, <3>2
  <2>5. CASE h[p].next # NULL
    <3> DEFINE n == h[p].next
    <3>1. n \in L /\ n[1] = p[1] /\ n[2] = End(h, p)
      BY <2>3, <2>5 DEF Chain
    <3>2. ~(n[2] =< p[2])
      BY <1>1, <2>3, <3>1
    <3>3. Good(n)
      BY <2>2, <3>1, <3>2
    <3> HIDE DEF f
    <3>4. f[p] = {p} \cup f[n]
      BY <2>3, <2>5
    <3>5. Good(p)
      BY <2>3, <3>1, <3>3, <3>4
    <3> QED
      BY <2>3, <3>5
  <2> QED
    BY <2>4, <2>5
<1>4. Good(r)
  BY <1>3
<1> QED
  BY <1>4

LEMMA ChainRegions ==
  ASSUME NEW h \in Headers, NEW z \in Blocks, NEW L, Chain(h, z, L),
         NEW b \in Slots, z[b] # 0
  PROVE  Regions(h, b) = {r \in L : r[1] = b}
<1> DEFINE first == <<b, 0>>
           R == Links(h)[first]
           S == {q \in L : q[1] = b /\ q \notin R}
<1>1. first \in L /\ first[1] = b /\ first[2] = 0
  BY DEF Chain
<1>2. /\ first \in R /\ R \subseteq {q \in L : q[1] = b}
      /\ \A x \in R : h[x].next # NULL => h[x].next \in R
  BY <1>1, ChainLinks
<1> HIDE DEF R
<1>3. \A p \in L : p \in Addresses /\ p[2] \in Nat /\ p[2] < End(h, p) /\ p # NULL /\ End(h, p) \in Nat
  BY ChainFacts, AddressParts
<1>4. S = {}
  <2> SUFFICES ASSUME S # {} PROVE FALSE
    OBVIOUS
  <2>1. S \in SUBSET Addresses
    BY <1>3
  <2>2. PICK x \in S : \A c \in S : x[2] =< c[2]
    BY <2>1, LowestAddress
  <2>3. x \in L /\ x[1] = b /\ x \notin R
    BY <2>2
  <2>4. x[2] # 0
    BY <1>1, <1>2, <1>3, <2>3, SameAddress
  <2>5. PICK y \in L : h[y].next = x
    BY <2>3, <2>4 DEF Chain
  <2>6. x[1] = y[1] /\ x[2] = End(h, y)
    BY <1>3, <2>3, <2>5 DEF Chain
  <2>7. ~(x[2] =< y[2])
    BY <1>3, <2>3, <2>6
  <2>8. y \in R
    BY <2>2, <2>3, <2>6, <2>7
  <2> QED
    BY <1>2, <1>3, <2>3, <2>5, <2>8
<1> QED
  BY <1>2, <1>4, RegionsAreLinks DEF R

-----------------------------------------------------------------------------
(* What operations on the headers do to a chain                            *)

LEMMA HeaderIsNotGarbage == \A x \in Header : x # Garbage
BY SizesAssumption

\* Only what is no region has changed, or only free flags.
LEMMA ChainKept ==
  ASSUME NEW h \in Headers, NEW g, NEW z \in Blocks, NEW L, Chain(h, z, L),
         \A r \in L : /\ g[r] # Garbage /\ g[r].size = h[r].size
                      /\ g[r].next = h[r].next /\ g[r].prev = h[r].prev
  PROVE  Chain(g, z, L)
BY DEF Chain, End

WithFree(h, r, v) == [h EXCEPT ![r].free = v]

LEMMA SetFree ==
  ASSUME NEW h \in Headers, Bounded(h), NEW z \in Blocks, NEW L, Chain(h, z, L),
         NEW r \in L, NEW v \in BOOLEAN, NEW g, g = WithFree(h, r, v)
  PROVE  /\ g \in Headers /\ Bounded(g) /\ Chain(g, z, L)
         /\ \A q \in Addresses : q # r => g[q] = h[q]
         /\ g[r].free = v /\ g[r].size = h[r].size
         /\ g[r].next = h[r].next /\ g[r].prev = h[r].prev
<1>1. r \in Addresses /\ h[r] \in Header
  BY ChainFacts
<1>2. g[r] = [h[r] EXCEPT !.free = v] /\ \A q \in Addresses : q # r => g[q] = h[q]
  BY <1>1 DEF Headers, WithFree
<1>3. /\ g[r] \in Header /\ g[r].free = v
      /\ g[r].size = h[r].size /\ g[r].next = h[r].next /\ g[r].prev = h[r].prev
  BY <1>1, <1>2 DEF Header
<1>4. g = [a \in Addresses |-> IF a = r THEN g[r] ELSE h[a]]
  BY <1>1, <1>2 DEF Headers, WithFree
<1>5. g \in Headers
  BY <1>2, <1>3, <1>4 DEF Headers
<1>6. Bounded(g)
  BY <1>1, <1>2, <1>3, HeaderIsNotGarbage DEF Bounded
<1>7. L \subseteq Addresses /\ \A q \in L : h[q] # Garbage
  BY DEF Chain
<1>8. ASSUME NEW q \in L
      PROVE  /\ g[q] # Garbage /\ g[q].size = h[q].size
             /\ g[q].next = h[q].next /\ g[q].prev = h[q].prev
  <2>1. CASE q = r
    BY <1>3, <2>1, HeaderIsNotGarbage
  <2>2. CASE q # r
    <3>1. g[q] = h[q]
      BY <1>2, <1>7, <2>2
    <3> QED
      BY <1>7, <3>1
  <2> QED
    BY <2>1, <2>2
<1>9. Chain(g, z, L)
  BY <1>8, ChainKept
<1> QED
  BY <1>2, <1>3, <1>5, <1>6, <1>9

\* A region is split in two; the new one begins where no region began.
LEMMA SplitChain ==
  ASSUME NEW h \in Headers, Bounded(h), NEW z \in Blocks, NEW L, Chain(h, z, L),
         NEW r \in L, NEW n \in Nat, n + HEADER =< h[r].size,
         NEW g, g = Split(h, r, n)
  PROVE  \E q \in Addresses :
           /\ g \in Headers /\ Bounded(g) /\ Chain(g, z, L \cup {q})
           /\ q \notin L /\ g[q].free
           /\ g[r].size = n /\ g[r].free = h[r].free
           /\ \A x \in Addresses : x # r /\ x # q => g[x] = h[x]
<1> DEFINE q == <<r[1], r[2] + HEADER + n>>
<1>1. /\ r \in Addresses /\ h[r] \in Header /\ h[r].size \in Nat /\ End(h, r) \in Nat
      /\ End(h, r) =< z[r[1]] /\ z[r[1]] \in Nat /\ z[r[1]] =< BLOCK_LG /\ h[r].size < BLOCK_LG
      /\ r[1] \in Slots /\ r[2] \in Nat
  BY ChainFacts, AddressParts
<1>2. r[2] + HEADER + n \in Nat /\ r[2] < r[2] + HEADER + n /\ r[2] + HEADER + n < End(h, r)
  BY <1>1 DEF End, HEADER
<1>3. SPLITREGION(r, n) = q
  <2>1. r[2] + HEADER + n \in 0 .. SIZE_T - 1
    BY <1>1, <1>2, Sizes
  <2>2. (r[2] + HEADER + n) % SIZE_T = r[2] + HEADER + n
    BY <2>1, Sizes
  <2> QED
    BY <2>2 DEF SPLITREGION, Plus
<1>4. q \in Addresses /\ q[1] = r[1] /\ q[2] = r[2] + HEADER + n
  BY <1>1, <1>2, Sizes, AddressParts
<1> HIDE DEF q
<1>5. q # r /\ q \notin L
  BY <1>1, <1>2, <1>4, Apart
<1>6. /\ g[q] = [next |-> h[r].next, prev |-> r, size |-> h[r].size - n - HEADER, free |-> TRUE]
      /\ g[r] = [h[r] EXCEPT !.next = q, !.size = n]
      /\ \A x \in Addresses : x # r /\ x # q => g[x] = h[x]
  BY <1>1, <1>3, <1>4, <1>5 DEF Split, Headers, Header
<1>7. h[r].size - n - HEADER \in Nat /\ h[r].size - n - HEADER < BLOCK_LG
         /\ n \in 0 .. SIZE_T - 1 /\ n < BLOCK_LG
  BY <1>1, Sizes DEF HEADER
<1>8. /\ g[r] \in Header /\ g[r].next = q /\ g[r].size = n /\ g[r].free = h[r].free
      /\ g[r].prev = h[r].prev
  BY <1>1, <1>4, <1>6, <1>7 DEF Header
<1>9. /\ g[q] \in Header /\ g[q].next = h[r].next /\ g[q].prev = r /\ g[q].free
      /\ g[q].size = h[r].size - n - HEADER
  BY <1>1, <1>6, <1>7, Sizes DEF Header
<1>10. g = [a \in Addresses |-> IF a = r THEN g[r] ELSE IF a = q THEN g[q] ELSE h[a]]
  BY <1>1, <1>3, <1>4, <1>5, <1>6 DEF Split, Headers
<1>11. g \in Headers
  BY <1>8, <1>9, <1>10 DEF Headers
<1>12. Bounded(g)
  <2> SUFFICES ASSUME NEW a \in Addresses, g[a] # Garbage PROVE g[a].size < BLOCK_LG
    BY DEF Bounded
  <2>1. CASE a = r
    BY <1>7, <1>8, <2>1
  <2>2. CASE a = q
    BY <1>7, <1>9, <2>2
  <2>3. CASE a # r /\ a # q
    <3>1. g[a] = h[a]
      BY <1>6, <2>3
    <3> QED
      BY <3>1 DEF Bounded
  <2> QED
    BY <2>1, <2>2, <2>3
<1>13. End(g, r) = q[2] /\ End(g, q) = End(h, r)
  BY <1>1, <1>4, <1>8, <1>7, <1>9 DEF End, HEADER
<1>14. Chain(g, z, L \cup {q})
  <2>1. L \cup {q} \subseteq Addresses /\ \A b \in Slots : z[b] # 0 => <<b, 0>> \in L \cup {q}
    BY <1>4 DEF Chain
  <2>2. ASSUME NEW x \in L, x # r
        PROVE  /\ g[x] = h[x] /\ End(g, x) = End(h, x)
    BY <1>5, <1>6, <2>1, <2>2 DEF End
  <2>3. \A x \in L : x[2] # 0 => \E y \in L \cup {q} : g[y].next = x
    <3> SUFFICES ASSUME NEW x \in L, x[2] # 0
                 PROVE  \E y \in L \cup {q} : g[y].next = x
      OBVIOUS
    <3>1. PICK y \in L : h[y].next = x
      BY DEF Chain
    <3> QED
      BY <1>9, <2>2, <3>1
  <2>4. ASSUME NEW x \in L \cup {q}
        PROVE  /\ g[x] # Garbage
               /\ z[x[1]] # 0 /\ End(g, x) =< z[x[1]]
               /\ g[x].next = NULL => End(g, x) = z[x[1]]
               /\ g[x].next # NULL => /\ g[x].next \in L \cup {q}
                                      /\ g[x].next[1] = x[1] /\ g[x].next[2] = End(g, x)
               /\ x[2] = 0 => g[x].prev = NULL
               /\ x[2] # 0 => g[x].prev # NULL /\ g[x].prev[1] = x[1]
               /\ x[2] # 0 => \E y \in L \cup {q} : g[y].next = x
    <3>1. CASE x = q
      <4>1. x[2] # 0 /\ r # NULL
        BY <1>1, <1>2, <1>4, <3>1, AddressParts
      <4>2. /\ h[r].next = NULL => End(h, r) = z[r[1]]
            /\ h[r].next # NULL => /\ h[r].next \in L
                                   /\ h[r].next[1] = r[1] /\ h[r].next[2] = End(h, r)
        BY DEF Chain
      <4> QED
        BY <1>1, <1>4, <1>8, <1>9, <1>13, <3>1, <4>1, <4>2, HeaderIsNotGarbage DEF Chain
    <3>2. CASE x = r
      <4>1. q # NULL /\ q[2] =< z[r[1]]
        BY <1>1, <1>2, <1>4, AddressParts
      <4>2. /\ x[2] = 0 => h[x].prev = NULL
            /\ x[2] # 0 => h[x].prev # NULL /\ h[x].prev[1] = x[1]
        BY <3>2 DEF Chain
      <4> QED
        BY <1>4, <1>8, <1>13, <2>3, <3>2, <4>1, <4>2, HeaderIsNotGarbage DEF Chain
    <3>3. CASE x \in L /\ x # r
      BY <2>2, <2>3, <3>3 DEF Chain
    <3> QED
      BY <3>1, <3>2, <3>3
  <2> QED
    BY <2>1, <2>4 DEF Chain
<1> QED
  BY <1>3, <1>4, <1>5, <1>6, <1>8, <1>9, <1>11, <1>12, <1>14

LEMMA TrySplitChain ==
  ASSUME NEW h \in Headers, Bounded(h), NEW z \in Blocks, NEW L, Chain(h, z, L),
         NEW r \in L, NEW n \in Nat, n =< h[r].size,
         NEW g, g = TrySplit(h, r, n)
  PROVE  \E M : /\ g \in Headers /\ Bounded(g) /\ Chain(g, z, M)
                /\ L \subseteq M /\ \A x \in M \ L : g[x].free
                /\ g[r].size >= n /\ g[r].free = h[r].free
                /\ \A x \in L : x # r => g[x] = h[x]
<1>1. h[r].size \in Nat /\ h[r].size < BLOCK_LG /\ L \subseteq Addresses
  BY ChainFacts DEF Chain
<1>2. Plus(n, HEADER + MIN_REGION_LEN) = n + HEADER + MIN_REGION_LEN
  <2>1. n + (HEADER + MIN_REGION_LEN) \in 0 .. SIZE_T - 1
    BY <1>1, Sizes DEF HEADER
  <2>2. (n + (HEADER + MIN_REGION_LEN)) % SIZE_T = n + (HEADER + MIN_REGION_LEN)
    BY <2>1, Sizes
  <2> QED
    BY <2>2, Sizes DEF Plus, HEADER
<1>3. CASE h[r].size < n + HEADER + MIN_REGION_LEN
  <2>1. g = h
    BY <1>2, <1>3 DEF TrySplit
  <2> QED
    BY <1>1, <2>1
<1>4. CASE ~(h[r].size < n + HEADER + MIN_REGION_LEN)
  <2>1. g = Split(h, r, n)
    BY <1>2, <1>4 DEF TrySplit
  <2>2. n + HEADER =< h[r].size
    BY <1>1, <1>4, Sizes DEF HEADER
  <2>3. PICK q \in Addresses :
          /\ g \in Headers /\ Bounded(g) /\ Chain(g, z, L \cup {q})
          /\ q \notin L /\ g[q].free
          /\ g[r].size = n /\ g[r].free = h[r].free
          /\ \A x \in Addresses : x # r /\ x # q => g[x] = h[x]
    BY <2>1, <2>2, SplitChain
  <2>4. g[r].size >= n
    BY <2>3
  <2> QED
    BY <1>1, <2>3, <2>4
<1> QED
  BY <1>3, <1>4

\* malloc and realloc give a region away: in use, large enough, and what is left of it free.
LEMMA TakeChain ==
  ASSUME NEW h \in Headers, Bounded(h), NEW z \in Blocks, NEW L, Chain(h, z, L),
         NEW r \in L, NEW n \in Nat, n =< h[r].size,
         NEW g, g = Take(h, r, n)
  PROVE  \E M : /\ g \in Headers /\ Bounded(g) /\ Chain(g, z, M)
                /\ L \subseteq M /\ \A x \in M \ L : g[x].free
                /\ g[r].size >= n /\ ~g[r].free
                /\ \A x \in L : x # r => g[x] = h[x]
<1>0. PICK v \in BOOLEAN : v = FALSE
  OBVIOUS
<1> DEFINE k == WithFree(h, r, v)
<1>1. k = [h EXCEPT ![r].free = FALSE]
  BY <1>0 DEF WithFree
<1> HIDE DEF k
<1>2. /\ k \in Headers /\ Bounded(k) /\ Chain(k, z, L)
      /\ k[r].size = h[r].size /\ ~k[r].free
      /\ \A x \in Addresses : x # r => k[x] = h[x]
  <2>1. /\ k \in Headers /\ Bounded(k) /\ Chain(k, z, L)
        /\ k[r].size = h[r].size /\ k[r].free = v
        /\ \A x \in Addresses : x # r => k[x] = h[x]
    BY SetFree DEF k
  <2> QED
    BY <1>0, <2>1
<1>3. g = TrySplit(k, r, n)
  BY <1>1 DEF Take
<1>4. L \subseteq Addresses
  BY DEF Chain
<1>5. PICK M : /\ g \in Headers /\ Bounded(g) /\ Chain(g, z, M)
               /\ L \subseteq M /\ \A x \in M \ L : g[x].free
               /\ g[r].size >= n /\ g[r].free = k[r].free
               /\ \A x \in L : x # r => g[x] = k[x]
  BY <1>2, <1>3, TrySplitChain
<1> QED
  BY <1>2, <1>4, <1>5

\* One region ends where the next begins.
LEMMA OnePrevious ==
  ASSUME NEW h \in Headers, NEW z \in Blocks, NEW L, Chain(h, z, L),
         NEW r \in L, NEW x \in L, NEW q \in L, h[r].next = q, h[x].next = q
  PROVE  x = r
<1>1. /\ r \in Addresses /\ r[2] \in Nat /\ r[2] < End(h, r) /\ End(h, r) \in Nat
      /\ x \in Addresses /\ x[2] \in Nat /\ x[2] < End(h, x) /\ End(h, x) \in Nat
      /\ q # NULL
  BY ChainFacts, AddressParts
<1>2. q[1] = r[1] /\ q[2] = End(h, r) /\ q[1] = x[1] /\ q[2] = End(h, x)
  BY <1>1 DEF Chain
<1>3. x[2] =< r[2] \/ End(h, r) =< x[2]
  BY <1>2, Apart
<1>4. r[2] =< x[2] \/ End(h, x) =< r[2]
  BY <1>2, Apart
<1>5. x[2] = r[2]
  BY <1>1, <1>2, <1>3, <1>4
<1> QED
  BY <1>1, <1>2, <1>5, SameAddress

\* Two regions become one.
LEMMA CoalesceChain ==
  ASSUME NEW h \in Headers, Bounded(h), NEW z \in Blocks, NEW L, Chain(h, z, L),
         NEW r \in L, NEW q \in L, h[r].next = q,
         NEW g, g = Coalesce(h, r)
  PROVE  /\ r # q
         /\ g \in Headers /\ Bounded(g) /\ Chain(g, z, L \ {q})
         /\ g[r].size = h[r].size + h[q].size + HEADER
         /\ g[r].free = h[r].free /\ g[r].prev = h[r].prev /\ g[r].next = h[q].next
         /\ \A x \in L : x # r => /\ g[x].size = h[x].size /\ g[x].free = h[x].free
                                  /\ g[x].next = h[x].next
         /\ \A x \in Addresses : x \notin L => g[x] = h[x]
<1> DEFINE last == h[q].next
           merged == [h EXCEPT ![r].size = @ + h[q].size + HEADER, ![r].next = last]
<1>1. /\ r \in Addresses /\ h[r] \in Header /\ h[r].size \in Nat /\ r[2] \in Nat /\ r[1] \in Slots
      /\ End(h, r) \in Nat /\ r[2] < End(h, r) /\ r = <<r[1], r[2]>>
      /\ q \in Addresses /\ h[q] \in Header /\ h[q].size \in Nat /\ q[2] \in Nat
      /\ End(h, q) \in Nat /\ q[2] < End(h, q) /\ End(h, q) =< z[q[1]] /\ z[q[1]] =< BLOCK_LG
      /\ z[q[1]] \in Nat
      /\ q # NULL /\ r # NULL
  BY ChainFacts, AddressParts
<1>2. q[1] = r[1] /\ q[2] = End(h, r)
  BY <1>1 DEF Chain
<1>3. q # r
  BY <1>1, <1>2
<1>4. /\ last = NULL => End(h, q) = z[q[1]]
      /\ last # NULL => last \in L /\ last[1] = q[1] /\ last[2] = End(h, q)
  BY DEF Chain
<1> HIDE DEF last
<1>5. last # NULL => /\ last \in Addresses /\ h[last] \in Header /\ last # r /\ last # q
                     /\ h[last] # Garbage
  <2> SUFFICES ASSUME last # NULL
               PROVE  /\ last \in Addresses /\ h[last] \in Header /\ last # r /\ last # q
                      /\ h[last] # Garbage
    OBVIOUS
  <2>1. last \in Addresses /\ h[last] \in Header /\ h[last] # Garbage
    BY <1>4, ChainFacts, HeaderIsNotGarbage
  <2> QED
    BY <1>1, <1>2, <1>4, <2>1
<1>6. last = NULL \/ last \in Addresses
  BY <1>5
<1>7. h[r].size + h[q].size + HEADER \in Nat /\ h[r].size + h[q].size + HEADER < BLOCK_LG
  BY <1>1, <1>2, Sizes DEF End, HEADER
<1>8. merged[r] = [h[r] EXCEPT !.size = h[r].size + h[q].size + HEADER, !.next = last]
  BY <1>1 DEF Headers, Header
<1>9. \A x \in Addresses : x # r => merged[x] = h[x]
  BY <1>1 DEF Headers
<1>10. merged \in [Addresses -> UNION {Header \cup {Garbage}, {merged[r]}}]
  BY <1>1 DEF Headers
<1> HIDE DEF merged
<1>11. /\ merged[r] \in Header
       /\ merged[r].size = h[r].size + h[q].size + HEADER
       /\ merged[r].free = h[r].free /\ merged[r].prev = h[r].prev /\ merged[r].next = last
  <2>1. h[r].size + h[q].size + HEADER \in 0 .. SIZE_T - 1
    BY <1>7, Sizes
  <2>2. last \in Addresses \cup {NULL}
    BY <1>6
  <2> QED
    BY <1>1, <1>8, <2>1, <2>2 DEF Header
<1>12. g = IF last # NULL /\ merged[last] # Garbage THEN [merged EXCEPT ![last].prev = r] ELSE merged
  BY DEF Coalesce, merged, last
<1>13. g = IF last # NULL THEN [merged EXCEPT ![last].prev = r] ELSE merged
  BY <1>5, <1>9, <1>12
<1>14. g[r] = merged[r]
  BY <1>1, <1>5, <1>13, <1>10
<1>15. \A x \in Addresses : x # r /\ x # last => g[x] = h[x]
  BY <1>5, <1>9, <1>10, <1>13
<1>16. last # NULL => g[last] = [h[last] EXCEPT !.prev = r]
  BY <1>5, <1>9, <1>10, <1>13
<1>17. last # NULL => /\ g[last] \in Header /\ g[last].size = h[last].size
                      /\ g[last].free = h[last].free /\ g[last].next = h[last].next
                      /\ g[last].prev = r
  BY <1>1, <1>5, <1>16 DEF Header
<1>18. merged \in Headers
  BY <1>10, <1>11 DEF Headers
<1>19. ASSUME last = NULL PROVE g \in Headers
  <2>1. g = merged
    BY <1>13, <1>19
  <2> QED
    BY <1>18, <2>1
<1>20. ASSUME last # NULL PROVE g \in Headers
  <2>1. g = [merged EXCEPT ![last] = g[last]]
    BY <1>5, <1>13, <1>16, <1>18, <1>20 DEF Headers
  <2>2. g[last] \in Header
    BY <1>17, <1>20
  <2> QED
    BY <1>18, <2>1, <2>2 DEF Headers
<1>21. g \in Headers
  BY <1>19, <1>20
<1>22. Bounded(g)
  <2> SUFFICES ASSUME NEW a \in Addresses, g[a] # Garbage PROVE g[a].size < BLOCK_LG
    BY DEF Bounded
  <2>1. CASE a = r
    BY <1>7, <1>11, <1>14, <2>1
  <2>2. CASE a # r /\ a = last
    BY <1>5, <1>6, <1>17, <2>2, AddressParts DEF Bounded
  <2>3. CASE a # r /\ a # last
    <3>1. g[a] = h[a]
      BY <1>15, <2>3
    <3> QED
      BY <3>1 DEF Bounded
  <2> QED
    BY <2>1, <2>2, <2>3
<1>23. End(g, r) = End(h, q)
  BY <1>1, <1>2, <1>11, <1>14 DEF End, HEADER
<1>24. L \subseteq Addresses /\ NULL \notin Addresses
  BY AddressParts DEF Chain
<1>25. ASSUME NEW x \in L, x # r
       PROVE  /\ g[x].size = h[x].size /\ g[x].free = h[x].free /\ g[x].next = h[x].next
              /\ End(g, x) = End(h, x) /\ g[x] # Garbage
              /\ x # last => g[x].prev = h[x].prev
  <2>1. CASE x = last
    BY <1>17, <1>24, <2>1, HeaderIsNotGarbage DEF End
  <2>2. CASE x # last
    <3>1. g[x] = h[x]
      BY <1>15, <1>24, <1>25, <2>2
    <3> QED
      BY <3>1 DEF Chain, End
  <2> QED
    BY <2>1, <2>2
<1>26. Chain(g, z, L \ {q})
  <2> DEFINE M == L \ {q}
  <2>1. M \subseteq Addresses
    BY <1>24
  <2>2. ASSUME NEW b \in Slots, z[b] # 0 PROVE <<b, 0>> \in M
    <3>1. <<b, 0>> \in L
      BY <2>2 DEF Chain
    <3>2. q[2] # 0
      BY <1>1, <1>2
    <3>3. <<b, 0>> # q
      BY <3>2
    <3> QED
      BY <3>1, <3>3
  <2>3. ASSUME NEW x \in M, x[2] # 0
        PROVE  \E y \in M : g[y].next = x
    <3>1. PICK y \in L : h[y].next = x
      BY <2>3 DEF Chain
    <3>2. CASE y = q
      BY <1>3, <1>11, <1>14, <3>1, <3>2 DEF last
    <3>3. CASE y # q
      <4>1. y # r
        BY <2>3, <3>1
      <4> QED
        BY <1>25, <3>1, <3>3, <4>1
    <3> QED
      BY <3>2, <3>3
  <2>4. ASSUME NEW x \in M
        PROVE  /\ g[x] # Garbage
               /\ z[x[1]] # 0 /\ End(g, x) =< z[x[1]]
               /\ g[x].next = NULL => End(g, x) = z[x[1]]
               /\ g[x].next # NULL => /\ g[x].next \in M
                                      /\ g[x].next[1] = x[1] /\ g[x].next[2] = End(g, x)
               /\ x[2] = 0 => g[x].prev = NULL
               /\ x[2] # 0 => g[x].prev # NULL /\ g[x].prev[1] = x[1]
    <3>1. CASE x = r
      <4>1. /\ z[x[1]] # 0
            /\ x[2] = 0 => h[x].prev = NULL
            /\ x[2] # 0 => h[x].prev # NULL /\ h[x].prev[1] = x[1]
        BY DEF Chain
      <4> QED
        BY <1>1, <1>2, <1>4, <1>5, <1>11, <1>14, <1>23, <3>1, <4>1, HeaderIsNotGarbage
    <3>2. CASE x # r
      <4>1. /\ z[x[1]] # 0 /\ End(h, x) =< z[x[1]]
            /\ h[x].next = NULL => End(h, x) = z[x[1]]
            /\ h[x].next # NULL => /\ h[x].next \in L
                                   /\ h[x].next[1] = x[1] /\ h[x].next[2] = End(h, x)
            /\ x[2] = 0 => h[x].prev = NULL
            /\ x[2] # 0 => h[x].prev # NULL /\ h[x].prev[1] = x[1]
        BY DEF Chain
      <4>2. h[x].next # q
        BY <3>2, OnePrevious
      <4>3. x = last => x[2] # 0 /\ x[1] = r[1] /\ g[x].prev = r
        BY <1>1, <1>2, <1>4, <1>17, <1>24
      <4> QED
        BY <1>1, <1>25, <3>2, <4>1, <4>2, <4>3
    <3> QED
      BY <3>1, <3>2
  <2> QED
    BY <2>1, <2>2, <2>3, <2>4 DEF Chain
<1>27. \A x \in Addresses : x \notin L => g[x] = h[x]
  BY <1>4, <1>15, AddressParts
<1> QED
  BY <1>3, <1>11, <1>14, <1>21, <1>22, <1>25, <1>26, <1>27 DEF last

\* The free region after r comes to begin inside r.
LEMMA MoveNextChain ==
  ASSUME NEW h \in Headers, Bounded(h), NEW z \in Blocks, NEW L, Chain(h, z, L),
         NEW r \in L, NEW o \in L, h[r].next = o, NEW n \in Nat, n < h[r].size,
         NEW g, g = MoveNextDown(h, r, n)
  PROVE  \E q \in Addresses :
           /\ g \in Headers /\ Bounded(g) /\ Chain(g, z, (L \ {o}) \cup {q})
           /\ q \notin L /\ g[q].free
           /\ g[r].size = n /\ g[r].free = h[r].free
           /\ \A x \in Addresses : x # r /\ x # q => g[x] = h[x]
<1> DEFINE q == <<r[1], r[2] + HEADER + n>>
<1>1. /\ r \in Addresses /\ h[r] \in Header /\ h[r].size \in Nat /\ End(h, r) \in Nat
      /\ End(h, r) =< z[r[1]] /\ z[r[1]] \in Nat /\ z[r[1]] =< BLOCK_LG /\ h[r].size < BLOCK_LG
      /\ r[1] \in Slots /\ r[2] \in Nat
      /\ o \in Addresses /\ h[o] \in Header /\ h[o].size \in Nat /\ End(h, o) \in Nat
      /\ o[2] \in Nat /\ o[2] < End(h, o) /\ End(h, o) =< z[o[1]] /\ o # NULL
      /\ (h[o].next = NULL \/ h[o].next \in Addresses)
      /\ (h[o].prev = NULL \/ h[o].prev \in Addresses)
  BY ChainFacts, AddressParts
<1>2. r[2] + HEADER + n \in Nat /\ r[2] < r[2] + HEADER + n /\ r[2] + HEADER + n < End(h, r)
  BY <1>1 DEF End, HEADER
<1>3. SPLITREGION(r, n) = q
  <2>1. r[2] + HEADER + n \in 0 .. SIZE_T - 1
    BY <1>1, <1>2, Sizes
  <2>2. (r[2] + HEADER + n) % SIZE_T = r[2] + HEADER + n
    BY <2>1, Sizes
  <2> QED
    BY <2>2 DEF SPLITREGION, Plus
<1>4. q \in Addresses /\ q[1] = r[1] /\ q[2] = r[2] + HEADER + n
  BY <1>1, <1>2, Sizes, AddressParts
<1> HIDE DEF q
<1>5. q # r /\ q \notin L
  BY <1>1, <1>2, <1>4, Apart
<1>6. o[1] = r[1] /\ o[2] = End(h, r) /\ o # r
  BY <1>1 DEF Chain, End
<1>7. /\ g[q] = [next |-> h[o].next, prev |-> h[o].prev,
                 size |-> h[o].size + (h[r].size - n), free |-> TRUE]
      /\ g[r] = [h[r] EXCEPT !.next = q, !.size = n]
      /\ \A x \in Addresses : x # r /\ x # q => g[x] = h[x]
  BY <1>1, <1>3, <1>4, <1>5 DEF MoveNextDown, Headers, Header
<1>8. /\ h[o].size + (h[r].size - n) \in Nat
      /\ h[o].size + (h[r].size - n) < BLOCK_LG
      /\ n \in 0 .. SIZE_T - 1 /\ n < BLOCK_LG
  BY <1>1, <1>6, Sizes DEF End, HEADER
<1>9. /\ g[r] \in Header /\ g[r].next = q /\ g[r].size = n /\ g[r].free = h[r].free
      /\ g[r].prev = h[r].prev
  BY <1>1, <1>4, <1>7, <1>8 DEF Header
<1>10. /\ g[q] \in Header /\ g[q].next = h[o].next /\ g[q].prev = h[o].prev /\ g[q].free
       /\ g[q].size = h[o].size + (h[r].size - n)
  BY <1>1, <1>7, <1>8, Sizes DEF Header
<1>11. g = [a \in Addresses |-> IF a = r THEN g[r] ELSE IF a = q THEN g[q] ELSE h[a]]
  BY <1>1, <1>3, <1>4, <1>5, <1>7 DEF MoveNextDown, Headers
<1>12. g \in Headers
  BY <1>9, <1>10, <1>11 DEF Headers
<1>13. Bounded(g)
  <2> SUFFICES ASSUME NEW a \in Addresses, g[a] # Garbage PROVE g[a].size < BLOCK_LG
    BY DEF Bounded
  <2>1. CASE a = r
    BY <1>8, <1>9, <2>1
  <2>2. CASE a = q
    BY <1>8, <1>10, <2>2
  <2>3. CASE a # r /\ a # q
    <3>1. g[a] = h[a]
      BY <1>7, <2>3
    <3> QED
      BY <3>1 DEF Bounded
  <2> QED
    BY <2>1, <2>2, <2>3
<1>14. End(g, r) = q[2] /\ End(g, q) = End(h, o)
  BY <1>1, <1>4, <1>6, <1>8, <1>9, <1>10 DEF End, HEADER
<1> DEFINE M == (L \ {o}) \cup {q}
<1>15. M \subseteq Addresses /\ L \subseteq Addresses
  BY <1>4 DEF Chain
<1>16. ASSUME NEW x \in L, x # r PROVE g[x] = h[x] /\ End(g, x) = End(h, x)
  BY <1>5, <1>7, <1>15, <1>16 DEF End
<1>17. ASSUME NEW b \in Slots, z[b] # 0 PROVE <<b, 0>> \in M
  <2>1. <<b, 0>> \in L
    BY <1>17 DEF Chain
  <2>2. o[2] # 0
    BY <1>1, <1>6 DEF End, HEADER
  <2>3. <<b, 0>> # o
    BY <2>2
  <2> QED
    BY <2>1, <2>3
<1>18. ASSUME NEW x \in L, x # o, x[2] # 0 PROVE \E y \in M : g[y].next = x
  <2>1. PICK y \in L : h[y].next = x
    BY <1>18 DEF Chain
  <2>2. CASE y = o
    BY <1>10, <2>1, <2>2
  <2>3. CASE y # o
    <3>1. y # r
      BY <1>18, <2>1
    <3> QED
      BY <1>16, <2>1, <2>3, <3>1
  <2> QED
    BY <2>2, <2>3
<1>19. ASSUME NEW x \in M
       PROVE  /\ g[x] # Garbage
              /\ z[x[1]] # 0 /\ End(g, x) =< z[x[1]]
              /\ g[x].next = NULL => End(g, x) = z[x[1]]
              /\ g[x].next # NULL => /\ g[x].next \in M
                                     /\ g[x].next[1] = x[1] /\ g[x].next[2] = End(g, x)
              /\ x[2] = 0 => g[x].prev = NULL
              /\ x[2] # 0 => g[x].prev # NULL /\ g[x].prev[1] = x[1]
              /\ x[2] # 0 => \E y \in M : g[y].next = x
  <2>1. CASE x = q
    <3>1. /\ z[o[1]] # 0
          /\ h[o].next = NULL => End(h, o) = z[o[1]]
          /\ h[o].next # NULL => /\ h[o].next \in L
                                 /\ h[o].next[1] = o[1] /\ h[o].next[2] = End(h, o)
          /\ o[2] # 0 => h[o].prev # NULL /\ h[o].prev[1] = o[1]
      BY DEF Chain
    <3>2. h[o].next # NULL => h[o].next # o
      BY <1>1, <3>1
    <3>3. x[2] # 0 /\ o[2] # 0 /\ x[1] = o[1] /\ End(g, x) = End(h, o) /\ g[x] # Garbage
      BY <1>1, <1>2, <1>4, <1>6, <1>10, <1>14, <2>1, HeaderIsNotGarbage
    <3>4. g[r].next = x /\ r \in M
      BY <1>6, <1>9, <2>1
    <3> QED
      BY <1>1, <1>10, <2>1, <3>1, <3>2, <3>3, <3>4
  <2>2. CASE x = r
    <3>1. q # NULL /\ q[2] =< z[r[1]]
      BY <1>1, <1>2, <1>4, AddressParts
    <3>2. /\ x[2] = 0 => h[x].prev = NULL
          /\ x[2] # 0 => h[x].prev # NULL /\ h[x].prev[1] = x[1]
          /\ z[x[1]] # 0
      BY <2>2 DEF Chain
    <3> QED
      BY <1>4, <1>6, <1>9, <1>14, <1>18, <2>2, <3>1, <3>2, HeaderIsNotGarbage
  <2>3. CASE x \in L /\ x # r /\ x # o
    <3>1. h[x].next # o
      BY <2>3, OnePrevious
    <3>2. g[x] = h[x] /\ End(g, x) = End(h, x)
      BY <1>16, <2>3
    <3>3. /\ h[x] # Garbage
          /\ z[x[1]] # 0 /\ End(h, x) =< z[x[1]]
          /\ h[x].next = NULL => End(h, x) = z[x[1]]
          /\ h[x].next # NULL => /\ h[x].next \in L
                                 /\ h[x].next[1] = x[1] /\ h[x].next[2] = End(h, x)
          /\ x[2] = 0 => h[x].prev = NULL
          /\ x[2] # 0 => h[x].prev # NULL /\ h[x].prev[1] = x[1]
      BY <2>3 DEF Chain
    <3> QED
      BY <1>18, <2>3, <3>1, <3>2, <3>3
  <2> QED
    BY <2>1, <2>2, <2>3
<1>20. Chain(g, z, M)
  <2> HIDE DEF M
  <2> QED
    BY <1>15, <1>17, <1>19 DEF Chain
<1> QED
  BY <1>4, <1>5, <1>7, <1>9, <1>10, <1>12, <1>13, <1>20

LEMMA ZeroHeader == Zero \in Header /\ Zero # Garbage /\ Zero.size = 0
<1>1. Zero \in Header
  BY Sizes DEF Zero, Header
<1> QED
  BY <1>1, HeaderIsNotGarbage DEF Zero

\* What is written into a region is no header of another one.
LEMMA FillChain ==
  ASSUME NEW h \in Headers, Bounded(h), NEW z \in Blocks, NEW L, Chain(h, z, L),
         NEW r \in L, NEW n \in Nat, n =< h[r].size, NEW v \in {Garbage, Zero},
         NEW g, g = Fill(h, r, n, v)
  PROVE  /\ g \in Headers /\ Bounded(g) /\ Chain(g, z, L)
         /\ \A x \in L : g[x] = h[x]
<1>1. v \in Header \cup {Garbage} /\ (v # Garbage => v.size = 0)
  BY ZeroHeader
<1>2. g \in Headers
  BY <1>1 DEF Headers, Fill
<1>3. \A a \in Addresses : g[a] = h[a] \/ g[a] = v
  BY DEF Fill
<1>4. Bounded(g)
  BY <1>1, <1>3, Sizes DEF Bounded
<1>5. \A x \in L : /\ x \in Addresses /\ x[2] \in Nat /\ x[2] < End(h, x) /\ End(h, x) \in Nat
                   /\ h[x].size \in Nat /\ h[x] # Garbage
  BY ChainFacts, AddressParts, HeaderIsNotGarbage
<1>6. ASSUME NEW x \in L PROVE g[x] = h[x]
  <2>1. CASE x[1] = r[1]
    <3>1. x[2] =< r[2] \/ End(h, r) =< x[2]
      BY <2>1, Apart
    <3>2. x[2] \notin r[2] + HEADER .. r[2] + n
      BY <1>5, <3>1 DEF End, HEADER
    <3> QED
      BY <1>5, <3>2 DEF Fill
  <2>2. CASE x[1] # r[1]
    BY <1>5, <2>2 DEF Fill
  <2> QED
    BY <2>1, <2>2
<1>7. Chain(g, z, L)
  BY <1>5, <1>6, ChainKept
<1> QED
  BY <1>2, <1>4, <1>6, <1>7

WithBlock(h, b, m) ==
  [h EXCEPT ![<<b, 0>>] = [next |-> NULL, prev |-> NULL, size |-> m - HEADER, free |-> TRUE]]

\* Block sizes, with one of them changed.
WithSize(z, b, m) == [z EXCEPT ![b] = m]

\* A new block has a single region, free and as large as the block.
LEMMA NewChain ==
  ASSUME NEW h \in Headers, Bounded(h), NEW z \in Blocks, NEW L, Chain(h, z, L),
         NEW b \in Slots, z[b] = 0, NEW m, m \in {BLOCK_SM, BLOCK_MD, BLOCK_LG},
         NEW g, g = WithBlock(h, b, m),
         NEW y, y = WithSize(z, b, m)
  PROVE  /\ g \in Headers /\ Bounded(g) /\ y \in Blocks
         /\ Chain(g, y, L \cup {<<b, 0>>})
         /\ <<b, 0>> \notin L /\ g[<<b, 0>>].size = m - HEADER /\ g[<<b, 0>>].free
         /\ \A x \in L : g[x] = h[x]
<1> DEFINE r == <<b, 0>>
<1>1. m \in Nat /\ m - HEADER \in Nat /\ m =< BLOCK_LG /\ m # 0 /\ m - HEADER < BLOCK_LG
      /\ m - HEADER \in 0 .. SIZE_T - 1
  BY Sizes DEF HEADER
<1>2. r \in Addresses /\ r[1] = b /\ r[2] = 0
  BY AddressParts, Sizes
<1>3. r \notin L
  BY <1>2 DEF Chain
<1> HIDE DEF r
<1>4. g[r] = [next |-> NULL, prev |-> NULL, size |-> m - HEADER, free |-> TRUE]
  BY <1>2 DEF Headers, WithBlock, r
<1>5. \A x \in Addresses : x # r => g[x] = h[x]
  BY <1>2 DEF Headers, WithBlock, r
<1>6. /\ g[r] \in Header /\ g[r].size = m - HEADER /\ g[r].free /\ g[r].next = NULL
      /\ g[r].prev = NULL
  BY <1>1, <1>4 DEF Header
<1>7. g = [h EXCEPT ![r] = g[r]]
  BY <1>2, <1>4 DEF r, WithBlock
<1>8. g \in Headers
  BY <1>2, <1>6, <1>7 DEF Headers
<1>9. Bounded(g)
  BY <1>1, <1>5, <1>6 DEF Bounded
<1>10. y \in Blocks /\ y[b] = m /\ \A c \in Slots : c # b => y[c] = z[c]
  BY DEF Blocks, WithSize
<1>11. L \subseteq Addresses
  BY DEF Chain
<1>12. \A x \in L : g[x] = h[x] /\ x[1] # b /\ x[1] \in Slots /\ y[x[1]] = z[x[1]]
  BY <1>3, <1>5, <1>10, <1>11, AddressParts DEF Chain
<1>13. End(g, r) = m
  BY <1>1, <1>2, <1>6 DEF End, HEADER
<1>14. Chain(g, y, L \cup {r})
  <2>1. L \cup {r} \subseteq Addresses
    BY <1>2, <1>11
  <2>2. \A c \in Slots : y[c] # 0 => <<c, 0>> \in L \cup {r}
    BY <1>10 DEF Chain, r
  <2>3. ASSUME NEW x \in L \cup {r}
        PROVE  /\ g[x] # Garbage
               /\ y[x[1]] # 0 /\ End(g, x) =< y[x[1]]
               /\ g[x].next = NULL => End(g, x) = y[x[1]]
               /\ g[x].next # NULL => /\ g[x].next \in L \cup {r}
                                      /\ g[x].next[1] = x[1] /\ g[x].next[2] = End(g, x)
               /\ x[2] = 0 => g[x].prev = NULL
               /\ x[2] # 0 => g[x].prev # NULL /\ g[x].prev[1] = x[1]
               /\ x[2] # 0 => \E w \in L \cup {r} : g[w].next = x
    <3>1. CASE x = r
      BY <1>1, <1>2, <1>6, <1>10, <1>13, <3>1, HeaderIsNotGarbage
    <3>2. CASE x \in L
      <4>1. g[x] = h[x] /\ End(g, x) = End(h, x) /\ y[x[1]] = z[x[1]]
        BY <1>12, <3>2 DEF End
      <4>2. x[2] # 0 => \E w \in L : g[w].next = x
        BY <1>12, <3>2 DEF Chain
      <4> QED
        BY <3>2, <4>1, <4>2 DEF Chain
    <3> QED
      BY <3>1, <3>2
  <2> QED
    BY <2>1, <2>2, <2>3 DEF Chain
<1> QED
  BY <1>3, <1>6, <1>8, <1>9, <1>10, <1>12, <1>14 DEF r

Cleared(h, b) == [a \in Addresses |-> IF a[1] = b THEN Zero ELSE h[a]]

\* A block with a single region is returned.
LEMMA ReturnChain ==
  ASSUME NEW h \in Headers, Bounded(h), NEW z \in Blocks, NEW L, Chain(h, z, L),
         NEW r \in L, h[r].prev = NULL, h[r].next = NULL,
         NEW g, g = Cleared(h, r[1]),
         NEW y, y = WithSize(z, r[1], 0)
  PROVE  /\ Chain(g, y, L \ {r})
         /\ \A x \in L : x # r => g[x] = h[x]
<1> DEFINE b == r[1]
<1>1. \A x \in L : /\ x \in Addresses /\ x[1] \in Slots /\ x[2] \in Nat
                   /\ x[2] < End(h, x) /\ End(h, x) \in Nat /\ End(h, x) =< z[x[1]]
                   /\ z[x[1]] \in Nat
  BY ChainFacts, AddressParts
<1>2. r[2] = 0 /\ End(h, r) = z[b]
  BY DEF Chain
<1>3. ASSUME NEW x \in L, x[1] = b PROVE x = r
  <2>1. x[2] =< r[2] \/ End(h, r) =< x[2]
    BY <1>3, Apart
  <2>2. x[2] = r[2]
    BY <1>1, <1>2, <1>3, <2>1
  <2> QED
    BY <1>1, <1>3, <2>2, SameAddress
<1>4. y[b] = 0 /\ \A c \in Slots : c # b => y[c] = z[c]
  BY <1>1 DEF Blocks, WithSize
<1>5. \A x \in L \ {r} : g[x] = h[x] /\ x[1] # b /\ y[x[1]] = z[x[1]] /\ End(g, x) = End(h, x)
  BY <1>1, <1>3, <1>4 DEF End, Cleared
<1>6. Chain(g, y, L \ {r})
  <2>1. L \ {r} \subseteq Addresses
    BY <1>1
  <2>2. ASSUME NEW c \in Slots, y[c] # 0 PROVE <<c, 0>> \in L \ {r}
    BY <1>4, <2>2 DEF Chain
  <2>3. ASSUME NEW x \in L \ {r}
        PROVE  /\ g[x] # Garbage
               /\ y[x[1]] # 0 /\ End(g, x) =< y[x[1]]
               /\ g[x].next = NULL => End(g, x) = y[x[1]]
               /\ g[x].next # NULL => /\ g[x].next \in L \ {r}
                                      /\ g[x].next[1] = x[1] /\ g[x].next[2] = End(g, x)
               /\ x[2] = 0 => g[x].prev = NULL
               /\ x[2] # 0 => g[x].prev # NULL /\ g[x].prev[1] = x[1]
               /\ x[2] # 0 => \E w \in L \ {r} : g[w].next = x
    <3>1. g[x] = h[x] /\ x[1] # b /\ y[x[1]] = z[x[1]] /\ End(g, x) = End(h, x)
      BY <1>5
    <3>2. x[2] # 0 => \E w \in L \ {r} : g[w].next = x
      <4>1. ASSUME NEW w \in L, h[w].next = x PROVE w # r /\ g[w].next = x
        <5>1. x # NULL
          BY <2>1, AddressParts
        <5> QED
          BY <1>5, <4>1, <5>1
      <4> QED
        BY <4>1 DEF Chain
    <3>3. h[x].next # NULL => h[x].next # r
      BY <3>1 DEF Chain
    <3> QED
      BY <3>1, <3>2, <3>3 DEF Chain
  <2> QED
    BY <2>1, <2>2, <2>3 DEF Chain
<1> QED
  BY <1>5, <1>6

-----------------------------------------------------------------------------
(* Sizes                                                                   *)

\* No request is so large that a size_t cannot hold it with its header.
NoOverflow == \A n \in Requests : n + HEADER < SIZE_T

LEMMA PlusHeader ==
  ASSUME NEW n \in Nat, n + HEADER < SIZE_T
  PROVE  Plus(n, HEADER) = n + HEADER
<1>1. n + HEADER \in 0 .. SIZE_T - 1
  BY Sizes DEF HEADER
<1>2. (n + HEADER) % SIZE_T = n + HEADER
  BY <1>1, Sizes
<1> QED
  BY <1>2 DEF Plus

LEMMA RoundedFits ==
  ASSUME NEW n \in Nat, n + HEADER < SIZE_T, ~TooLarge(n)
  PROVE  Rounded(n) \in Nat /\ n =< Rounded(n) /\ Rounded(n) + HEADER =< BLOCK_LG
<1>1. n + HEADER =< BLOCK_LG
  BY PlusHeader, Sizes DEF TooLarge, HEADER
<1> QED
  BY <1>1, Sizes DEF Rounded, HEADER

LEMMA BlockSizeFits ==
  ASSUME NEW n \in Nat, n + HEADER =< BLOCK_LG
  PROVE  BlockSize(n) \in {BLOCK_SM, BLOCK_MD, BLOCK_LG} /\ n + HEADER =< BlockSize(n)
<1> DEFINE F == {m \in {BLOCK_SM, BLOCK_MD, BLOCK_LG} : Plus(n, HEADER) <= m}
           P(x) == x \in F /\ \A y \in F : x =< y
<1>1. Plus(n, HEADER) = n + HEADER
  BY PlusHeader, Sizes DEF HEADER
<1>2. BLOCK_LG \in F /\ F \in SUBSET Nat /\ F # {}
  BY <1>1, Sizes
<1> HIDE DEF F
<1>3. \E x : P(x)
  BY <1>2, Least
<1> HIDE DEF P
<1>4. P(CHOOSE x : P(x))
  BY <1>3
<1>5. (CHOOSE x : P(x)) = Min(F)
  BY DEF P, Min
<1>6. BlockSize(n) = Min(F)
  BY <1>2 DEF BlockSize, F
<1>7. BlockSize(n) \in F
  BY <1>4, <1>5, <1>6 DEF P
<1> QED
  BY <1>1, <1>7 DEF F

-----------------------------------------------------------------------------
(* What is listed and what is counted                                      *)

MappedBy(z) == {a \in Addresses : a[2] < z[a[1]]}

LEMMA MappedIsFinite ==
  ASSUME NEW z
  PROVE  IsFiniteSet(MappedBy(z)) /\ Cardinality(MappedBy(z)) \in Nat
<1>1. IsFiniteSet(0 .. BLOCK_LG - 1)
  BY FS_Interval, Sizes
<1>2. IsFiniteSet(Addresses)
  BY <1>1, FS_Product, SizesAssumption DEF Addresses
<1>3. MappedBy(z) \in SUBSET Addresses
  BY DEF MappedBy
<1>4. IsFiniteSet(MappedBy(z))
  BY <1>2, <1>3, FS_Subset
<1> QED
  BY <1>4, FS_CardinalityType

\* A block counts as much as its size.
LEMMA MappedWithout ==
  ASSUME NEW z \in Blocks, NEW b \in Slots, NEW y, y = WithSize(z, b, 0)
  PROVE  Cardinality(MappedBy(z)) = Cardinality(MappedBy(y)) + z[b]
<1> DEFINE B == {b} \X (0 .. z[b] - 1)
<1>1. z[b] \in Nat /\ z[b] =< BLOCK_LG
  BY Sizes DEF Blocks
<1>2. IsFiniteSet(0 .. z[b] - 1) /\ Cardinality(0 .. z[b] - 1) = z[b]
  <2>1. 0 \in Int /\ z[b] - 1 \in Int
    BY <1>1
  <2>2. /\ IsFiniteSet(0 .. z[b] - 1)
        /\ Cardinality(0 .. z[b] - 1) = IF 0 > z[b] - 1 THEN 0 ELSE (z[b] - 1) - 0 + 1
    BY <2>1, FS_Interval
  <2> QED
    BY <1>1, <2>2
<1>3. IsFiniteSet({b}) /\ Cardinality({b}) = 1
  BY FS_Singleton
<1>4. IsFiniteSet(B) /\ Cardinality(B) = z[b]
  <2>1. IsFiniteSet(B) /\ Cardinality(B) = Cardinality({b}) * Cardinality(0 .. z[b] - 1)
    BY <1>2, <1>3, FS_Product
  <2> QED
    BY <1>1, <1>2, <1>3, <2>1
<1>5. y[b] = 0 /\ \A c \in Slots : c # b => y[c] = z[c]
  BY DEF Blocks, WithSize
<1>6. MappedBy(z) = MappedBy(y) \cup B
  <2>1. ASSUME NEW a \in MappedBy(z) PROVE a \in MappedBy(y) \cup B
    <3>1. a \in Addresses /\ a[2] < z[a[1]] /\ a[1] \in Slots /\ a[2] \in Nat /\ a = <<a[1], a[2]>>
      BY AddressParts DEF MappedBy
    <3>2. CASE a[1] = b
      <4>1. a = <<b, a[2]>> /\ a[2] \in 0 .. z[b] - 1
        BY <1>1, <3>1, <3>2
      <4> QED
        BY <4>1
    <3>3. CASE a[1] # b
      BY <1>5, <3>1, <3>3 DEF MappedBy
    <3> QED
      BY <3>2, <3>3
  <2>2. ASSUME NEW a \in MappedBy(y) PROVE a \in MappedBy(z)
    BY <1>5, AddressParts DEF MappedBy
  <2>3. ASSUME NEW a \in B PROVE a \in MappedBy(z)
    <3>1. a[1] = b /\ a[2] \in Nat /\ a[2] < z[b] /\ a = <<b, a[2]>>
      BY <1>1
    <3>2. a[2] < BLOCK_LG
      BY <1>1, <3>1, Sizes
    <3>3. a \in Addresses
      BY <3>1, <3>2, AddressParts
    <3> QED
      BY <3>1, <3>3 DEF MappedBy
  <2> QED
    BY <2>1, <2>2, <2>3
<1>7. MappedBy(y) \cap B = {}
  <2> SUFFICES ASSUME NEW a \in MappedBy(y), a \in B PROVE FALSE
    OBVIOUS
  <2>1. a[1] = b /\ a \in Addresses /\ a[2] < y[b]
    BY DEF MappedBy
  <2> QED
    BY <1>5, <2>1, AddressParts
<1>8. Cardinality(MappedBy(y) \cap B) = 0
  BY <1>7, FS_EmptySet
<1>9. Cardinality(MappedBy(y) \cup B)
        = Cardinality(MappedBy(y)) + Cardinality(B) - Cardinality(MappedBy(y) \cap B)
  BY <1>4, MappedIsFinite, FS_Union
<1> QED
  BY <1>1, <1>4, <1>6, <1>8, <1>9, MappedIsFinite

LEMMA Listed ==
  ASSUME NEW q \in Seq(Slots), NEW b \in Slots, b \notin ToSet(q), IsInjective(q)
  PROVE  /\ Append(q, b) \in Seq(Slots) /\ IsInjective(Append(q, b))
         /\ ToSet(Append(q, b)) = ToSet(q) \cup {b}
<1> DEFINE r == Append(q, b)
           n == Len(q)
<1>1. /\ n \in Nat /\ DOMAIN q = 1 .. n /\ r \in Seq(Slots)
      /\ Len(r) = n + 1 /\ r[n + 1] = b /\ \A i \in 1 .. n : r[i] = q[i]
  BY AppendProperties
<1> HIDE DEF r
<1>2. DOMAIN r = 1 .. n + 1
  BY <1>1
<1>3. \A i \in 1 .. n : q[i] # b
  BY <1>1 DEF ToSet
<1>4. ASSUME NEW i \in 1 .. n + 1, NEW j \in 1 .. n + 1, r[i] = r[j] PROVE i = j
  BY <1>1, <1>3, <1>4 DEF IsInjective
<1>5. ToSet(r) = ToSet(q) \cup {b}
  <2>1. \A i \in 1 .. n : i \in 1 .. n + 1
    BY <1>1
  <2>2. ToSet(q) \cup {b} \subseteq ToSet(r)
    BY <1>1, <1>2, <2>1 DEF ToSet
  <2>3. \A i \in 1 .. n + 1 : i \in 1 .. n \/ i = n + 1
    BY <1>1
  <2>4. ToSet(r) \subseteq ToSet(q) \cup {b}
    BY <1>1, <1>2, <2>3 DEF ToSet
  <2> QED
    BY <2>2, <2>4
<1> QED
  BY <1>1, <1>2, <1>4, <1>5 DEF IsInjective, r

LEMMA NotListed ==
  ASSUME NEW q \in Seq(Slots), NEW b \in ToSet(q), IsInjective(q)
  PROVE  /\ Unlinked(q, b) \in Seq(Slots) /\ IsInjective(Unlinked(q, b))
         /\ ToSet(Unlinked(q, b)) = ToSet(q) \ {b}
<1> DEFINE p == CHOOSE i \in DOMAIN q : q[i] = b
           n == Len(q)
           r == Unlinked(q, b)
           u == SubSeq(q, 1, p - 1)
           v == SubSeq(q, p + 1, n)
<1>1. n \in Nat /\ DOMAIN q = 1 .. n /\ \A i \in 1 .. n : q[i] \in Slots
  OBVIOUS
<1>2. p \in 1 .. n /\ q[p] = b
  BY <1>1 DEF ToSet
<1>3. r = u \o v
  BY DEF Unlinked, RemoveAt
<1> HIDE DEF p, r
<1>4. u \in Seq(Slots) /\ Len(u) = p - 1 /\ \A j \in 1 .. p - 1 : u[j] = q[j]
  BY <1>1, <1>2, SubSeqProperties
<1>5. v \in Seq(Slots) /\ Len(v) = n - p /\ \A j \in 1 .. n - p : v[j] = q[p + j]
  <2>1. p + 1 \in Int /\ n \in Int /\ \A i \in p + 1 .. n : q[i] \in Slots
    BY <1>1, <1>2
  <2>2. /\ v \in Seq(Slots) /\ Len(v) = IF p + 1 =< n THEN n - (p + 1) + 1 ELSE 0
        /\ \A j \in 1 .. n - (p + 1) + 1 : v[j] = q[(p + 1) + j - 1]
    BY <2>1, SubSeqProperties
  <2>3. Len(v) = n - p
    <3>1. p \in Int /\ n \in Int /\ p =< n
      BY <1>1, <1>2
    <3>2. CASE p = n
      <4>1. ~(p + 1 =< n) /\ n - p = 0
        BY <3>1, <3>2
      <4> QED
        BY <2>2, <4>1
    <3>3. CASE p # n
      <4>1. p + 1 =< n /\ n - (p + 1) + 1 = n - p
        BY <3>1, <3>3
      <4> QED
        BY <2>2, <4>1
    <3> QED
      BY <3>2, <3>3
  <2>4. ASSUME NEW j \in 1 .. n - p PROVE v[j] = q[p + j]
    <3>1. (p + 1) + j - 1 = p + j /\ n - (p + 1) + 1 = n - p
      BY <1>1, <1>2
    <3> QED
      BY <2>2, <3>1
  <2> QED
    BY <2>2, <2>3, <2>4
<1> HIDE DEF u, v
<1>6. /\ r \in Seq(Slots) /\ Len(r) = Len(u) + Len(v)
      /\ \A j \in 1 .. Len(u) + Len(v) : r[j] = IF j <= Len(u) THEN u[j] ELSE v[j - Len(u)]
  BY <1>3, <1>4, <1>5, ConcatProperties
<1>7. DOMAIN r = 1 .. n - 1 /\ \A j \in 1 .. n - 1 : r[j] = IF j < p THEN q[j] ELSE q[j + 1]
  <2>1. Len(u) + Len(v) = n - 1 /\ Len(u) = p - 1
    BY <1>1, <1>2, <1>4, <1>5
  <2>2. DOMAIN r = 1 .. n - 1
    BY <1>6, <2>1
  <2>3. ASSUME NEW j \in 1 .. n - 1 PROVE r[j] = IF j < p THEN q[j] ELSE q[j + 1]
    <3>1. r[j] = IF j <= p - 1 THEN u[j] ELSE v[j - (p - 1)]
      BY <1>6, <2>1
    <3>2. CASE j < p
      BY <1>1, <1>2, <1>4, <3>1, <3>2
    <3>3. CASE ~(j < p)
      <4>1. j - (p - 1) \in 1 .. n - p /\ p + (j - (p - 1)) = j + 1
        BY <1>1, <1>2, <3>3
      <4>2. v[j - (p - 1)] = q[j + 1]
        BY <1>5, <4>1
      <4> QED
        BY <1>1, <1>2, <3>1, <3>3, <4>2
    <3> QED
      BY <3>2, <3>3
  <2> QED
    BY <2>2, <2>3
<1>8. ASSUME NEW i \in 1 .. n - 1, NEW j \in 1 .. n - 1, r[i] = r[j] PROVE i = j
  <2> DEFINE k(x) == IF x < p THEN x ELSE x + 1
  <2>1. k(i) \in 1 .. n /\ k(j) \in 1 .. n /\ q[k(i)] = q[k(j)]
    BY <1>1, <1>2, <1>7, <1>8
  <2>2. k(i) = k(j)
    BY <1>1, <2>1 DEF IsInjective
  <2> QED
    BY <1>2, <2>2
<1>9. ASSUME NEW x \in ToSet(r) PROVE x \in ToSet(q) \ {b}
  <2>1. PICK j \in 1 .. n - 1 : r[j] = x
    BY <1>7 DEF ToSet
  <2> DEFINE k == IF j < p THEN j ELSE j + 1
  <2>2. k \in 1 .. n /\ q[k] = x /\ k # p
    BY <1>1, <1>2, <1>7, <2>1
  <2>3. x # b
    BY <1>1, <1>2, <2>2 DEF IsInjective
  <2> QED
    BY <1>1, <2>2, <2>3 DEF ToSet
<1>10. ASSUME NEW x \in ToSet(q) \ {b} PROVE x \in ToSet(r)
  <2>1. PICK k \in 1 .. n : q[k] = x
    BY <1>1 DEF ToSet
  <2> DEFINE j == IF k < p THEN k ELSE k - 1
  <2>2. k # p
    BY <1>2, <2>1
  <2>3. j \in 1 .. n - 1 /\ r[j] = x
    BY <1>1, <1>2, <1>7, <2>1, <2>2
  <2> QED
    BY <1>7, <2>3 DEF ToSet
<1> QED
  BY <1>6, <1>7, <1>8, <1>9, <1>10 DEF IsInjective, r

-----------------------------------------------------------------------------
(* The heap                                                                *)

Heaps == [header : Headers, blocks : Seq(Slots), size : Blocks, total_mmy : Nat, sane : BOOLEAN]

\* Each block is listed once, and what is mapped is counted and limited.
Books(s) ==
  /\ IsInjective(s.blocks)
  /\ ToSet(s.blocks) = {b \in Slots : s.size[b] # 0}
  /\ s.total_mmy = Cardinality(MappedBy(s.size))
  /\ s.total_mmy < HARD_LIMIT

\* The regions are L.
Whole(s, L) == s \in Heaps /\ Books(s) /\ Bounded(s.header) /\ Chain(s.header, s.size, L)

Used(h, L) == {r \in L : ~h[r].free}

LEMMA LinkedIsChain ==
  ASSUME NEW s, NEW L, Whole(s, L)
  PROVE  Linked(s) = L
<1>1. s.header \in Headers /\ s.size \in Blocks /\ Chain(s.header, s.size, L)
      /\ ToSet(s.blocks) = {b \in Slots : s.size[b] # 0}
  BY DEF Whole, Heaps, Books
<1>2. \A b \in ToSet(s.blocks) : Regions(s.header, b) = {r \in L : r[1] = b}
  BY <1>1, ChainRegions
<1>3. \A r \in L : r[1] \in ToSet(s.blocks)
  BY <1>1, AddressParts DEF Chain
<1> QED
  BY <1>2, <1>3 DEF Linked

\* The search comes to one of the free regions that are large enough.
LEMMA FindFreeFits ==
  ASSUME NEW s, NEW L, Whole(s, L), NEW n \in Nat, Fitting(s, n) # {}
  PROVE  FindFree(s, n) \in L /\ s.header[FindFree(s, n)].size >= n /\ s.header[FindFree(s, n)].free
<1> DEFINE fit == Fitting(s, n)
           best == {r \in fit : \A q \in fit : s.header[r].size <= s.header[q].size}
           found == IF BEST_FIT THEN best ELSE fit
           P(r) == r \in found /\ \A q \in found : q = r \/ Precedes(s, r, q)
<1>1. s.header \in Headers /\ s.size \in Blocks /\ Chain(s.header, s.size, L)
      /\ ToSet(s.blocks) = {b \in Slots : s.size[b] # 0} /\ s.blocks \in Seq(Slots)
  BY DEF Whole, Heaps, Books
<1>2. /\ fit \subseteq L
      /\ \A r \in fit : s.header[r].size >= n /\ s.header[r].free
  BY LinkedIsChain DEF Fitting
<1>3. \A r \in L : r \in Addresses /\ r[1] \in Slots /\ r[2] \in Nat /\ s.header[r].size \in Nat
                   /\ r[1] \in ToSet(s.blocks)
  BY <1>1, ChainFacts, AddressParts DEF Chain
<1> HIDE DEF fit
<1>4. best # {}
  <2> DEFINE S == {s.header[r].size : r \in fit}
  <2>1. S \in SUBSET Nat /\ S # {}
    BY <1>2, <1>3 DEF fit
  <2>2. PICK m \in S : \A k \in S : m =< k
    BY <2>1, Least
  <2> QED
    BY <2>2
<1>5. found # {} /\ found \subseteq fit
  BY <1>4 DEF fit
<1> HIDE DEF found
<1>6. \E r : P(r)
  <2> DEFINE I == {i \in DOMAIN s.blocks : \E r \in found : r[1] = s.blocks[i]}
  <2>1. DOMAIN s.blocks \subseteq Nat
    BY <1>1
  <2>2. \A r \in found : \E i \in I : r[1] = s.blocks[i]
    BY <1>2, <1>3, <1>5 DEF ToSet
  <2>3. I \in SUBSET Nat /\ I # {}
    BY <1>5, <2>1, <2>2
  <2>4. PICK i \in I : \A j \in I : i =< j
    BY <2>3, Least
  <2> DEFINE T == {r \in found : r[1] = s.blocks[i]}
  <2>5. T \in SUBSET Addresses /\ T # {}
    BY <1>2, <1>3, <1>5
  <2>6. PICK r \in T : \A c \in T : r[2] =< c[2]
    BY <2>5, LowestAddress
  <2>7. ASSUME NEW q \in found, q # r PROVE Precedes(s, r, q)
    <3>1. PICK j \in I : q[1] = s.blocks[j]
      BY <2>2
    <3>2. i =< j /\ i \in Nat /\ j \in Nat
      BY <2>3, <2>4
    <3>3. CASE j = i
      <4>1. q \in T /\ q[1] = r[1] /\ r[2] =< q[2]
        BY <2>6, <3>1, <3>3
      <4>2. r[2] # q[2]
        BY <2>5, <2>7, <4>1, SameAddress
      <4>3. r[2] < q[2]
        BY <1>2, <1>3, <1>5, <4>1, <4>2
      <4> QED
        BY <4>1, <4>3 DEF Precedes
    <3>4. CASE j # i
      <4>1. i < j
        BY <3>2, <3>4
      <4> QED
        BY <2>6, <3>1, <4>1 DEF Precedes
    <3> QED
      BY <3>3, <3>4
  <2> QED
    BY <2>6, <2>7
<1> HIDE DEF P
<1>7. P(CHOOSE r : P(r))
  BY <1>6
<1>8. (CHOOSE r : P(r)) = FindFree(s, n)
  BY DEF P, found, fit, FindFree
<1>9. FindFree(s, n) \in fit
  BY <1>5, <1>7, <1>8 DEF P
<1> QED
  BY <1>2, <1>9

\* A heap with other headers.
WithHeader(s, g) == [s EXCEPT !.header = g]

LEMMA HeaderChanged ==
  ASSUME NEW s \in Heaps, NEW g \in Headers, NEW t, t = WithHeader(s, g)
  PROVE  /\ t \in Heaps /\ t.header = g /\ t.blocks = s.blocks /\ t.size = s.size
         /\ t.total_mmy = s.total_mmy /\ t.sane = s.sane
         /\ Books(s) => Books(t)
<1>1. /\ t \in Heaps /\ t.header = g /\ t.blocks = s.blocks /\ t.size = s.size
      /\ t.total_mmy = s.total_mmy /\ t.sane = s.sane
  BY DEF Heaps, WithHeader
<1>2. Books(s) => Books(t)
  BY <1>1 DEF Books
<1> QED
  BY <1>1, <1>2

LEMMA HeapParts ==
  ASSUME NEW s \in Heaps
  PROVE  /\ s.header \in Headers /\ s.blocks \in Seq(Slots) /\ s.size \in Blocks
         /\ s.total_mmy \in Nat /\ s.sane \in BOOLEAN
BY DEF Heaps

LEMMA GiveKeeps ==
  ASSUME NEW s, NEW L, Whole(s, L), NEW r \in L, s.header[r].free,
         NEW n \in Nat, n =< s.header[r].size,
         NEW t, t = WithHeader(s, Take(s.header, r, n))
  PROVE  \E M : /\ Whole(t, M) /\ t.sane = s.sane
                /\ Used(t.header, M) = Used(s.header, L) \cup {r}
                /\ r \notin Used(s.header, L)
                /\ t.header[r].size >= n
                /\ \A x \in Used(s.header, L) : t.header[x].size = s.header[x].size
<1> DEFINE h == s.header
           g == Take(h, r, n)
<1>1. s \in Heaps /\ h \in Headers /\ s.size \in Blocks /\ Bounded(h) /\ Chain(h, s.size, L)
      /\ Books(s)
  BY HeapParts DEF Whole
<1>2. PICK M : /\ g \in Headers /\ Bounded(g) /\ Chain(g, s.size, M)
               /\ L \subseteq M /\ \A x \in M \ L : g[x].free
               /\ g[r].size >= n /\ ~g[r].free
               /\ \A x \in L : x # r => g[x] = h[x]
  BY <1>1, TakeChain
<1> HIDE DEF g
<1>3. t \in Heaps /\ Books(t) /\ t.header = g /\ t.size = s.size /\ t.sane = s.sane
  BY <1>1, <1>2, HeaderChanged DEF g
<1>4. Whole(t, M)
  BY <1>2, <1>3 DEF Whole
<1>5. Used(g, M) = Used(h, L) \cup {r} /\ r \notin Used(h, L)
  BY <1>2 DEF Used
<1>6. \A x \in Used(h, L) : g[x].size = h[x].size
  BY <1>2, <1>5 DEF Used
<1> QED
  BY <1>2, <1>3, <1>4, <1>5, <1>6

LEMMA NewRegionKeeps ==
  ASSUME NEW s, NEW L, Whole(s, L), NEW n \in Nat, n + HEADER =< BLOCK_LG,
         NEW b \in Slots, s.size[b] = 0, s.total_mmy + BlockSize(n) < HARD_LIMIT,
         NEW t, t = NewRegion(s, n, b)
  PROVE  /\ Whole(t, L \cup {<<b, 0>>}) /\ t.sane = s.sane
         /\ <<b, 0>> \notin L /\ t.header[<<b, 0>>].size >= n /\ t.header[<<b, 0>>].free
         /\ \A x \in L : t.header[x] = s.header[x]
<1> DEFINE h == s.header
           z == s.size
           m == BlockSize(n)
           g == WithBlock(h, b, m)
           y == WithSize(z, b, m)
<1>1. /\ s \in Heaps /\ h \in Headers /\ z \in Blocks /\ Bounded(h) /\ Chain(h, z, L)
      /\ Books(s) /\ s.blocks \in Seq(Slots) /\ s.total_mmy \in Nat
  BY HeapParts DEF Whole
<1>2. m \in {BLOCK_SM, BLOCK_MD, BLOCK_LG} /\ n + HEADER =< m /\ m \in Nat
  BY BlockSizeFits, Sizes
<1>4. /\ t.header = [h EXCEPT ![<<b, 0>>] = [next |-> NULL, prev |-> NULL,
                                            size |-> m - HEADER, free |-> TRUE]]
      /\ t.blocks = Append(s.blocks, b) /\ t.size = y /\ t.total_mmy = s.total_mmy + m
      /\ t.sane = s.sane
      /\ t = [header |-> t.header, blocks |-> t.blocks, size |-> t.size,
              total_mmy |-> t.total_mmy, sane |-> t.sane]
  BY <1>1 DEF NewRegion, Heaps, WithSize
<1> HIDE DEF m
<1>5. t.header = g
  BY <1>4 DEF WithBlock
<1> HIDE DEF g, y
<1>6. /\ g \in Headers /\ Bounded(g) /\ y \in Blocks
      /\ Chain(g, y, L \cup {<<b, 0>>})
      /\ <<b, 0>> \notin L /\ g[<<b, 0>>].size = m - HEADER /\ g[<<b, 0>>].free
      /\ \A x \in L : g[x] = h[x]
  <2>1. g = WithBlock(h, b, m) /\ y = WithSize(z, b, m)
    BY DEF g, y
  <2>2. h \in Headers /\ z \in Blocks /\ z[b] = 0 /\ Bounded(h) /\ Chain(h, z, L)
    BY <1>1
  <2> HIDE DEF h, z
  <2> QED
    BY <1>2, <2>1, <2>2, NewChain, SMTT(30)
<1>7. b \notin ToSet(s.blocks) /\ IsInjective(s.blocks)
  BY <1>1 DEF Books
<1>8. /\ t.blocks \in Seq(Slots) /\ IsInjective(t.blocks)
      /\ ToSet(t.blocks) = ToSet(s.blocks) \cup {b}
  BY <1>1, <1>4, <1>7, Listed
<1>9. y[b] = m /\ \A c \in Slots : c # b => y[c] = z[c]
  BY <1>1 DEF Blocks, WithSize, y
<1>10. z = WithSize(y, b, 0)
  BY <1>1 DEF Blocks, WithSize, y
<1>11. Cardinality(MappedBy(y)) = Cardinality(MappedBy(z)) + m
  BY <1>6, <1>9, <1>10, MappedWithout
<1>12. m # 0
  BY <1>2 DEF HEADER
<1>13. Books(t)
  <2>1. ToSet(t.blocks) = {c \in Slots : y[c] # 0}
    BY <1>1, <1>8, <1>9, <1>12 DEF Books
  <2>2. t.total_mmy = Cardinality(MappedBy(y)) /\ t.total_mmy < HARD_LIMIT
    BY <1>1, <1>4, <1>11 DEF Books, m
  <2> QED
    BY <1>4, <1>8, <2>1, <2>2 DEF Books
<1>14. t \in Heaps
  <2>1. t.total_mmy \in Nat /\ t.sane \in BOOLEAN
    BY <1>1, <1>2, <1>4, HeapParts
  <2> QED
    BY <1>4, <1>5, <1>6, <1>8, <2>1 DEF Heaps
<1>15. g[<<b, 0>>].size >= n
  BY <1>2, <1>6 DEF HEADER
<1> QED
  BY <1>4, <1>5, <1>6, <1>13, <1>14, <1>15 DEF Whole

\* What malloc gives was nobody's, is large enough, and is the only change.
LEMMA MallocKeeps ==
  ASSUME NEW s, NEW L, Whole(s, L), NEW n \in Nat, n + HEADER < SIZE_T,
         NEW m \in Mallocs(s, n)
  PROVE  \E M : /\ Whole(m.heap, M) /\ m.heap.sane = s.sane
                /\ Used(m.heap.header, M) = Used(s.header, L) \cup {m.at}
                /\ m.at \in Addresses /\ m.at \notin Used(s.header, L)
                /\ m.heap.header[m.at].size >= n
                /\ \A x \in Used(s.header, L) : m.heap.header[x].size = s.header[x].size
<1> DEFINE k == Rounded(n)
           Give(t, r) == [heap |-> [t EXCEPT !.header = Take(@, r, k)], at |-> r]
<1>1. ~TooLarge(n)
  BY DEF Mallocs
<1>2. k \in Nat /\ n =< k /\ k + HEADER =< BLOCK_LG
  BY <1>1, RoundedFits
<1> HIDE DEF k
<1>3. \/ Fitting(s, k) # {} /\ m = Give(s, FindFree(s, k))
      \/ \E b \in Slots : /\ s.size[b] = 0 /\ s.total_mmy + BlockSize(k) < HARD_LIMIT
                          /\ m = Give(NewRegion(s, k, b), <<b, 0>>)
  BY DEF Mallocs, k
<1>4. \A t, r : /\ Give(t, r).heap = WithHeader(t, Take(t.header, r, k))
                /\ Give(t, r).at = r
  BY DEF WithHeader
<1>5. ASSUME NEW t, NEW M, Whole(t, M), t.sane = s.sane, NEW r \in M,
             t.header[r].free, k =< t.header[r].size, m = Give(t, r),
             Used(t.header, M) = Used(s.header, L),
             \A x \in Used(s.header, L) : t.header[x].size = s.header[x].size
      PROVE  \E N : /\ Whole(m.heap, N) /\ m.heap.sane = s.sane
                    /\ Used(m.heap.header, N) = Used(s.header, L) \cup {m.at}
                    /\ m.at \in Addresses /\ m.at \notin Used(s.header, L)
                    /\ m.heap.header[m.at].size >= n
                    /\ \A x \in Used(s.header, L) : m.heap.header[x].size = s.header[x].size
  <2>1. m.heap = WithHeader(t, Take(t.header, r, k)) /\ m.at = r
    BY <1>4, <1>5
  <2> HIDE DEF Give
  <2>2. PICK N : /\ Whole(m.heap, N) /\ m.heap.sane = t.sane
                 /\ Used(m.heap.header, N) = Used(t.header, M) \cup {r}
                 /\ r \notin Used(t.header, M)
                 /\ m.heap.header[r].size >= k
                 /\ \A x \in Used(t.header, M) : m.heap.header[x].size = t.header[x].size
    <3>1. Whole(t, M) /\ r \in M /\ t.header[r].free /\ k \in Nat /\ k =< t.header[r].size
      BY <1>2, <1>5
    <3>2. m.heap = WithHeader(t, Take(t.header, r, k))
      BY <2>1
    <3> QED
      BY <3>1, <3>2, GiveKeeps
  <2>3. Whole(m.heap, N) /\ r \in N
    BY <2>2 DEF Used
  <2>4. r \in Addresses /\ m.heap.header[r].size \in Nat
    BY <2>3, HeapParts, ChainFacts DEF Whole
  <2>5. m.heap.header[r].size >= n
    BY <1>2, <2>2, <2>4
  <2> QED
    BY <1>5, <2>1, <2>2, <2>4, <2>5
<1>6. CASE Fitting(s, k) # {} /\ m = Give(s, FindFree(s, k))
  <2>1. FindFree(s, k) \in L /\ s.header[FindFree(s, k)].size >= k
        /\ s.header[FindFree(s, k)].free
    BY <1>2, <1>6, FindFreeFits
  <2>2. s.header[FindFree(s, k)].size \in Nat
    BY <2>1, HeapParts, ChainFacts DEF Whole
  <2>3. k =< s.header[FindFree(s, k)].size
    BY <1>2, <2>1, <2>2
  <2> QED
    BY <1>5, <1>6, <2>1, <2>3
<1>7. ASSUME NEW b \in Slots, s.size[b] = 0, s.total_mmy + BlockSize(k) < HARD_LIMIT,
             m = Give(NewRegion(s, k, b), <<b, 0>>)
      PROVE  \E N : /\ Whole(m.heap, N) /\ m.heap.sane = s.sane
                    /\ Used(m.heap.header, N) = Used(s.header, L) \cup {m.at}
                    /\ m.at \in Addresses /\ m.at \notin Used(s.header, L)
                    /\ m.heap.header[m.at].size >= n
                    /\ \A x \in Used(s.header, L) : m.heap.header[x].size = s.header[x].size
  <2> DEFINE t == NewRegion(s, k, b)
             r == <<b, 0>>
             M == L \cup {r}
  <2>1. /\ Whole(t, M) /\ t.sane = s.sane
        /\ r \notin L /\ t.header[r].size >= k /\ t.header[r].free
        /\ \A x \in L : t.header[x] = s.header[x]
    BY <1>2, <1>7, NewRegionKeeps
  <2>2. m = Give(t, r)
    BY <1>7
  <2> HIDE DEF t, r, Give
  <2>3. Used(t.header, M) = Used(s.header, L)
    BY <2>1 DEF Used
  <2>4. \A x \in Used(s.header, L) : t.header[x].size = s.header[x].size
    BY <2>1 DEF Used
  <2>5. t.header[r].size \in Nat /\ r \in M
    BY <2>1, HeapParts, ChainFacts DEF Whole
  <2>6. k =< t.header[r].size
    BY <1>2, <2>1, <2>5
  <2> QED
    BY <1>5, <2>1, <2>2, <2>3, <2>4, <2>5, <2>6
<1> QED
  BY <1>3, <1>6, <1>7

-----------------------------------------------------------------------------
(* free                                                                    *)

LEMMA IsFreeHas ==
  ASSUME NEW h, NEW r
  PROVE  IsFree(h, r) => r # NULL /\ h[r] # Garbage /\ h[r].free
BY DEF IsFree

\* A free region after r becomes part of it.
LEMMA CoalesceNextChain ==
  ASSUME NEW h \in Headers, Bounded(h), NEW z \in Blocks, NEW L, Chain(h, z, L),
         NEW r \in L, NEW g, g = CoalesceNext(h, r)
  PROVE  \E M : /\ g \in Headers /\ Bounded(g) /\ Chain(g, z, M)
                /\ (M = L \/ (M = L \ {h[r].next} /\ h[r].next # r))
                /\ \A x \in L : x \notin M => h[x].free
                /\ \A x \in L : g[x].free = h[x].free
                /\ \A x \in L : x # r => g[x].size = h[x].size /\ g[x].next = h[x].next
                /\ g[r].prev = h[r].prev
                /\ \A x \in Addresses : x \notin L => g[x] = h[x]
<1> DEFINE q == h[r].next
<1>1. CASE ~IsFree(h, q)
  <2>1. g = h
    BY <1>1 DEF CoalesceNext
  <2> QED
    BY <2>1
<1>2. CASE IsFree(h, q)
  <2>1. g = Coalesce(h, r)
    BY <1>2 DEF CoalesceNext
  <2>2. q \in L /\ h[q].free
    BY <1>2, IsFreeHas, ChainFacts
  <2>3. /\ r # q
        /\ g \in Headers /\ Bounded(g) /\ Chain(g, z, L \ {q})
        /\ g[r].free = h[r].free /\ g[r].prev = h[r].prev
        /\ \A x \in L : x # r => /\ g[x].size = h[x].size /\ g[x].free = h[x].free
                                 /\ g[x].next = h[x].next
        /\ \A x \in Addresses : x \notin L => g[x] = h[x]
    BY <2>1, <2>2, CoalesceChain
  <2>4. \A x \in L : g[x].free = h[x].free
    BY <2>3
  <2> DEFINE M == L \ {q}
  <2>5. Chain(g, z, M) /\ \A x \in L : x \notin M => h[x].free
    BY <2>2, <2>3
  <2>6. M = L \ {h[r].next} /\ h[r].next # r
    BY <2>3
  <2>7. \A x \in L : x # r => g[x].size = h[x].size /\ g[x].next = h[x].next
    BY <2>3
  <2> HIDE DEF M, q
  <2> WITNESS M
  <2> QED
    BY <2>3, <2>4, <2>5, <2>6, <2>7
<1> QED
  BY <1>1, <1>2

\* A merge with what only looks like a region leaves headers, too.
LEMMA CoalesceType ==
  ASSUME NEW h \in Headers, Bounded(h), NEW r \in Addresses, h[r] # Garbage,
         h[r].next # NULL, h[h[r].next] # Garbage
  PROVE  Coalesce(h, r) \in Headers
<1> DEFINE q == h[r].next
           last == h[q].next
           merged == [h EXCEPT ![r].size = @ + h[q].size + HEADER, ![r].next = last]
<1>1. /\ h[r] \in Header /\ h[r].size \in Nat /\ h[r].size < BLOCK_LG /\ q \in Addresses
      /\ h[q] \in Header /\ h[q].size \in Nat /\ h[q].size < BLOCK_LG
      /\ last # NULL => last \in Addresses
  BY HeaderFields DEF Bounded
<1>2. h[r].size + h[q].size + HEADER \in 0 .. SIZE_T - 1
  BY <1>1, Sizes DEF HEADER
<1>3. merged = [h EXCEPT ![r] = [h[r] EXCEPT !.size = h[r].size + h[q].size + HEADER,
                                             !.next = last]]
  BY <1>1 DEF Headers, Header
<1>4. [h[r] EXCEPT !.size = h[r].size + h[q].size + HEADER, !.next = last] \in Header
  <2>1. last \in Addresses \cup {NULL}
    BY <1>1
  <2> QED
    BY <1>1, <1>2, <2>1 DEF Header
<1>5. merged \in Headers
  BY <1>3, <1>4 DEF Headers
<1>6. Coalesce(h, r) = IF last # NULL /\ merged[last] # Garbage
                         THEN [merged EXCEPT ![last].prev = r] ELSE merged
  BY DEF Coalesce
<1> HIDE DEF merged
<1>7. CASE ~(last # NULL /\ merged[last] # Garbage)
  BY <1>5, <1>6, <1>7
<1>8. CASE last # NULL /\ merged[last] # Garbage
  <2>1. last \in Addresses /\ merged[last] \in Header
    BY <1>1, <1>5, <1>8, HeaderFields
  <2>2. [merged EXCEPT ![last].prev = r] = [merged EXCEPT ![last] = [merged[last] EXCEPT !.prev = r]]
    BY <1>5, <2>1 DEF Headers
  <2>3. [merged[last] EXCEPT !.prev = r] \in Header
    BY <2>1 DEF Header
  <2> QED
    BY <1>5, <1>6, <1>8, <2>2, <2>3 DEF Headers
<1> QED
  BY <1>7, <1>8

LEMMA ReturnKeepsBooks ==
  ASSUME NEW s \in Heaps, Books(s), NEW b \in Slots, s.size[b] # 0,
         NEW t, t = ReturnBlock(s, b)
  PROVE  /\ t \in Heaps /\ Books(t) /\ t.sane = s.sane
         /\ t.header = Cleared(s.header, b) /\ t.size = WithSize(s.size, b, 0)
         /\ Bounded(s.header) => Bounded(t.header)
<1> DEFINE h == s.header
           z == s.size
           g == Cleared(h, b)
           y == WithSize(z, b, 0)
<1>1. h \in Headers /\ z \in Blocks /\ s.blocks \in Seq(Slots) /\ s.total_mmy \in Nat
  BY HeapParts
<1>2. /\ t.header = g /\ t.blocks = Unlinked(s.blocks, b) /\ t.size = y
      /\ t.total_mmy = s.total_mmy - z[b] /\ t.sane = s.sane
      /\ t = [header |-> t.header, blocks |-> t.blocks, size |-> t.size,
              total_mmy |-> t.total_mmy, sane |-> t.sane]
  BY DEF ReturnBlock, Heaps, WithSize, Cleared
<1>3. g \in Headers
  BY <1>1, ZeroHeader DEF Headers, Cleared
<1>4. \A a \in Addresses : g[a] = h[a] \/ g[a] = Zero
  BY DEF Cleared
<1>5. Bounded(h) => Bounded(g)
  BY <1>4, ZeroHeader, Sizes DEF Bounded
<1>6. y \in Blocks /\ y[b] = 0 /\ \A c \in Slots : c # b => y[c] = z[c]
  BY <1>1 DEF Blocks, WithSize
<1>7. b \in ToSet(s.blocks) /\ IsInjective(s.blocks)
  BY DEF Books
<1>8. /\ t.blocks \in Seq(Slots) /\ IsInjective(t.blocks)
      /\ ToSet(t.blocks) = ToSet(s.blocks) \ {b}
  BY <1>1, <1>2, <1>7, NotListed
<1>9. Cardinality(MappedBy(z)) = Cardinality(MappedBy(y)) + z[b]
  BY <1>1, MappedWithout
<1> HIDE DEF g, y
<1>10. z[b] \in Nat /\ Cardinality(MappedBy(y)) \in Nat
  BY <1>1, MappedIsFinite, Sizes DEF Blocks
<1>11. t.total_mmy = Cardinality(MappedBy(y)) /\ t.total_mmy \in Nat /\ t.total_mmy < HARD_LIMIT
  <2>1. s.total_mmy = Cardinality(MappedBy(y)) + z[b] /\ s.total_mmy < HARD_LIMIT
    BY <1>9 DEF Books
  <2> QED
    BY <1>1, <1>2, <1>10, <2>1, Sizes
<1>12. ToSet(t.blocks) = {c \in Slots : y[c] # 0}
  BY <1>6, <1>8 DEF Books
<1>13. Books(t)
  BY <1>2, <1>8, <1>11, <1>12 DEF Books
<1>14. t \in Heaps
  <2>1. t.sane \in BOOLEAN
    BY <1>2, HeapParts
  <2> QED
    BY <1>2, <1>3, <1>6, <1>8, <1>11, <2>1 DEF Heaps
<1> QED
  BY <1>2, <1>5, <1>13, <1>14 DEF g, y

\* The end of free: a block with a single region is returned.
LEMMA ReturnedOrNot ==
  ASSUME NEW s, NEW L, Whole(s, L), NEW r \in L, s.header[r].free,
         NEW t, t = IF s.header[r].prev = NULL /\ s.header[r].next = NULL
                      THEN ReturnBlock(s, r[1]) ELSE s
  PROVE  \E M : /\ Whole(t, M) /\ Used(t.header, M) = Used(s.header, L)
                /\ \A x \in Used(s.header, L) : t.header[x].size = s.header[x].size
<1>1. CASE ~(s.header[r].prev = NULL /\ s.header[r].next = NULL)
  BY <1>1
<1>2. CASE s.header[r].prev = NULL /\ s.header[r].next = NULL
  <2> DEFINE b == r[1]
  <2>1. s \in Heaps /\ Books(s) /\ s.header \in Headers /\ s.size \in Blocks
        /\ Bounded(s.header) /\ Chain(s.header, s.size, L)
    BY HeapParts DEF Whole
  <2>2. b \in Slots /\ s.size[b] # 0
    BY <2>1, AddressParts DEF Chain
  <2>3. t = ReturnBlock(s, b)
    BY <1>2
  <2>4. /\ t \in Heaps /\ Books(t) /\ Bounded(t.header)
        /\ t.header = Cleared(s.header, b) /\ t.size = WithSize(s.size, b, 0)
    BY <2>1, <2>2, <2>3, ReturnKeepsBooks
  <2>5. /\ Chain(t.header, t.size, L \ {r})
        /\ \A x \in L : x # r => t.header[x] = s.header[x]
    BY <1>2, <2>1, <2>4, ReturnChain
  <2>6. Whole(t, L \ {r})
    BY <2>4, <2>5 DEF Whole
  <2>7. Used(t.header, L \ {r}) = Used(s.header, L)
    BY <2>5 DEF Used
  <2>8. \A x \in Used(s.header, L) : t.header[x].size = s.header[x].size
    BY <2>5 DEF Used
  <2> QED
    BY <2>6, <2>7, <2>8
<1> QED
  BY <1>1, <1>2

\* Free, step by step
Freed(s, r) == WithFree(s.header, r, TRUE)
FreedNext(s, r) == CoalesceNext(Freed(s, r), r)
Merges(s, r) ==
  LET h == FreedNext(s, r)
      prev == h[r].prev
  IN IsFree(h, prev) /\ h[prev].next # NULL /\ h[h[prev].next] # Garbage
Left(s, r) == IF Merges(s, r) THEN FreedNext(s, r)[r].prev ELSE r
WithHeaderAndSane(s, g, v) == [s EXCEPT !.header = g, !.sane = v]
FreedBoth(s, r) ==
  WithHeaderAndSane(s, IF Merges(s, r) THEN Coalesce(FreedNext(s, r), FreedNext(s, r)[r].prev)
                                       ELSE FreedNext(s, r),
                    ~Misled(Freed(s, r), r))

LEMMA OtherHeap ==
  ASSUME NEW s \in Heaps, NEW g, NEW v, NEW t, t = WithHeaderAndSane(s, g, v)
  PROVE  /\ t.header = g /\ t.blocks = s.blocks /\ t.size = s.size
         /\ t.total_mmy = s.total_mmy /\ t.sane = v
         /\ t = [header |-> t.header, blocks |-> t.blocks, size |-> t.size,
                 total_mmy |-> t.total_mmy, sane |-> t.sane]
BY DEF Heaps, WithHeaderAndSane

LEMMA FreeSteps ==
  ASSUME NEW s, NEW r
  PROVE  Free(s, r) =
           IF /\ FreedBoth(s, r).header[Left(s, r)].prev = NULL
              /\ FreedBoth(s, r).header[Left(s, r)].next = NULL
             THEN ReturnBlock(FreedBoth(s, r), Left(s, r)[1])
             ELSE FreedBoth(s, r)
BY Zenon DEF Free, Freed, FreedNext, Merges, Left, FreedBoth, WithFree, WithHeaderAndSane

LEMMA FreeKeeps ==
  ASSUME NEW s, NEW L, Whole(s, L), NEW r \in Used(s.header, L),
         NEW t, t = Free(s, r)
  PROVE  /\ t \in Heaps /\ Books(t)
         /\ t.sane => \E M : /\ Whole(t, M)
                             /\ Used(t.header, M) = Used(s.header, L) \ {r}
                             /\ \A x \in Used(s.header, L) \ {r} :
                                  t.header[x].size = s.header[x].size
<1> DEFINE h == s.header
           z == s.size
           f == Freed(s, r)
           g == FreedNext(s, r)
           prev == g[r].prev
           left == Left(s, r)
           u == FreedBoth(s, r)
<1>1. s \in Heaps /\ Books(s) /\ h \in Headers /\ z \in Blocks /\ Bounded(h) /\ Chain(h, z, L)
      /\ r \in L /\ L \subseteq Addresses
  BY HeapParts DEF Whole, Used, Chain
<1>2. /\ f \in Headers /\ Bounded(f) /\ Chain(f, z, L)
      /\ \A x \in Addresses : x # r => f[x] = h[x]
      /\ f[r].free /\ f[r].next = h[r].next /\ f[r].prev = h[r].prev
  <2>1. PICK v \in BOOLEAN : v = TRUE
    OBVIOUS
  <2>2. f = WithFree(h, r, v)
    BY <2>1 DEF Freed
  <2> HIDE DEF f, h, z
  <2>3. /\ f \in Headers /\ Bounded(f) /\ Chain(f, z, L)
        /\ \A x \in Addresses : x # r => f[x] = h[x]
        /\ f[r].free = v /\ f[r].next = h[r].next /\ f[r].prev = h[r].prev
    BY <1>1, <2>2, SetFree
  <2> QED
    BY <2>1, <2>3
<1> HIDE DEF f
<1>3. PICK M : /\ g \in Headers /\ Bounded(g) /\ Chain(g, z, M)
               /\ (M = L \/ (M = L \ {f[r].next} /\ f[r].next # r))
               /\ \A x \in L : x \notin M => f[x].free
               /\ \A x \in L : g[x].free = f[x].free
               /\ \A x \in L : x # r => g[x].size = f[x].size /\ g[x].next = f[x].next
               /\ g[r].prev = f[r].prev
               /\ \A x \in Addresses : x \notin L => g[x] = f[x]
  <2>1. g = CoalesceNext(f, r)
    BY DEF FreedNext, f
  <2> HIDE DEF g, h, z
  <2> QED
    BY <1>1, <1>2, <2>1, CoalesceNextChain
<1> HIDE DEF g
<1>4. r \in M /\ M \subseteq L /\ g[r] # Garbage /\ g[r].free
  BY <1>1, <1>2, <1>3 DEF Chain
<1>5. prev # NULL => prev \in Addresses /\ prev[1] = r[1]
  <2>1. prev = f[r].prev
    BY <1>3
  <2>2. f[r].prev = NULL \/ f[r].prev \in Addresses
    BY <1>1, <1>2, ChainFacts
  <2>3. r[2] = 0 => f[r].prev = NULL
    BY <1>1, <1>2 DEF Chain
  <2>4. r[2] # 0 => f[r].prev[1] = r[1]
    BY <1>1, <1>2 DEF Chain
  <2> QED
    BY <2>1, <2>2, <2>3, <2>4
<1>6. Used(g, M) = Used(h, L) \ {r}
  <2>1. ASSUME NEW x \in L, x # r PROVE g[x].free = h[x].free
    BY <1>1, <1>2, <1>3, <2>1
  <2>2. \A x \in L : x \notin M => h[x].free
    BY <1>1, <1>2, <1>3, <1>4
  <2> QED
    BY <1>4, <2>1, <2>2 DEF Used
<1>7. \A x \in Used(h, L) \ {r} : g[x].size = h[x].size
  BY <1>1, <1>2, <1>3 DEF Used
<1>8. Merges(s, r) => /\ prev # NULL /\ g[prev] # Garbage /\ g[prev].free
                      /\ g[prev].next # NULL /\ g[g[prev].next] # Garbage
  BY IsFreeHas DEF Merges, g
<1> DEFINE k == IF Merges(s, r) THEN Coalesce(g, prev) ELSE g
           v == ~Misled(f, r)
<1>9. u = WithHeaderAndSane(s, k, v)
  BY DEF FreedBoth, f, g
<1> HIDE DEF k, v, u
<1>10. /\ u.blocks = s.blocks /\ u.size = z /\ u.total_mmy = s.total_mmy
      /\ u.sane = v /\ u.header = k
      /\ u = [header |-> u.header, blocks |-> u.blocks, size |-> u.size,
              total_mmy |-> u.total_mmy, sane |-> u.sane]
  BY <1>1, <1>9, OtherHeap
<1>11. Merges(s, r) => k = Coalesce(g, prev)
  BY DEF k
<1>12. ~Merges(s, r) => k = g
  BY DEF k
<1>13. v \in BOOLEAN /\ (v => ~Misled(f, r))
  BY DEF v
<1>14. u.header \in Headers
  <2>1. CASE Merges(s, r)
    <3>1. Coalesce(g, prev) \in Headers
      BY <1>3, <1>5, <1>8, <2>1, CoalesceType
    <3> QED
      BY <1>10, <1>11, <2>1, <3>1
  <2>2. CASE ~Merges(s, r)
    BY <1>3, <1>10, <1>12, <2>2
  <2> QED
    BY <2>1, <2>2
<1>15. u \in Heaps /\ Books(u)
  <2>1. u.sane \in BOOLEAN
    BY <1>10, <1>13
  <2>2. s.blocks \in Seq(Slots) /\ z \in Blocks /\ s.total_mmy \in Nat
    BY <1>1, HeapParts
  <2>3. u \in Heaps
    BY <1>14, <1>10, <2>1, <2>2 DEF Heaps
  <2> QED
    BY <1>1, <1>10, <2>3 DEF Books
<1>16. left \in Addresses /\ left[1] = r[1]
  <2>1. CASE Merges(s, r)
    BY <1>5, <1>8, <2>1 DEF Left, g
  <2>2. CASE ~Merges(s, r)
    BY <1>1, <2>2 DEF Left
  <2> QED
    BY <2>1, <2>2
<1>17. left[1] \in Slots /\ z[left[1]] # 0
  BY <1>1, <1>16, AddressParts DEF Chain
<1>18. t = IF u.header[left].prev = NULL /\ u.header[left].next = NULL
             THEN ReturnBlock(u, left[1]) ELSE u
  BY FreeSteps DEF u
<1> HIDE DEF left
<1>19. t \in Heaps /\ Books(t) /\ t.sane = u.sane
  BY <1>10, <1>15, <1>17, <1>18, ReturnKeepsBooks
<1>20. ASSUME ~Misled(f, r)
       PROVE  \E N : /\ Whole(u, N) /\ left \in N /\ u.header[left].free
                     /\ Used(u.header, N) = Used(h, L) \ {r}
                     /\ \A x \in Used(h, L) \ {r} : u.header[x].size = h[x].size
  <2>1. CASE ~Merges(s, r)
    <3>1. u.header = g /\ left = r
      BY <1>10, <1>12, <2>1 DEF left, Left
    <3>2. Whole(u, M)
      BY <1>3, <1>10, <1>15, <3>1 DEF Whole
    <3> QED
      BY <1>4, <1>6, <1>7, <3>1, <3>2
  <2>2. CASE Merges(s, r)
    <3>1. u.header = Coalesce(g, prev) /\ left = prev
      BY <1>10, <1>11, <2>2 DEF left, Left, g
    <3>2. prev # NULL /\ prev \in Addresses /\ prev = f[r].prev /\ prev[1] = r[1]
          /\ g[prev].free
      BY <1>3, <1>5, <1>8, <2>2
    <3>3. \/ f[prev] # Garbage /\ ~f[prev].free
          \/ prev \in Regions(f, r[1]) /\ f[prev].next = r
      BY <1>20, <3>2 DEF Misled
    <3>4. f[prev].free
      <4>1. CASE prev \in L
        BY <1>3, <3>2, <4>1
      <4>2. CASE prev \notin L
        BY <1>3, <3>2, <4>2
      <4> QED
        BY <4>1, <4>2
    <3>5. prev \in Regions(f, r[1]) /\ f[prev].next = r
      BY <3>3, <3>4
    <3>6. r[1] \in Slots /\ z[r[1]] # 0
      BY <1>1, AddressParts DEF Chain
    <3>7. prev \in L
      BY <1>1, <1>2, <3>5, <3>6, ChainRegions
    <3>8. prev # r /\ prev # f[r].next
      <4>1. /\ r[2] \in Nat /\ r[2] < End(f, r) /\ End(f, r) \in Nat
            /\ prev[2] \in Nat /\ prev[2] < End(f, prev) /\ End(f, prev) \in Nat
            /\ r # NULL
        BY <1>1, <1>2, <3>7, ChainFacts, AddressParts
      <4>2. r[2] = End(f, prev)
        BY <1>1, <1>2, <3>5, <3>7, <4>1 DEF Chain
      <4>3. prev = f[r].next => prev[2] = End(f, r)
        BY <1>1, <1>2, <3>2 DEF Chain
      <4> HIDE DEF prev
      <4>4. prev # r
        BY <4>1, <4>2
      <4>5. prev # f[r].next
        BY <4>1, <4>2, <4>3
      <4> QED
        BY <4>4, <4>5
    <3>9. prev \in M /\ g[prev].next = r
      BY <1>3, <3>5, <3>7, <3>8
    <3>10. /\ u.header \in Headers /\ Bounded(u.header) /\ Chain(u.header, z, M \ {r})
           /\ u.header[prev].free = g[prev].free
           /\ \A x \in M : x # prev => /\ u.header[x].size = g[x].size
                                       /\ u.header[x].free = g[x].free
      <4> HIDE DEF h, z, prev
      <4> QED
        <5>1. /\ g \in Headers /\ Bounded(g) /\ z \in Blocks /\ Chain(g, z, M)
              /\ prev \in M /\ r \in M /\ g[prev].next = r /\ u.header = Coalesce(g, prev)
          BY <1>1, <1>3, <1>4, <3>1, <3>9
        <5> QED
          BY <5>1, CoalesceChain
    <3>11. Whole(u, M \ {r})
      BY <1>10, <1>15, <3>10 DEF Whole
    <3>12. Used(u.header, M \ {r}) = Used(g, M)
      BY <1>4, <3>2, <3>10 DEF Used
    <3>13. \A x \in Used(g, M) : u.header[x].size = g[x].size
      BY <3>2, <3>10 DEF Used
    <3>14. u.header[left].free /\ left \in M \ {r}
      BY <3>1, <3>2, <3>8, <3>9, <3>10
    <3> QED
      BY <1>6, <1>7, <3>11, <3>12, <3>13, <3>14
  <2> QED
    BY <2>1, <2>2
<1>21. ASSUME t.sane
       PROVE  \E N : /\ Whole(t, N) /\ Used(t.header, N) = Used(h, L) \ {r}
                     /\ \A x \in Used(h, L) \ {r} : t.header[x].size = h[x].size
  <2>1. ~Misled(f, r)
    BY <1>10, <1>19, <1>21, <1>13
  <2>2. PICK N : /\ Whole(u, N) /\ left \in N /\ u.header[left].free
                 /\ Used(u.header, N) = Used(h, L) \ {r}
                 /\ \A x \in Used(h, L) \ {r} : u.header[x].size = h[x].size
    BY <1>20, <2>1
  <2>3. PICK K : /\ Whole(t, K) /\ Used(t.header, K) = Used(u.header, N)
                 /\ \A x \in Used(u.header, N) : t.header[x].size = u.header[x].size
    BY <1>18, <2>2, ReturnedOrNot
  <2> QED
    BY <2>2, <2>3
<1> QED
  BY <1>19, <1>21

-----------------------------------------------------------------------------
(* realloc                                                                 *)

\* The heap t has r's memory, n units or more, at p, and the rest as it was in s.
Outcome(s, L, r, t, p, n) ==
  \E M : /\ Whole(t, M)
         /\ Used(t.header, M) = (Used(s.header, L) \ {r}) \cup {p}
         /\ t.header[p].size >= n
         /\ \A x \in Used(s.header, L) : x # r /\ x # p => t.header[x].size = s.header[x].size

\* Only the headers have changed.
LEMMA HeadersKeep ==
  ASSUME NEW s, NEW L, Whole(s, L), NEW g \in Headers, NEW M, Bounded(g), Chain(g, s.size, M),
         NEW t, t = WithHeader(s, g)
  PROVE  Whole(t, M) /\ t.header = g /\ t.sane = s.sane /\ t \in Heaps /\ Books(t)
<1>1. s \in Heaps /\ Books(s)
  BY DEF Whole
<1>2. t \in Heaps /\ Books(t) /\ t.header = g /\ t.size = s.size /\ t.sane = s.sane
  BY <1>1, HeaderChanged
<1> QED
  BY <1>2 DEF Whole

LEMMA TakeKeeps ==
  ASSUME NEW s, NEW L, Whole(s, L), NEW r,
         NEW g \in Headers, NEW M, Bounded(g), Chain(g, s.size, M),
         NEW p \in M, NEW n \in Nat, n =< g[p].size,
         Used(g, M) \cup {p} = (Used(s.header, L) \ {r}) \cup {p},
         \A x \in Used(s.header, L) : x # r /\ x # p => g[x].size = s.header[x].size,
         NEW t, t = WithHeader(s, Take(g, p, n))
  PROVE  t \in Heaps /\ Books(t) /\ p \in Addresses /\ Outcome(s, L, r, t, p, n)
<1> DEFINE k == Take(g, p, n)
<1>1. s \in Heaps /\ s.size \in Blocks
  BY HeapParts DEF Whole
<1>2. PICK N : /\ k \in Headers /\ Bounded(k) /\ Chain(k, s.size, N)
               /\ M \subseteq N /\ \A x \in N \ M : k[x].free
               /\ k[p].size >= n /\ ~k[p].free
               /\ \A x \in M : x # p => k[x] = g[x]
  BY <1>1, TakeChain
<1> HIDE DEF k
<1>3. Whole(t, N) /\ t.header = k /\ t \in Heaps /\ Books(t)
  BY <1>2, HeadersKeep DEF k
<1>4. Used(k, N) = Used(g, M) \cup {p}
  BY <1>2 DEF Used
<1>5. \A x \in Used(s.header, L) : x # r /\ x # p => x \in Used(g, M)
  OBVIOUS
<1>6. \A x \in Used(s.header, L) : x # r /\ x # p => k[x].size = s.header[x].size
  BY <1>2, <1>5 DEF Used
<1>7. Outcome(s, L, r, t, p, n)
  BY <1>2, <1>3, <1>4, <1>6 DEF Outcome
<1>8. p \in Addresses
  BY DEF Chain
<1> QED
  BY <1>3, <1>7, <1>8

\* A region grows into the free one after it.
LEMMA GrowUpKeeps ==
  ASSUME NEW s, NEW L, Whole(s, L), NEW r \in Used(s.header, L), NEW n \in Nat,
         EnoughWith(s.header, r, s.header[r].next, n),
         NEW t, t = WithHeader(s, Take(Coalesce(s.header, r), r, n))
  PROVE  t \in Heaps /\ Books(t) /\ r \in Addresses /\ Outcome(s, L, r, t, r, n)
<1> DEFINE h == s.header
           z == s.size
           q == h[r].next
           g == Coalesce(h, r)
<1>1. h \in Headers /\ z \in Blocks /\ Bounded(h) /\ Chain(h, z, L) /\ r \in L /\ ~h[r].free
  BY HeapParts DEF Whole, Used
<1>2. IsFree(h, q) /\ n =< h[r].size + h[q].size + HEADER
  BY DEF EnoughWith, Sum
<1>3. q \in L /\ h[q].free
  BY <1>1, <1>2, IsFreeHas, ChainFacts
<1>4. /\ r # q
      /\ g \in Headers /\ Bounded(g) /\ Chain(g, z, L \ {q})
      /\ g[r].size = h[r].size + h[q].size + HEADER
      /\ g[r].free = h[r].free
      /\ \A x \in L : x # r => g[x].size = h[x].size /\ g[x].free = h[x].free
  <2>1. g = Coalesce(h, r) /\ h[r].next = q
    OBVIOUS
  <2> HIDE DEF g, h, z, q
  <2> QED
    BY <1>1, <1>3, <2>1, CoalesceChain, SMTT(30)
<1>5. Used(g, L \ {q}) = Used(h, L)
  BY <1>1, <1>3, <1>4 DEF Used
<1>6. \A x \in Used(h, L) : x # r /\ x # r => g[x].size = h[x].size
  BY <1>4 DEF Used
<1>7. n =< g[r].size /\ r \in L \ {q}
  BY <1>1, <1>2, <1>4
<1>8. Used(g, L \ {q}) \cup {r} = (Used(h, L) \ {r}) \cup {r}
  BY <1>5
<1>9. t = WithHeader(s, Take(g, r, n))
  OBVIOUS
<1> DEFINE M == L \ {q}
<1> HIDE DEF g, M
<1>10. /\ g \in Headers /\ Bounded(g) /\ Chain(g, z, M) /\ r \in M
       /\ Used(g, M) \cup {r} = (Used(h, L) \ {r}) \cup {r}
  BY <1>4, <1>7, <1>8 DEF M
<1> QED
  BY <1>6, <1>7, <1>9, <1>10, TakeKeeps

\* What CoalesceChain says
Coalesced(h, z, L, r, q, g) ==
  /\ r # q
  /\ g \in Headers /\ Bounded(g) /\ Chain(g, z, L \ {q})
  /\ g[r].size = h[r].size + h[q].size + HEADER
  /\ g[r].free = h[r].free /\ g[r].prev = h[r].prev /\ g[r].next = h[q].next
  /\ \A x \in L : x # r => /\ g[x].size = h[x].size /\ g[x].free = h[x].free
                           /\ g[x].next = h[x].next
  /\ \A x \in Addresses : x \notin L => g[x] = h[x]

LEMMA CoalesceGives ==
  ASSUME NEW h \in Headers, Bounded(h), NEW z \in Blocks, NEW L, Chain(h, z, L),
         NEW r \in L, NEW q \in L, h[r].next = q
  PROVE  Coalesced(h, z, L, r, q, Coalesce(h, r))
<1> DEFINE g == Coalesce(h, r)
<1>1. g = Coalesce(h, r)
  OBVIOUS
<1> HIDE DEF g
<1>2. Coalesced(h, z, L, r, q, g)
  BY <1>1, CoalesceChain DEF Coalesced
<1> QED
  BY <1>2 DEF g

\* The region before r takes r in and, if both, the one after it, too.
LEMMA MergedDown ==
  ASSUME NEW h \in Headers, Bounded(h), NEW z \in Blocks, NEW L, Chain(h, z, L),
         NEW r \in L, ~h[r].free, NEW p \in L, h[p].next = r, h[p].free,
         NEW o, o = h[r].next, NEW k, k = Coalesce(h, p),
         NEW g, NEW n \in Nat,
         \/ g = k /\ n =< h[r].size + h[p].size + HEADER
         \/ /\ g = Coalesce(k, p) /\ o # NULL /\ h[o].free
            /\ n =< h[r].size + h[p].size + HEADER + h[o].size + HEADER
  PROVE  \E M : /\ g \in Headers /\ Bounded(g) /\ Chain(g, z, M) /\ p \in M /\ g[p].free
                /\ Used(g, M) = Used(h, L) \ {r}
                /\ n =< g[p].size /\ g[r].size = h[r].size /\ g[r].size =< g[p].size
                /\ \A x \in Used(h, L) : x # r => g[x].size = h[x].size
<1>1. /\ r \in Addresses /\ h[r].size \in Nat /\ p \in Addresses /\ h[p].size \in Nat
      /\ o # NULL => o \in L /\ h[o].size \in Nat
  BY ChainFacts
<1>2. /\ p # r
      /\ k \in Headers /\ Bounded(k) /\ Chain(k, z, L \ {r})
      /\ k[p].size = h[p].size + h[r].size + HEADER
      /\ k[p].free = h[p].free /\ k[p].next = o
      /\ \A x \in L : x # p => /\ k[x].size = h[x].size /\ k[x].free = h[x].free
                               /\ k[x].next = h[x].next
  <2>1. Coalesced(h, z, L, p, r, k)
    BY CoalesceGives
  <2> QED
    BY <2>1 DEF Coalesced
<1>3. Used(k, L \ {r}) = Used(h, L) \ {r}
  BY <1>2 DEF Used
<1>4. \A x \in Used(h, L) : x # r => k[x].size = h[x].size
  BY <1>2 DEF Used
<1>5. CASE g = k /\ n =< h[r].size + h[p].size + HEADER
  <2> DEFINE M == L \ {r}
  <2>1. p \in M /\ n =< k[p].size /\ k[r].size = h[r].size /\ k[r].size =< k[p].size
        /\ k[p].free
    BY <1>1, <1>2, <1>5 DEF HEADER
  <2>2. Chain(k, z, M) /\ Used(k, M) = Used(h, L) \ {r}
    BY <1>2, <1>3
  <2> HIDE DEF M
  <2> QED
    BY <1>2, <1>4, <1>5, <2>1, <2>2
<1>6. CASE /\ g = Coalesce(k, p) /\ o # NULL /\ h[o].free
           /\ n =< h[r].size + h[p].size + HEADER + h[o].size + HEADER
  <2> DEFINE K == L \ {r}
             M == K \ {o}
  <2>1. r # o /\ o \in L
    BY <1>1, <1>6, CoalesceChain
  <2>2. p \in K /\ o \in K /\ k[p].next = o /\ r \notin K
    BY <1>2, <2>1
  <2>3. Chain(k, z, K)
    BY <1>2
  <2> HIDE DEF K
  <2>4. /\ p # o
        /\ g \in Headers /\ Bounded(g) /\ Chain(g, z, K \ {o})
        /\ g[p].size = k[p].size + k[o].size + HEADER
        /\ g[p].free = k[p].free
        /\ \A x \in K : x # p => g[x].size = k[x].size /\ g[x].free = k[x].free
        /\ \A x \in Addresses : x \notin K => g[x] = k[x]
    <3>1. Coalesced(k, z, K, p, o, Coalesce(k, p))
      BY <1>2, <2>2, <2>3, CoalesceGives
    <3> QED
      BY <1>6, <3>1 DEF Coalesced
  <2>5. k[o].size = h[o].size /\ k[r].size = h[r].size /\ k[o].free
    BY <1>2, <1>6, <2>1, <2>4
  <2>6. g[r].size = h[r].size
    BY <1>1, <2>2, <2>4, <2>5
  <2>7. n =< g[p].size /\ g[r].size =< g[p].size /\ g[p].free
    BY <1>1, <1>2, <1>6, <2>4, <2>5, <2>6 DEF HEADER
  <2>8. Used(g, M) = Used(k, K)
    BY <1>2, <2>4, <2>5 DEF Used
  <2>9. \A x \in Used(h, L) : x # r => g[x].size = h[x].size
    <3>1. \A x \in Used(k, K) : g[x].size = k[x].size
      BY <1>2, <2>4 DEF Used
    <3>2. Used(k, K) = Used(h, L) \ {r}
      BY <1>3 DEF K
    <3> QED
      BY <1>4, <3>1, <3>2
  <2>10. Used(g, M) = Used(h, L) \ {r} /\ p \in M /\ Chain(g, z, M)
    BY <1>3, <2>2, <2>4, <2>8 DEF K
  <2> HIDE DEF M
  <2> QED
    BY <2>4, <2>6, <2>7, <2>9, <2>10
<1> QED
  BY <1>5, <1>6

\* A region grows into the free one before it: its data moves down.
LEMMA GrowDownKeeps ==
  ASSUME NEW s, NEW L, Whole(s, L), NEW r \in Used(s.header, L), NEW n \in Nat,
         NEW p \in L, s.header[r].prev = p, s.header[p].next = r, s.header[p].free,
         NEW both \in BOOLEAN,
         \/ ~both /\ EnoughWith(s.header, r, p, n)
         \/ both /\ EnoughWithBoth(s.header, r, p, s.header[r].next, n),
         NEW t, t = WithHeader(s, GrowDown(s.header, r, n, both))
  PROVE  t \in Heaps /\ Books(t) /\ p \in Addresses /\ Outcome(s, L, r, t, p, n)
<1> DEFINE h == s.header
           z == s.size
           o == h[r].next
           k == Coalesce(h, p)
           g == IF both THEN Coalesce(k, p) ELSE k
           f == Fill(g, p, g[r].size, Garbage)
<1>1. h \in Headers /\ z \in Blocks /\ Bounded(h) /\ Chain(h, z, L) /\ r \in L /\ ~h[r].free
  BY HeapParts DEF Whole, Used
<1>2. GrowDown(h, r, n, both) = Take(f, p, n)
  BY DEF GrowDown
<1>3. \/ g = k /\ n =< h[r].size + h[p].size + HEADER
      \/ /\ g = Coalesce(k, p) /\ o # NULL /\ h[o].free
         /\ n =< h[r].size + h[p].size + HEADER + h[o].size + HEADER
  <2>1. CASE ~both /\ EnoughWith(h, r, p, n)
    BY <2>1 DEF EnoughWith, Sum
  <2>2. CASE both /\ EnoughWithBoth(h, r, p, o, n)
    BY <2>2, IsFreeHas DEF EnoughWithBoth, Sum
  <2> QED
    BY <2>1, <2>2
<1>4. k = Coalesce(h, p) /\ o = h[r].next
  OBVIOUS
<1> HIDE DEF g, k, o
<1>5. PICK M : /\ g \in Headers /\ Bounded(g) /\ Chain(g, z, M) /\ p \in M /\ g[p].free
               /\ Used(g, M) = Used(h, L) \ {r}
               /\ n =< g[p].size /\ g[r].size = h[r].size /\ g[r].size =< g[p].size
               /\ \A x \in Used(h, L) : x # r => g[x].size = h[x].size
  <2> HIDE DEF h, z
  <2>1. h[p].next = r /\ h[p].free
    BY DEF h
  <2> QED
    BY <1>1, <1>3, <1>4, <2>1, MergedDown, SMTT(30)
<1>6. g[r].size \in Nat
  BY <1>1, <1>5, ChainFacts
<1>7. f \in Headers /\ Bounded(f) /\ Chain(f, z, M) /\ \A x \in M : f[x] = g[x]
  <2>1. Garbage \in {Garbage, Zero} /\ f = Fill(g, p, g[r].size, Garbage)
    OBVIOUS
  <2> HIDE DEF f, h, z
  <2> QED
    BY <1>1, <1>5, <1>6, <2>1, FillChain
<1> HIDE DEF f
<1>8. Used(f, M) = Used(g, M)
  BY <1>7 DEF Used
<1>9. \A x \in Used(h, L) : x # r => x \in M
  BY <1>5 DEF Used
<1>10. /\ n =< f[p].size
       /\ Used(f, M) \cup {p} = (Used(h, L) \ {r}) \cup {p}
       /\ \A x \in Used(h, L) : x # r /\ x # p => f[x].size = h[x].size
  BY <1>5, <1>7, <1>8, <1>9
<1>11. t = WithHeader(s, Take(f, p, n))
  BY <1>2
<1>12. Chain(f, s.size, M) /\ f \in Headers /\ Bounded(f) /\ p \in M
  BY <1>5, <1>7
<1>13. /\ Used(f, M) \cup {p} = (Used(s.header, L) \ {r}) \cup {p}
       /\ \A x \in Used(s.header, L) : x # r /\ x # p => f[x].size = s.header[x].size
  BY <1>10
<1> QED
  BY <1>10, <1>11, <1>12, <1>13, TakeKeeps, SMTT(30)

\* realloc gives another region, copies to it, and frees the one it had.
LEMMA MovedKeeps ==
  ASSUME NEW s, NEW L, Whole(s, L), NEW r \in Used(s.header, L), NEW n \in Nat,
         n + HEADER < SIZE_T, s.header[r].size < n, NEW m \in Moved(s, r, n)
  PROVE  /\ m.heap \in Heaps /\ Books(m.heap) /\ m.at \in Addresses
         /\ m.heap.sane => Outcome(s, L, r, m.heap, m.at, n)
<1> DEFINE U == Used(s.header, L)
<1>1. PICK c \in Mallocs(s, n) :
        m = [heap |-> Free([c.heap EXCEPT !.header = Fill(@, c.at, @[r].size, Garbage)], r),
             at |-> c.at]
  BY DEF Moved
<1>2. PICK M : /\ Whole(c.heap, M) /\ c.heap.sane = s.sane
               /\ Used(c.heap.header, M) = U \cup {c.at}
               /\ c.at \in Addresses /\ c.at \notin U
               /\ c.heap.header[c.at].size >= n
               /\ \A x \in U : c.heap.header[x].size = s.header[x].size
  BY MallocKeeps
<1> DEFINE p == c.at
           h == c.heap.header
           f == Fill(h, p, h[r].size, Garbage)
           u == WithHeader(c.heap, f)
<1>3. m.at = p /\ m.heap = Free(u, r)
  BY <1>1 DEF WithHeader
<1> HIDE DEF U
<1>4. h \in Headers /\ c.heap.size \in Blocks /\ Bounded(h) /\ Chain(h, c.heap.size, M)
      /\ r \in M /\ p \in M
  <2>1. r \in Used(h, M) /\ p \in Used(h, M)
    BY <1>2 DEF U
  <2> QED
    BY <1>2, <2>1, HeapParts DEF Whole, Used
<1>5. h[r].size \in Nat /\ h[p].size \in Nat /\ h[r].size = s.header[r].size
  BY <1>2, <1>4, ChainFacts DEF U
<1>6. h[r].size =< h[p].size
  BY <1>2, <1>5
<1>7. f \in Headers /\ Bounded(f) /\ Chain(f, c.heap.size, M) /\ \A x \in M : f[x] = h[x]
  <2>1. Garbage \in {Garbage, Zero} /\ f = Fill(h, p, h[r].size, Garbage)
    OBVIOUS
  <2> HIDE DEF f, h, p
  <2> QED
    BY <1>4, <1>5, <1>6, <2>1, FillChain
<1> HIDE DEF f
<1>8. Whole(u, M) /\ u.header = f
  BY <1>2, <1>7, HeadersKeep
<1>9. Used(f, M) = U \cup {p} /\ r \in Used(f, M) /\ r # p
  <2>1. Used(f, M) = Used(h, M)
    BY <1>7 DEF Used
  <2> QED
    BY <1>2, <2>1 DEF U
<1> HIDE DEF u
<1>10. r \in Used(u.header, M)
  BY <1>8, <1>9
<1>11. /\ m.heap \in Heaps /\ Books(m.heap)
       /\ m.heap.sane => \E N : /\ Whole(m.heap, N)
                                /\ Used(m.heap.header, N) = Used(u.header, M) \ {r}
                                /\ \A x \in Used(u.header, M) \ {r} :
                                     m.heap.header[x].size = u.header[x].size
  BY <1>3, <1>8, <1>10, FreeKeeps
<1>12. ASSUME m.heap.sane PROVE Outcome(s, L, r, m.heap, p, n)
  <2>1. PICK N : /\ Whole(m.heap, N)
                 /\ Used(m.heap.header, N) = Used(f, M) \ {r}
                 /\ \A x \in Used(f, M) \ {r} : m.heap.header[x].size = f[x].size
    BY <1>8, <1>11, <1>12
  <2>2. Used(m.heap.header, N) = (U \ {r}) \cup {p}
    BY <1>9, <2>1
  <2>3. m.heap.header[p].size >= n
    BY <1>2, <1>4, <1>7, <1>9, <2>1
  <2>4. ASSUME NEW x \in U, x # r, x # p PROVE m.heap.header[x].size = s.header[x].size
    <3>1. x \in M
      BY <1>2 DEF Used
    <3>2. m.heap.header[x].size = f[x].size /\ f[x] = h[x]
      BY <1>7, <1>9, <2>1, <2>4, <3>1
    <3> QED
      BY <1>2, <3>2
  <2> HIDE DEF p
  <2> QED
    BY <2>1, <2>2, <2>3, <2>4 DEF Outcome, U
<1> QED
  BY <1>2, <1>3, <1>11, <1>12

\* What MoveNextChain says
MovedDown(h, z, L, r, o, n, q, g) ==
  /\ g \in Headers /\ Bounded(g) /\ Chain(g, z, (L \ {o}) \cup {q})
  /\ q \notin L /\ g[q].free
  /\ g[r].size = n /\ g[r].free = h[r].free
  /\ \A x \in Addresses : x # r /\ x # q => g[x] = h[x]

LEMMA MoveNextGives ==
  ASSUME NEW h \in Headers, Bounded(h), NEW z \in Blocks, NEW L, Chain(h, z, L),
         NEW r \in L, NEW o \in L, h[r].next = o, NEW n \in Nat, n < h[r].size
  PROVE  \E q \in Addresses : MovedDown(h, z, L, r, o, n, q, MoveNextDown(h, r, n))
<1> DEFINE g == MoveNextDown(h, r, n)
<1>1. g = MoveNextDown(h, r, n)
  OBVIOUS
<1> HIDE DEF g
<1>2. \E q \in Addresses : MovedDown(h, z, L, r, o, n, q, g)
  BY <1>1, MoveNextChain DEF MovedDown
<1> QED
  BY <1>2 DEF g

LEMMA ShrunkKeeps ==
  ASSUME NEW s, NEW L, Whole(s, L), NEW r \in Used(s.header, L), NEW n \in Nat,
         n < s.header[r].size, NEW t, t = WithHeader(s, Shrunk(s.header, r, n))
  PROVE  t \in Heaps /\ Books(t) /\ r \in Addresses /\ Outcome(s, L, r, t, r, n)
<1> DEFINE h == s.header
           z == s.size
           o == h[r].next
           g == Shrunk(h, r, n)
<1>1. h \in Headers /\ z \in Blocks /\ Bounded(h) /\ Chain(h, z, L) /\ r \in L /\ ~h[r].free
      /\ h[r].size \in Nat /\ r \in Addresses /\ L \subseteq Addresses
  BY HeapParts, ChainFacts DEF Whole, Used, Chain
<1> HIDE DEF o
<1>2. \E M : /\ g \in Headers /\ Bounded(g) /\ Chain(g, z, M)
             /\ Used(g, M) = Used(h, L) /\ g[r].size >= n
             /\ \A x \in Used(h, L) : x # r => g[x].size = h[x].size
  <2>1. CASE IsFree(h, o)
    <3>1. o \in L /\ h[r].next = o /\ h[o].free
      BY <1>1, <2>1, IsFreeHas, ChainFacts DEF o
    <3>2. g = MoveNextDown(h, r, n)
      BY <2>1 DEF Shrunk, o
    <3> HIDE DEF g, h, z
    <3>3. n < h[r].size
      BY DEF h
    <3>4. PICK q \in Addresses :
            /\ g \in Headers /\ Bounded(g) /\ Chain(g, z, (L \ {o}) \cup {q})
            /\ q \notin L /\ g[q].free
            /\ g[r].size = n /\ g[r].free = h[r].free
            /\ \A x \in Addresses : x # r /\ x # q => g[x] = h[x]
      <4>1. /\ h \in Headers /\ Bounded(h) /\ z \in Blocks /\ Chain(h, z, L) /\ r \in L
            /\ o \in L /\ h[r].next = o
        BY <1>1, <3>1
      <4>2. \E q \in Addresses : MovedDown(h, z, L, r, o, n, q, MoveNextDown(h, r, n))
        BY <3>3, <4>1, MoveNextGives
      <4>3. \E q \in Addresses : MovedDown(h, z, L, r, o, n, q, g)
        BY <3>2, <4>2
      <4> QED
        BY <4>3 DEF MovedDown
    <3> DEFINE M == (L \ {o}) \cup {q}
    <3>5. Used(g, M) = Used(h, L)
      BY <1>1, <3>1, <3>4 DEF Used
    <3>6. \A x \in Used(h, L) : x # r => g[x].size = h[x].size
      BY <1>1, <3>4 DEF Used
    <3>7. g[r].size >= n /\ Chain(g, z, M)
      BY <3>4
    <3> HIDE DEF M
    <3> QED
      BY <3>4, <3>5, <3>6, <3>7
  <2>2. CASE ~IsFree(h, o)
    <3>1. g = TrySplit(h, r, n) /\ n =< h[r].size
      BY <1>1, <2>2 DEF Shrunk, o
    <3> HIDE DEF g, h, z
    <3>2. PICK M : /\ g \in Headers /\ Bounded(g) /\ Chain(g, z, M)
                   /\ L \subseteq M /\ \A x \in M \ L : g[x].free
                   /\ g[r].size >= n /\ g[r].free = h[r].free
                   /\ \A x \in L : x # r => g[x] = h[x]
      BY <1>1, <3>1, TrySplitChain
    <3>3. Used(g, M) = Used(h, L)
      BY <1>1, <3>2 DEF Used
    <3>4. \A x \in Used(h, L) : x # r => g[x].size = h[x].size
      BY <3>2 DEF Used
    <3> QED
      BY <3>2, <3>3, <3>4
  <2> QED
    BY <2>1, <2>2
<1>3. PICK M : /\ g \in Headers /\ Bounded(g) /\ Chain(g, z, M)
               /\ Used(g, M) = Used(h, L) /\ g[r].size >= n
               /\ \A x \in Used(h, L) : x # r => g[x].size = h[x].size
  BY <1>2
<1> HIDE DEF g
<1>4. Whole(t, M) /\ t.header = g /\ t \in Heaps /\ Books(t)
  BY <1>3, HeadersKeep DEF g
<1>5. Used(h, L) = (Used(h, L) \ {r}) \cup {r}
  OBVIOUS
<1>6. Outcome(s, L, r, t, r, n)
  BY <1>3, <1>4, <1>5 DEF Outcome
<1> QED
  BY <1>1, <1>4, <1>6

LEMMA GrownKeeps ==
  ASSUME NEW s, NEW L, Whole(s, L), s.sane, NEW r \in Used(s.header, L), NEW n \in Nat,
         n + HEADER < SIZE_T, s.header[r].size < n, NEW m \in Grown(s, r, n)
  PROVE  /\ m.heap \in Heaps /\ Books(m.heap) /\ m.at \in Addresses
         /\ m.heap.sane => Outcome(s, L, r, m.heap, m.at, n)
<1> DEFINE h == s.header
           z == s.size
           o == h[r].next
           p == h[r].prev
           At(g, x) == [heap |-> WithHeader(s, g), at |-> x]
<1>1. s \in Heaps /\ Books(s) /\ h \in Headers /\ z \in Blocks /\ Bounded(h) /\ Chain(h, z, L)
      /\ r \in L /\ ~h[r].free /\ r \in Addresses
  BY HeapParts, ChainFacts DEF Whole, Used, Chain
<1>2. \/ EnoughWith(h, r, o, n) /\ m = At(Take(Coalesce(h, r), r, n), r)
      \/ Misled(h, r) /\ m = [heap |-> [s EXCEPT !.sane = FALSE], at |-> r]
      \/ /\ ~Misled(h, r) /\ EnoughWith(h, r, p, n)
         /\ m = At(GrowDown(h, r, n, FALSE), p)
      \/ /\ ~Misled(h, r) /\ EnoughWithBoth(h, r, p, o, n)
         /\ m = At(GrowDown(h, r, n, TRUE), p)
      \/ m \in Moved(s, r, n)
  BY DEF Grown, WithHeader
<1>3. CASE EnoughWith(h, r, o, n) /\ m = At(Take(Coalesce(h, r), r, n), r)
  <2>1. m.heap = WithHeader(s, Take(Coalesce(h, r), r, n)) /\ m.at = r
    BY <1>3
  <2> QED
    BY <1>3, <2>1, GrowUpKeeps
<1>4. CASE m = [heap |-> [s EXCEPT !.sane = FALSE], at |-> r]
  <2> DEFINE t == m.heap
  <2>1. /\ t.header = h /\ t.blocks = s.blocks /\ t.size = z /\ t.total_mmy = s.total_mmy
        /\ ~t.sane /\ m.at = r /\ t \in Heaps
    BY <1>1, <1>4 DEF Heaps
  <2>2. Books(t)
    BY <1>1, <2>1 DEF Books
  <2> QED
    BY <1>1, <2>1, <2>2
<1>5. ASSUME ~Misled(h, r), IsFree(h, p)
      PROVE  p \in L /\ h[p].next = r /\ h[p].free
  <2>1. p # NULL /\ h[p] # Garbage /\ h[p].free
    BY <1>5, IsFreeHas
  <2>2. p \in Regions(h, r[1]) /\ h[p].next = r
    BY <1>5, <2>1 DEF Misled
  <2>3. r[1] \in Slots /\ z[r[1]] # 0
    BY <1>1, AddressParts DEF Chain
  <2> QED
    BY <1>1, <2>1, <2>2, <2>3, ChainRegions
<1>6. ASSUME NEW both \in BOOLEAN, ~Misled(h, r), m = At(GrowDown(h, r, n, both), p),
             \/ ~both /\ EnoughWith(h, r, p, n)
             \/ both /\ EnoughWithBoth(h, r, p, o, n)
      PROVE  /\ m.heap \in Heaps /\ Books(m.heap) /\ m.at \in Addresses
             /\ Outcome(s, L, r, m.heap, m.at, n)
  <2>1. IsFree(h, p)
    BY <1>6 DEF EnoughWith, EnoughWithBoth
  <2>2. p \in L /\ h[p].next = r /\ h[p].free
    BY <1>5, <1>6, <2>1
  <2>3. m.heap = WithHeader(s, GrowDown(h, r, n, both)) /\ m.at = p
    BY <1>6
  <2> QED
    BY <1>6, <2>2, <2>3, GrowDownKeeps
<1>7. CASE /\ ~Misled(h, r) /\ EnoughWith(h, r, p, n)
           /\ m = At(GrowDown(h, r, n, FALSE), p)
  <2>1. PICK both \in BOOLEAN : both = FALSE
    OBVIOUS
  <2>2. ~both /\ m = At(GrowDown(h, r, n, both), p)
    BY <1>7, <2>1
  <2> QED
    BY <1>6, <1>7, <2>2
<1>8. CASE /\ ~Misled(h, r) /\ EnoughWithBoth(h, r, p, o, n)
           /\ m = At(GrowDown(h, r, n, TRUE), p)
  <2>1. PICK both \in BOOLEAN : both = TRUE
    OBVIOUS
  <2>2. both /\ m = At(GrowDown(h, r, n, both), p)
    BY <1>8, <2>1
  <2> QED
    BY <1>6, <1>8, <2>2
<1>9. CASE m \in Moved(s, r, n)
  BY <1>9, MovedKeeps
<1> QED
  BY <1>2, <1>3, <1>4, <1>7, <1>8, <1>9

\* realloc: what r held is now held at m.at, which is large enough.
LEMMA ReallocKeeps ==
  ASSUME NEW s, NEW L, Whole(s, L), s.sane, NEW r \in Used(s.header, L), NEW n \in Nat,
         n + HEADER < SIZE_T, NEW m \in Reallocs(s, r, n)
  PROVE  /\ m.heap \in Heaps /\ Books(m.heap) /\ m.at \in Addresses
         /\ m.heap.sane => Outcome(s, L, r, m.heap, m.at, n)
<1>1. s \in Heaps /\ Books(s) /\ r \in Addresses /\ s.header[r].size \in Nat
  BY HeapParts, ChainFacts DEF Whole, Used
<1>2. CASE s.header[r].size < n
  BY <1>2, GrownKeeps DEF Reallocs
<1>3. CASE s.header[r].size = n
  <2>1. m.heap = s /\ m.at = r
    BY <1>1, <1>3 DEF Reallocs
  <2>2. Used(s.header, L) = (Used(s.header, L) \ {r}) \cup {r}
    OBVIOUS
  <2>3. s.header[r].size >= n
    BY <1>3
  <2>4. Outcome(s, L, r, s, r, n)
    BY <2>2, <2>3 DEF Outcome
  <2> QED
    BY <1>1, <2>1, <2>4
<1>4. CASE n < s.header[r].size
  <2>1. m.heap = WithHeader(s, Shrunk(s.header, r, n)) /\ m.at = r
    BY <1>1, <1>4 DEF Reallocs, WithHeader
  <2> QED
    BY <1>4, <2>1, ShrunkKeeps
<1> QED
  BY <1>1, <1>2, <1>3, <1>4

-----------------------------------------------------------------------------
(* The inductive invariant                                                 *)

\* The heap is typed and its books are right, whatever happened.  As long as nothing
\* was taken for what it is not, its blocks are chains of regions, and the regions in
\* use are the ones that programs hold.
Holds(L) ==
  /\ held = Used(heap.header, L)
  /\ \A r \in held : heap.header[r].size >= asked[r]

MallocInv ==
  /\ heap \in Heaps /\ Books(heap)
  /\ held \subseteq Addresses /\ \A r \in held : asked[r] \in Requests
  /\ Sound => \E L : Whole(heap, L) /\ Holds(L)

LEMMA RequestsAreSizes ==
  ASSUME NoOverflow, NEW n \in Requests
  PROVE  n \in Nat /\ n + HEADER < SIZE_T
BY SizesAssumption, Sizes DEF NoOverflow

LEMMA InitMalloc == Init => MallocInv
<1> SUFFICES ASSUME Init PROVE MallocInv
  OBVIOUS
<1>1. /\ heap.header = [a \in Addresses |-> Zero] /\ heap.blocks = <<>>
      /\ heap.size = [b \in Slots |-> 0] /\ heap.total_mmy = 0 /\ heap.sane = TRUE
      /\ heap = [header |-> heap.header, blocks |-> heap.blocks, size |-> heap.size,
                 total_mmy |-> heap.total_mmy, sane |-> heap.sane]
  BY DEF Init
<1>2. heap.header \in Headers
  BY <1>1, ZeroHeader DEF Headers
<1>3. heap.size \in Blocks
  BY <1>1 DEF Blocks
<1>4. heap \in Heaps
  <2>1. heap.blocks \in Seq(Slots)
    BY <1>1
  <2>2. heap.total_mmy \in Nat
    BY <1>1
  <2>3. heap.sane \in BOOLEAN
    BY <1>1, Zenon
  <2> QED
    BY <1>1, <1>2, <1>3, <2>1, <2>2, <2>3 DEF Heaps
<1>5. DOMAIN heap.blocks = {}
  BY <1>1
<1>6. ToSet(heap.blocks) = {} /\ IsInjective(heap.blocks)
  BY <1>5 DEF ToSet, IsInjective
<1>7. \A b \in Slots : heap.size[b] = 0
  BY <1>1
<1>8. MappedBy(heap.size) = {}
  BY <1>7, AddressParts DEF MappedBy
<1>9. Cardinality(MappedBy(heap.size)) = 0
  BY <1>8, FS_EmptySet
<1>10. {b \in Slots : heap.size[b] # 0} = {}
  BY <1>7
<1>11. Books(heap)
  BY <1>1, <1>6, <1>9, <1>10, SizesAssumption DEF Books
<1>12. Bounded(heap.header)
  BY <1>1, ZeroHeader, Sizes, SizesAssumption DEF Bounded
<1>13. Chain(heap.header, heap.size, {})
  BY <1>7 DEF Chain
<1>14. Whole(heap, {})
  BY <1>4, <1>11, <1>12, <1>13 DEF Whole
<1>15. held = {}
  BY DEF Init, held
<1>16. Used(heap.header, {}) = {}
  BY DEF Used
<1>17. Holds({})
  BY <1>15, <1>16 DEF Holds
<1> QED
  BY <1>4, <1>11, <1>14, <1>15, <1>17 DEF MallocInv

LEMMA MallocStep ==
  ASSUME NoOverflow, MallocInv, NEW n \in Requests, Malloc(n)
  PROVE  MallocInv'
<1>1. PICK L : Whole(heap, L) /\ Holds(L)
  BY DEF MallocInv, Malloc
<1>2. PICK m \in Mallocs(heap, n) : heap' = m.heap /\ asked' = Hold(m.at, n)
  BY DEF Malloc
<1>3. n \in Nat /\ n + HEADER < SIZE_T
  BY RequestsAreSizes
<1>4. PICK M : /\ Whole(m.heap, M) /\ m.heap.sane = heap.sane
               /\ Used(m.heap.header, M) = Used(heap.header, L) \cup {m.at}
               /\ m.at \in Addresses /\ m.at \notin Used(heap.header, L)
               /\ m.heap.header[m.at].size >= n
               /\ \A x \in Used(heap.header, L) : m.heap.header[x].size = heap.header[x].size
  BY <1>1, <1>3, MallocKeeps
<1>5. held' = held \cup {m.at} /\ asked'[m.at] = n
      /\ \A p \in held : p # m.at => asked'[p] = asked[p]
  BY <1>2 DEF Hold, held
<1>6. Holds(M)'
  BY <1>1, <1>2, <1>4, <1>5 DEF Holds
<1>7. held' \subseteq Addresses /\ \A r \in held' : asked'[r] \in Requests
  BY <1>4, <1>5 DEF MallocInv
<1>8. heap' \in Heaps /\ Books(heap') /\ Whole(heap', M)
  BY <1>2, <1>4 DEF Whole
<1> QED
  BY <1>6, <1>7, <1>8 DEF MallocInv

LEMMA CallocStep ==
  ASSUME NoOverflow, MallocInv, NEW n \in Requests, Calloc(n)
  PROVE  MallocInv'
<1>1. PICK L : Whole(heap, L) /\ Holds(L)
  BY DEF MallocInv, Calloc
<1>2. PICK m \in Mallocs(heap, n) :
        /\ heap' = WithHeader(m.heap, Fill(m.heap.header, m.at, m.heap.header[m.at].size, Zero))
        /\ asked' = Hold(m.at, n)
  BY DEF Calloc, WithHeader
<1>3. n \in Nat /\ n + HEADER < SIZE_T
  BY RequestsAreSizes
<1>4. PICK M : /\ Whole(m.heap, M) /\ m.heap.sane = heap.sane
               /\ Used(m.heap.header, M) = Used(heap.header, L) \cup {m.at}
               /\ m.at \in Addresses /\ m.at \notin Used(heap.header, L)
               /\ m.heap.header[m.at].size >= n
               /\ \A x \in Used(heap.header, L) : m.heap.header[x].size = heap.header[x].size
  BY <1>1, <1>3, MallocKeeps
<1> DEFINE h == m.heap.header
           f == Fill(h, m.at, h[m.at].size, Zero)
<1>5. h \in Headers /\ m.heap.size \in Blocks /\ Bounded(h) /\ Chain(h, m.heap.size, M)
      /\ m.at \in M
  BY <1>4, HeapParts DEF Whole, Used
<1>6. f \in Headers /\ Bounded(f) /\ Chain(f, m.heap.size, M) /\ \A x \in M : f[x] = h[x]
  <2>1. h[m.at].size \in Nat /\ Zero \in {Garbage, Zero} /\ f = Fill(h, m.at, h[m.at].size, Zero)
    BY <1>5, ChainFacts
  <2>2. h[m.at].size =< h[m.at].size
    BY <2>1
  <2> HIDE DEF f, h
  <2> QED
    BY <1>5, <2>1, <2>2, FillChain
<1> HIDE DEF f
<1>7. Whole(heap', M) /\ heap'.header = f
  BY <1>2, <1>4, <1>6, HeadersKeep DEF f
<1>8. Used(f, M) = Used(h, M)
  BY <1>6 DEF Used
<1>9. held' = held \cup {m.at} /\ asked'[m.at] = n
      /\ \A p \in held : p # m.at => asked'[p] = asked[p]
  BY <1>2 DEF Hold, held
<1>10. held' = Used(f, M)
  BY <1>1, <1>4, <1>8, <1>9 DEF Holds
<1>11. \A x \in held' : f[x] = h[x]
  BY <1>6, <1>10 DEF Used
<1>12. Holds(M)'
  BY <1>1, <1>4, <1>7, <1>9, <1>10, <1>11 DEF Holds
<1>13. held' \subseteq Addresses /\ \A r \in held' : asked'[r] \in Requests
  BY <1>4, <1>9 DEF MallocInv
<1>14. heap' \in Heaps /\ Books(heap')
  BY <1>7 DEF Whole
<1> QED
  BY <1>7, <1>12, <1>13, <1>14 DEF MallocInv

LEMMA FreeStep ==
  ASSUME MallocInv, NEW r \in held, FreeHeld(r)
  PROVE  MallocInv'
<1>1. PICK L : Whole(heap, L) /\ Holds(L)
  BY DEF MallocInv, FreeHeld
<1>2. heap' = Free(heap, r) /\ asked' = Drop(r)
  BY DEF FreeHeld
<1>3. r \in Used(heap.header, L)
  BY <1>1 DEF Holds
<1>4. /\ heap' \in Heaps /\ Books(heap')
      /\ heap'.sane => \E M : /\ Whole(heap', M)
                              /\ Used(heap'.header, M) = Used(heap.header, L) \ {r}
                              /\ \A x \in Used(heap.header, L) \ {r} :
                                   heap'.header[x].size = heap.header[x].size
  BY <1>1, <1>2, <1>3, FreeKeeps
<1>5. held' = held \ {r} /\ \A p \in held' : asked'[p] = asked[p]
  BY <1>2 DEF Drop, held
<1>6. ASSUME Sound' PROVE \E M : Whole(heap', M) /\ Holds(M)'
  <2>1. PICK M : /\ Whole(heap', M)
                 /\ Used(heap'.header, M) = Used(heap.header, L) \ {r}
                 /\ \A x \in Used(heap.header, L) \ {r} :
                      heap'.header[x].size = heap.header[x].size
    BY <1>4, <1>6 DEF Sound
  <2>2. Holds(M)'
    BY <1>1, <1>5, <2>1 DEF Holds
  <2> QED
    BY <2>1, <2>2
<1>7. held' \subseteq Addresses /\ \A p \in held' : asked'[p] \in Requests
  BY <1>5 DEF MallocInv
<1> QED
  BY <1>4, <1>6, <1>7 DEF MallocInv

LEMMA ReallocStep ==
  ASSUME NoOverflow, MallocInv, NEW r \in held, NEW n \in Requests, Realloc(r, n)
  PROVE  MallocInv'
<1> DEFINE k == Rounded(n)
<1>1. PICK L : Whole(heap, L) /\ Holds(L)
  BY DEF MallocInv, Realloc
<1>2. PICK m \in Reallocs(heap, r, k) :
        /\ heap' = m.heap
        /\ asked' = [p \in (held \ {r}) \cup {m.at} |-> IF p = m.at THEN n ELSE asked[p]]
  BY DEF Realloc
<1>3. n \in Nat /\ n + HEADER < SIZE_T /\ ~TooLarge(n)
  BY RequestsAreSizes DEF Realloc
<1>4. k \in Nat /\ n =< k /\ k + HEADER < SIZE_T
  <2>1. k \in Nat /\ n =< k /\ k + HEADER =< BLOCK_LG
    BY <1>3, RoundedFits
  <2> HIDE DEF k
  <2> QED
    BY <2>1, Sizes DEF HEADER
<1> HIDE DEF k
<1>5. r \in Used(heap.header, L) /\ heap.sane
  BY <1>1 DEF Holds, Realloc, Sound
<1>6. /\ m.heap \in Heaps /\ Books(m.heap) /\ m.at \in Addresses
      /\ m.heap.sane => Outcome(heap, L, r, m.heap, m.at, k)
  BY <1>1, <1>2, <1>4, <1>5, ReallocKeeps
<1>7. /\ held' = (held \ {r}) \cup {m.at} /\ asked'[m.at] = n
      /\ \A p \in held' : p # m.at => p \in held /\ p # r /\ asked'[p] = asked[p]
  BY <1>2 DEF held
<1>8. ASSUME Sound' PROVE \E M : Whole(heap', M) /\ Holds(M)'
  <2>1. PICK M : /\ Whole(heap', M)
                 /\ Used(heap'.header, M) = (Used(heap.header, L) \ {r}) \cup {m.at}
                 /\ heap'.header[m.at].size >= k
                 /\ \A x \in Used(heap.header, L) :
                      x # r /\ x # m.at => heap'.header[x].size = heap.header[x].size
    BY <1>2, <1>6, <1>8 DEF Sound, Outcome
  <2>2. held' = Used(heap'.header, M)
    BY <1>1, <1>7, <2>1 DEF Holds
  <2>3. m.at \in M /\ heap'.header \in Headers /\ heap'.size \in Blocks
        /\ Chain(heap'.header, heap'.size, M)
    BY <1>7, <2>1, <2>2, HeapParts DEF Used, Whole
  <2>4. heap'.header[m.at].size \in Nat
    BY <2>3, ChainFacts
  <2>5. heap'.header[m.at].size >= n
    BY <1>3, <1>4, <2>1, <2>4
  <2>6. \A p \in held' : heap'.header[p].size >= asked'[p]
    BY <1>1, <1>7, <2>1, <2>5 DEF Holds
  <2>7. Holds(M)'
    BY <2>2, <2>6 DEF Holds
  <2> QED
    BY <2>1, <2>7
<1>9. held' \subseteq Addresses /\ \A p \in held' : asked'[p] \in Requests
  BY <1>6, <1>7 DEF MallocInv
<1>10. heap' \in Heaps /\ Books(heap')
  BY <1>2, <1>6
<1> QED
  BY <1>8, <1>9, <1>10 DEF MallocInv

LEMMA WriteStep ==
  ASSUME MallocInv, NEW r \in held, Write(r)
  PROVE  MallocInv'
<1>1. PICK L : Whole(heap, L) /\ Holds(L)
  BY DEF MallocInv, Write
<1> DEFINE h == heap.header
           f == Fill(h, r, h[r].size, Garbage)
<1>2. heap' = WithHeader(heap, f) /\ asked' = asked
  BY DEF Write, WithHeader
<1>3. h \in Headers /\ heap.size \in Blocks /\ Bounded(h) /\ Chain(h, heap.size, L) /\ r \in L
  BY <1>1, HeapParts DEF Whole, Used, Holds
<1>4. f \in Headers /\ Bounded(f) /\ Chain(f, heap.size, L) /\ \A x \in L : f[x] = h[x]
  <2>1. h[r].size \in Nat /\ Garbage \in {Garbage, Zero} /\ f = Fill(h, r, h[r].size, Garbage)
    BY <1>3, ChainFacts
  <2>2. h[r].size =< h[r].size
    BY <2>1
  <2> HIDE DEF f, h
  <2> QED
    BY <1>3, <2>1, <2>2, FillChain
<1> HIDE DEF f
<1>5. Whole(heap', L) /\ heap'.header = f
  BY <1>1, <1>2, <1>4, HeadersKeep
<1>6. held' = held /\ held = Used(f, L) /\ \A x \in held : f[x] = h[x]
  BY <1>1, <1>2, <1>4 DEF Holds, Used, held
<1>7. Holds(L)'
  BY <1>1, <1>2, <1>5, <1>6 DEF Holds
<1> QED
  BY <1>2, <1>5, <1>6, <1>7 DEF MallocInv, Whole

-----------------------------------------------------------------------------
(* Theorems                                                                *)

\* The heap's books are right in every state and, until the library has taken a stale
\* header for the region before another, its blocks are chains of regions and those in
\* use are the ones that programs hold (malloc.c); no request overflowing a size_t.
THEOREM MallocInvariant == NoOverflow => (Spec => []MallocInv)
<1> SUFFICES ASSUME NoOverflow PROVE Spec => []MallocInv
  OBVIOUS
<1>1. MallocInv /\ [Next]_vars => MallocInv'
  <2> SUFFICES ASSUME MallocInv, [Next]_vars PROVE MallocInv'
    OBVIOUS
  <2>1. ASSUME NEW n \in Requests, Malloc(n) PROVE MallocInv'
    BY <2>1, MallocStep
  <2>2. ASSUME NEW n \in Requests, Calloc(n) PROVE MallocInv'
    BY <2>2, CallocStep
  <2>3. ASSUME NEW r \in held, FreeHeld(r) PROVE MallocInv'
    BY <2>3, FreeStep
  <2>4. ASSUME NEW r \in held, Write(r) PROVE MallocInv'
    BY <2>4, WriteStep
  <2>5. ASSUME NEW r \in held, NEW n \in Requests, Realloc(r, n) PROVE MallocInv'
    BY <2>5, ReallocStep
  <2>6. CASE UNCHANGED vars
    <3>1. heap' = heap /\ asked' = asked
      BY <2>6 DEF vars
    <3> QED
      BY <3>1 DEF MallocInv, Sound, held, Holds
  <2> QED
    BY <2>1, <2>2, <2>3, <2>4, <2>5, <2>6 DEF Next
<1> QED
  BY InitMalloc, <1>1, PTL DEF Spec

\* Each region ends where the next one of its block begins and the last where the block
\* ends, after any calls of malloc, calloc, realloc and free (malloc.c): split and
\* coalesce lose no memory and give none twice.
THEOREM RegionsTile == NoOverflow => (Spec => []Tiling)
<1> SUFFICES ASSUME NoOverflow PROVE Spec => []Tiling
  OBVIOUS
<1>1. MallocInv => Tiling
  <2> SUFFICES ASSUME MallocInv, Sound,
                      NEW b \in ToSet(heap.blocks), NEW r \in Regions(heap.header, b)
               PROVE  r[2] + HEADER + heap.header[r].size
                        = IF heap.header[r].next = NULL THEN heap.size[b]
                          ELSE heap.header[r].next[2]
    BY DEF Tiling
  <2>1. PICK L : Whole(heap, L)
    BY DEF MallocInv
  <2>2. /\ heap.header \in Headers /\ heap.size \in Blocks
        /\ Chain(heap.header, heap.size, L) /\ b \in Slots /\ heap.size[b] # 0
    BY <2>1, HeapParts DEF Whole, Books
  <2>3. r \in L /\ r[1] = b
    BY <2>2, ChainRegions
  <2>4. /\ heap.header[r].next = NULL => End(heap.header, r) = heap.size[b]
        /\ heap.header[r].next # NULL => heap.header[r].next[2] = End(heap.header, r)
    BY <2>2, <2>3 DEF Chain
  <2> QED
    BY <2>4 DEF End
<1> QED
  BY <1>1, MallocInvariant, PTL

\* The regions in use are those programs hold, each as large as it was asked to be,
\* each block is listed once, and what is mapped is counted and stays under the limit
\* (malloc.c: malloc, calloc, free and every way handle_realloc takes).
THEOREM WhatIsHeldIsInUse == NoOverflow => (Spec => []MemoryIsHeldOnce)
<1> SUFFICES ASSUME NoOverflow PROVE Spec => []MemoryIsHeldOnce
  OBVIOUS
<1>1. MallocInv => MemoryIsHeldOnce
  <2> SUFFICES ASSUME MallocInv PROVE MemoryIsHeldOnce
    OBVIOUS
  <2>1. /\ heap.header \in Headers /\ heap.blocks \in Seq(Slots) /\ heap.size \in Blocks
        /\ heap.total_mmy \in Nat /\ heap.sane \in BOOLEAN /\ heap.total_mmy < HARD_LIMIT
    BY HeapParts DEF MallocInv, Books
  <2>2. TypeOK
    <3>1. heap.total_mmy \in 0 .. HARD_LIMIT
      BY <2>1, Sizes
    <3> QED
      BY <2>1, <3>1 DEF TypeOK, MallocInv, Headers, Blocks
  <2>3. Accounting
    BY DEF Accounting, Mapped, MallocInv, Books, MappedBy
  <2>4. InUseIsHeld
    <3> SUFFICES ASSUME Sound
                 PROVE  /\ held = {r \in Linked(heap) : ~heap.header[r].free}
                        /\ \A r \in held : heap.header[r].size >= asked[r]
      BY DEF InUseIsHeld
    <3>1. PICK L : Whole(heap, L) /\ Holds(L)
      BY DEF MallocInv
    <3>2. Linked(heap) = L
      BY <3>1, LinkedIsChain
    <3> QED
      BY <3>1, <3>2 DEF Holds, Used
  <2> QED
    BY <2>2, <2>3, <2>4 DEF MemoryIsHeldOnce
<1> QED
  BY <1>1, MallocInvariant, PTL
=============================================================================
