-------------------------- MODULE PageTablesProofs --------------------------
(***************************************************************************)
(* What the functions of kern/pmap.c and the address space half of         *)
(* kern/env.c preserve: a memory is sound when pp_ref counts the places     *)
(* that refer to a page, what is on page_free_list is referred to by        *)
(* nobody, and a directory or a page table is referred to once.             *)
(***************************************************************************)
EXTENDS PageTables, FiniteSetTheorems, TLAPS

Counted(m) == \A p \in Page : m.ref[p] = Cardinality(Refs(m, p))
FreeUnused(m) == \A p \in m.free : Refs(m, p) = {}
Private(m) ==
  \A s \in Place : s[2] \notin VA /\ Held(m, s) # None => Refs(m, Held(m, s)) = {s}

Sound(m) == m \in Memories /\ Counted(m) /\ FreeUnused(m) /\ Private(m)

\* A page that may be mapped: taken from the list, and neither a directory nor a table
Mappable(m, p) == p \in Page /\ p \notin m.free /\ \A s \in Refs(m, p) : s[2] \in VA

-----------------------------------------------------------------------------
(* Places                                                                  *)

\* What each kind of place holds, without the case distinction of Held.
LEMMA HeldAt ==
  ASSUME NEW m, NEW s, NEW e
  PROVE  /\ s = <<e, None>> => Held(m, s) = m.pgdir[e]
         /\ \A t \in Table : s = <<e, t>> => Held(m, s) = m.pde[e][t]
         /\ \A va \in VA : s = <<e, va>> => Held(m, s) = m.pte[e][va].page
  BY SpaceAssumption DEF Held

\* A place is a directory, a table or a mapping of an environment.
LEMMA PlaceKinds ==
  ASSUME NEW s \in Place
  PROVE  \E e \in Env :
           \/ s = <<e, None>>
           \/ \E t \in Table : s = <<e, t>>
           \/ \E va \in VA : s = <<e, va>>
  BY DEF Place

\* The types of the five parts of a memory.
LEMMA MemoryParts ==
  ASSUME NEW m \in Memories
  PROVE  /\ m.free \subseteq Page
         /\ m.ref \in [Page -> Nat]
         /\ m.pgdir \in [Env -> Page \cup {None}]
         /\ m.pde \in [Env -> [Table -> Page \cup {None}]]
         /\ m.pte \in [Env -> [VA -> Mapping \cup {Unmapped}]]
         /\ \A e \in Env, va \in VA : m.pte[e][va].page \in Page \cup {None}
         /\ \A e \in Env, va \in VA : Mapped(m, e, va) <=> m.pte[e][va].page # None
  BY PageAssumption DEF Memories, Mapping, Unmapped, Mapped

\* Places hold pages or nothing.
LEMMA HeldType ==
  ASSUME NEW m \in Memories, NEW s \in Place
  PROVE  Held(m, s) \in Page \cup {None}
<1>1. PICK e \in Env : \/ s = <<e, None>>
                       \/ \E t \in Table : s = <<e, t>>
                       \/ \E va \in VA : s = <<e, va>>
  BY PlaceKinds
<1>2. CASE s = <<e, None>>
  BY <1>2, HeldAt, MemoryParts
<1>3. ASSUME NEW t \in Table, s = <<e, t>> PROVE Held(m, s) \in Page \cup {None}
  <2>1. Held(m, s) = m.pde[e][t]
    BY <1>3, HeldAt
  <2> QED
    BY <2>1, MemoryParts
<1>4. ASSUME NEW va \in VA, s = <<e, va>> PROVE Held(m, s) \in Page \cup {None}
  <2>1. Held(m, s) = m.pte[e][va].page
    BY <1>4, HeldAt
  <2> QED
    BY <2>1, MemoryParts
<1> QED
  BY <1>1, <1>2, <1>3, <1>4

\* There are finitely many places.
LEMMA PlaceFinite == IsFiniteSet(Place)
<1>1. IsFiniteSet(VA \cup Table)
  BY SpaceAssumption, FS_Union
<1>2. IsFiniteSet(VA \cup Table \cup {None})
  BY <1>1, FS_AddElement
<1> QED
  BY <1>2, SpaceAssumption, FS_Product DEF Place

\* So those that refer to a page can be counted.
LEMMA RefsFinite ==
  ASSUME NEW m, NEW p
  PROVE  Refs(m, p) \subseteq Place /\ IsFiniteSet(Refs(m, p)) /\ Cardinality(Refs(m, p)) \in Nat
<1>1. Refs(m, p) \in SUBSET Place
  BY DEF Refs
<1> QED
  BY <1>1, PlaceFinite, FS_Subset, FS_CardinalityType

\* Nothing else but the places decides who refers to a page.
LEMMA SamePlaces ==
  ASSUME NEW m, NEW n, NEW p, \A r \in Place : Held(n, r) = Held(m, r)
  PROVE  Refs(n, p) = Refs(m, p)
  BY DEF Refs

\* One place changes what it holds: it leaves the references of one page and joins
\* those of another, whose numbers change by one.
LEMMA OnePlace ==
  ASSUME NEW m, NEW n, NEW s \in Place, NEW p,
         \A r \in Place \ {s} : Held(n, r) = Held(m, r)
  PROVE  /\ Refs(n, p) = IF Held(n, s) = p THEN Refs(m, p) \cup {s} ELSE Refs(m, p) \ {s}
         /\ Cardinality(Refs(n, p)) = (IF Held(n, s) = p THEN 1 ELSE 0)
              + Cardinality(Refs(m, p)) - (IF Held(m, s) = p THEN 1 ELSE 0)
<1>1. Refs(n, p) = IF Held(n, s) = p THEN Refs(m, p) \cup {s} ELSE Refs(m, p) \ {s}
  BY DEF Refs
<1>2. s \in Refs(m, p) <=> Held(m, s) = p
  BY DEF Refs
<1>3. IsFiniteSet(Refs(m, p)) /\ Cardinality(Refs(m, p)) \in Nat
  BY RefsFinite
<1>4. Cardinality(Refs(m, p) \cup {s}) =
        IF s \in Refs(m, p) THEN Cardinality(Refs(m, p)) ELSE Cardinality(Refs(m, p)) + 1
  BY <1>3, FS_AddElement
<1>5. Cardinality(Refs(m, p) \ {s}) =
        IF s \in Refs(m, p) THEN Cardinality(Refs(m, p)) - 1 ELSE Cardinality(Refs(m, p))
  BY <1>3, FS_RemoveElement
<1>6. CASE Held(n, s) = p
  BY <1>1, <1>2, <1>3, <1>4, <1>6
<1>7. CASE Held(n, s) # p
  BY <1>1, <1>2, <1>3, <1>5, <1>7
<1> QED
  BY <1>6, <1>7

\* A page somebody refers to has a positive count and is not on the list.
LEMMA HeldIsCounted ==
  ASSUME NEW m, Sound(m), NEW s \in Place, Held(m, s) # None
  PROVE  /\ Held(m, s) \in Page
         /\ s \in Refs(m, Held(m, s))
         /\ m.ref[Held(m, s)] > 0
         /\ Held(m, s) \notin m.free
<1> DEFINE p == Held(m, s)
<1>1. p \in Page
  BY HeldType DEF Sound
<1>2. s \in Refs(m, p)
  BY DEF Refs
<1>3. Cardinality(Refs(m, p)) # 0 /\ Cardinality(Refs(m, p)) \in Nat
  BY <1>2, RefsFinite, FS_EmptySet
<1> QED
  BY <1>1, <1>2, <1>3 DEF Sound, Counted, FreeUnused
-----------------------------------------------------------------------------
(* What the functions keep                                                 *)

\* A step that takes a page p from the list, if any, and lets a place that held
\* nothing hold it.
LEMMA Taken ==
  ASSUME NEW m, Sound(m), NEW n \in Memories, NEW s \in Place, NEW p \in m.free,
         Held(m, s) = None, Held(n, s) = p,
         \A r \in Place \ {s} : Held(n, r) = Held(m, r),
         n.free = m.free \ {p},
         n.ref = [m.ref EXCEPT ![p] = @ + 1]
  PROVE  /\ Sound(n)
         /\ \A r \in Page \ {p} : Refs(n, r) = Refs(m, r)
         /\ Refs(n, p) = {s}
<1>1. p \in Page /\ p # None /\ m.ref \in [Page -> Nat]
  BY MemoryParts, PageAssumption DEF Sound
<1>2. \A r \in Page \ {p} : Refs(n, r) = Refs(m, r)
  <2> SUFFICES ASSUME NEW r \in Page \ {p} PROVE Refs(n, r) = Refs(m, r)
    OBVIOUS
  <2>1. s \notin Refs(m, r)
    BY PageAssumption DEF Refs
  <2>2. Refs(n, r) = Refs(m, r) \ {s}
    BY OnePlace
  <2> QED
    BY <2>1, <2>2
<1>3. Refs(m, p) = {}
  BY DEF Sound, FreeUnused
<1>4. Refs(n, p) = {s}
  BY <1>3, OnePlace
<1>5. Counted(n)
  <2>1. n.ref[p] = Cardinality(Refs(n, p))
    BY <1>1, <1>3, <1>4, FS_EmptySet, FS_Singleton DEF Sound, Counted
  <2>2. \A r \in Page \ {p} : n.ref[r] = Cardinality(Refs(n, r))
    BY <1>1, <1>2 DEF Sound, Counted
  <2> QED
    BY <2>1, <2>2 DEF Counted
<1>6. FreeUnused(n)
  BY <1>2, MemoryParts DEF Sound, FreeUnused
<1>7. Private(n)
  <2> SUFFICES ASSUME NEW r \in Place, r[2] \notin VA, Held(n, r) # None
               PROVE  Refs(n, Held(n, r)) = {r}
    BY DEF Private
  <2>1. CASE r = s
    BY <1>4, <2>1
  <2>2. CASE r # s
    <3>1. Held(n, r) = Held(m, r) /\ Refs(m, Held(m, r)) = {r}
      BY <2>2 DEF Sound, Private
    <3>2. Held(m, r) \in Page /\ Held(m, r) # p
      BY <1>3, <3>1, <2>2, HeldType DEF Sound
    <3> QED
      BY <1>2, <3>1, <3>2
  <2> QED
    BY <2>1, <2>2
<1> QED
  BY <1>2, <1>4, <1>5, <1>6, <1>7 DEF Sound

\* page_alloc: the page leaves the list and is referred to by nobody yet.
LEMMA PageAllocSound ==
  ASSUME NEW m, Sound(m), NEW p \in m.free
  PROVE  /\ Sound(PageAlloc(m, p))
         /\ Mappable(PageAlloc(m, p), p)
         /\ Refs(PageAlloc(m, p), p) = {}
<1> DEFINE n == PageAlloc(m, p)
<1>1. /\ n \in Memories /\ n.free = m.free \ {p} /\ n.ref = m.ref
      /\ n.pgdir = m.pgdir /\ n.pde = m.pde /\ n.pte = m.pte
  BY DEF PageAlloc, Sound, Memories
<1>2. \A r \in Place : Held(n, r) = Held(m, r)
  BY <1>1 DEF Held
<1>3. \A r : Refs(n, r) = Refs(m, r)
  BY <1>2, SamePlaces
<1>4. Sound(n)
  BY <1>1, <1>2, <1>3 DEF Sound, Counted, FreeUnused, Private
<1>5. p \in Page /\ Refs(n, p) = {}
  BY <1>3, MemoryParts DEF Sound, FreeUnused
<1> QED
  BY <1>1, <1>4, <1>5 DEF Mappable

\* pgdir_walk: the page of a new table is counted once; mappings stay, and a page
\* that may be mapped still may.
LEMMA PgdirWalkSound ==
  ASSUME NEW m, Sound(m), NEW e \in Env, NEW t \in Table, NEW q \in FreePages(m) \cup {None}
  PROVE  LET n == PgdirWalk(m, e, t, q)
         IN  /\ Sound(n)
             /\ n.pgdir = m.pgdir /\ n.pte = m.pte
             /\ n.free \subseteq m.free /\ m.free \subseteq n.free \cup {q}
             /\ \A x \in Env \ {e} : n.pde[x] = m.pde[x]
             /\ n.pde[e] # m.pde[e] => q # None
             /\ \A p \in Page \ m.free : Refs(n, p) = Refs(m, p)
<1> DEFINE n == PgdirWalk(m, e, t, q)
<1>1. CASE m.pde[e][t] # None \/ q = None
  BY <1>1 DEF PgdirWalk
<1>2. CASE m.pde[e][t] = None /\ q # None
  <2>1. q \in m.free
    BY <1>2 DEF FreePages
  <2>2. q \in Page
    BY <2>1, MemoryParts DEF Sound
  <2>3. n = [m EXCEPT !.free = m.free \ {q}, !.ref[q] = m.ref[q] + 1, !.pde[e][t] = q]
    BY <1>2 DEF PgdirWalk, PageAlloc, Sound, Memories
  <2>4. /\ n.free = m.free \ {q} /\ n.ref = [m.ref EXCEPT ![q] = @ + 1]
        /\ n.pgdir = m.pgdir /\ n.pte = m.pte
        /\ n.pde = [m.pde EXCEPT ![e][t] = q]
    BY <2>3 DEF Sound, Memories
  <2>5. n \in Memories
    <3>1. n.pde \in [Env -> [Table -> Page \cup {None}]]
      BY <2>2, <2>4 DEF Sound, Memories
    <3>2. n.free \subseteq Page /\ n.ref \in [Page -> Nat]
      BY <2>2, <2>4 DEF Sound, Memories
    <3>3. n = [free |-> n.free, ref |-> n.ref, pgdir |-> n.pgdir, pde |-> n.pde, pte |-> n.pte]
      BY <2>3 DEF Sound, Memories
    <3> QED
      BY <2>4, <3>1, <3>2, <3>3 DEF Sound, Memories
  <2> DEFINE s == <<e, t>>
  <2>6. s \in Place /\ Held(m, s) = None /\ Held(n, s) = q
    <3>1. Held(m, s) = m.pde[e][t] /\ Held(n, s) = n.pde[e][t]
      BY HeldAt
    <3>2. s \in Place
      BY DEF Place
    <3> QED
      BY <1>2, <2>4, <3>1, <3>2 DEF Sound, Memories
  <2>7. \A r \in Place \ {s} : Held(n, r) = Held(m, r)
    BY <2>4, MemoryParts DEF Place, Held, Sound
  <2>8. Sound(n) /\ \A p \in Page \ {q} : Refs(n, p) = Refs(m, p)
    BY <2>1, <2>4, <2>5, <2>6, <2>7, Taken
  <2> QED
    BY <1>2, <2>1, <2>4, <2>8, MemoryParts DEF Sound
<1> QED
  BY <1>1, <1>2

\* A mapping s that holds a page a, or nothing, gets a page b that may be mapped, or
\* nothing: the counts follow, and a is free when s was its last reference.
Replaces(m, n, s, a, b) ==
  /\ s \in Place /\ s[2] \in VA /\ Held(m, s) = a /\ Held(n, s) = b
  /\ \A r \in Place \ {s} : Held(n, r) = Held(m, r)
  /\ b # None => Mappable(m, b)
  /\ \A p \in Page : n.ref[p] = m.ref[p] + (IF p = b THEN 1 ELSE 0)
                                          - (IF p = a THEN 1 ELSE 0)
  /\ n.free = IF a # None /\ a # b /\ m.ref[a] = 1 THEN m.free \cup {a} ELSE m.free

\* Whoever does that keeps memory sound.
LEMMA Replaced ==
  ASSUME NEW m, Sound(m), NEW n \in Memories, NEW s, NEW a, NEW b, Replaces(m, n, s, a, b)
  PROVE  Sound(n)
<1> USE DEF Replaces
<1>1. m.ref \in [Page -> Nat] /\ m.free \subseteq Page
  BY MemoryParts DEF Sound
<1>2. ASSUME NEW p
      PROVE  Refs(n, p) = IF b = p THEN Refs(m, p) \cup {s} ELSE Refs(m, p) \ {s}
  BY OnePlace
<1>3. ASSUME NEW p
      PROVE  Cardinality(Refs(n, p)) = (IF b = p THEN 1 ELSE 0)
               + Cardinality(Refs(m, p)) - (IF a = p THEN 1 ELSE 0)
  BY OnePlace
<1>4. Counted(n)
  <2> SUFFICES ASSUME NEW p \in Page PROVE n.ref[p] = Cardinality(Refs(n, p))
    BY DEF Counted
  <2>1. m.ref[p] = Cardinality(Refs(m, p)) /\ m.ref[p] \in Nat
    BY <1>1 DEF Sound, Counted
  <2> QED
    BY <1>3, <2>1
<1>5. FreeUnused(n)
  <2> SUFFICES ASSUME NEW p \in n.free PROVE Refs(n, p) = {}
    BY DEF FreeUnused
  <2>1. CASE p \in m.free
    <3>1. Refs(m, p) = {} /\ p # b
      BY <1>1, <2>1, PageAssumption DEF Sound, FreeUnused, Mappable
    <3>2. Refs(n, p) = Refs(m, p) \ {s}
      BY <1>2, <3>1
    <3> QED
      BY <3>1, <3>2
  <2>2. CASE p \notin m.free
    <3>1. p = a /\ a # None /\ a # b /\ m.ref[a] = 1
      BY <2>2
    <3>2. a \in Page
      BY <3>1, HeldType DEF Sound
    <3>3. Cardinality(Refs(m, a)) = 1
      BY <3>1, <3>2 DEF Sound, Counted
    <3>4. Cardinality(Refs(n, a)) = 0
      BY <1>3, <3>1, <3>3
    <3> QED
      BY <3>1, <3>4, RefsFinite, FS_EmptySet
  <2> QED
    BY <2>1, <2>2
<1>6. Private(n)
  <2> SUFFICES ASSUME NEW r \in Place, r[2] \notin VA, Held(n, r) # None
               PROVE  Refs(n, Held(n, r)) = {r}
    BY DEF Private
  <2> DEFINE p == Held(m, r)
  <2>1. r # s /\ Held(n, r) = p
    OBVIOUS
  <2>2. Refs(m, p) = {r}
    BY <2>1 DEF Sound, Private
  <2>3. p # b
    BY <2>1, <2>2 DEF Mappable
  <2>4. Refs(n, p) = Refs(m, p) \ {s}
    BY <1>2, <2>3
  <2> QED
    BY <2>1, <2>2, <2>4
<1> QED
  BY <1>4, <1>5, <1>6 DEF Sound

\* page_remove: the mapping goes, the rest of the tables stays.
LEMMA PageRemoveSound ==
  ASSUME NEW m, Sound(m), NEW e \in Env, NEW va \in VA
  PROVE  LET n == PageRemove(m, e, va)
         IN  /\ Sound(n)
             /\ n.pgdir = m.pgdir /\ n.pde = m.pde
             /\ n.pte = [m.pte EXCEPT ![e][va] = Unmapped]
<1> DEFINE n == PageRemove(m, e, va)
           s == <<e, va>>
           a == m.pte[e][va].page
<1>1. CASE ~Mapped(m, e, va)
  <2>1. n = m /\ m.pte[e][va] = Unmapped
    BY <1>1 DEF PageRemove, Mapped
  <2> QED
    BY <2>1 DEF Sound, Memories
<1>2. CASE Mapped(m, e, va)
  <2>1. s \in Place /\ s[2] \in VA /\ Held(m, s) = a
    BY HeldAt DEF Place
  <2>2. a \in Page /\ a # None /\ m.ref[a] > 0 /\ m.ref \in [Page -> Nat]
    BY <1>2, <2>1, MemoryParts, HeldIsCounted DEF Sound
  <2>3. n = [m EXCEPT !.pte[e][va] = Unmapped, !.ref[a] = m.ref[a] - 1,
                      !.free = IF m.ref[a] = 1 THEN m.free \cup {a} ELSE m.free]
    BY <1>2 DEF PageRemove, PageDecref, Sound, Memories
  <2>4. /\ n.free = IF m.ref[a] = 1 THEN m.free \cup {a} ELSE m.free
        /\ n.ref = [m.ref EXCEPT ![a] = m.ref[a] - 1]
        /\ n.pgdir = m.pgdir /\ n.pde = m.pde
        /\ n.pte = [m.pte EXCEPT ![e][va] = Unmapped]
    BY <2>3 DEF Sound, Memories
  <2>5. n \in Memories
    <3>1. n.pte \in [Env -> [VA -> Mapping \cup {Unmapped}]]
      BY <2>4 DEF Sound, Memories
    <3>2. n.free \subseteq Page /\ n.ref \in [Page -> Nat]
      BY <2>2, <2>4 DEF Sound, Memories
    <3>3. n = [free |-> n.free, ref |-> n.ref, pgdir |-> n.pgdir, pde |-> n.pde, pte |-> n.pte]
      BY <2>3 DEF Sound, Memories
    <3> QED
      BY <2>4, <3>1, <3>2, <3>3 DEF Sound, Memories
  <2>6. Held(n, s) = None
    <3>1. n.pte[e][va] = Unmapped
      BY <2>4 DEF Sound, Memories
    <3> QED
      BY <3>1, HeldAt DEF Unmapped
  <2>7. \A r \in Place \ {s} : Held(n, r) = Held(m, r)
    BY <2>4, MemoryParts DEF Place, Held, Sound
  <2>8. Sound(n)
    <3>1. \A p \in Page : n.ref[p] = m.ref[p] + (IF p = None THEN 1 ELSE 0)
                                                - (IF p = a THEN 1 ELSE 0)
      BY <2>2, <2>4, PageAssumption
    <3>2. Replaces(m, n, s, a, None)
      BY <2>1, <2>2, <2>4, <2>6, <2>7, <3>1 DEF Replaces
    <3> QED
      BY <2>5, <3>2, Replaced
  <2> QED
    BY <2>4, <2>8
<1> QED
  BY <1>1, <1>2

\* An entry that is replaced twice.
LEMMA EntryAgain ==
  ASSUME NEW S, NEW f \in [Env -> [VA -> S]], NEW e \in Env, NEW va \in VA, NEW x, NEW y
  PROVE  [[f EXCEPT ![e][va] = x] EXCEPT ![e][va] = y] = [f EXCEPT ![e][va] = y]
  OBVIOUS

\* page_insert, when it has the table it needs: the page is mapped, over what was
\* there, over itself too.
LEMMA PageInserted ==
  ASSUME NEW m, Sound(m), NEW e \in Env, NEW va \in VA, NEW p, NEW perm \in Perm,
         Mappable(m, p), m.pde[e][TableOf[va]] # None
  PROVE  LET n == PageInsert(m, e, p, va, perm, None)
         IN  /\ Sound(n)
             /\ n.pgdir = m.pgdir /\ n.pde = m.pde
             /\ n.pte = [m.pte EXCEPT ![e][va] = [page |-> p, perm |-> perm]]
<1> DEFINE n == PageInsert(m, e, p, va, perm, None)
           s == <<e, va>>
           a == m.pte[e][va].page
           u == [m EXCEPT !.ref[p] = m.ref[p] + 1]
           v == PageRemove(u, e, va)
           new == [page |-> p, perm |-> perm]
<1>1. /\ m \in Memories /\ m.ref \in [Page -> Nat] /\ p \in Page /\ p # None
      /\ p \notin m.free /\ m.free \subseteq Page
  BY MemoryParts, PageAssumption DEF Sound, Mappable
<1>2. s \in Place /\ s[2] \in VA /\ Held(m, s) = a
  BY HeldAt DEF Place
<1>3. /\ u.ref = [m.ref EXCEPT ![p] = m.ref[p] + 1]
      /\ u.free = m.free /\ u.pgdir = m.pgdir /\ u.pde = m.pde /\ u.pte = m.pte
      /\ u \in Memories
  <2>1. /\ u.ref = [m.ref EXCEPT ![p] = m.ref[p] + 1]
        /\ u.free = m.free /\ u.pgdir = m.pgdir /\ u.pde = m.pde /\ u.pte = m.pte
    BY <1>1 DEF Memories
  <2>2. u.ref \in [Page -> Nat]
    BY <1>1, <2>1
  <2>3. ASSUME NEW w, w = u
        PROVE  w = [free |-> w.free, ref |-> w.ref, pgdir |-> w.pgdir, pde |-> w.pde, pte |-> w.pte]
    BY <1>1, <2>3 DEF Memories
  <2> HIDE DEF u
  <2>4. u = [free |-> u.free, ref |-> u.ref, pgdir |-> u.pgdir, pde |-> u.pde, pte |-> u.pte]
    BY <2>3
  <2> QED
    BY <1>1, <2>1, <2>2, <2>4 DEF Memories
<1>4. n = [v EXCEPT !.pte[e][va] = new]
  <2>1. PgdirWalk(m, e, TableOf[va], None) = m
    BY DEF PgdirWalk
  <2>2. u = [m EXCEPT !.ref[p] = @ + 1]
    BY <1>1 DEF Memories
  <2> QED
    BY <2>1, <2>2 DEF PageInsert, Inserts
<1> HIDE DEF u, n
<1>5. /\ v \in Memories
      /\ v.pgdir = m.pgdir /\ v.pde = m.pde /\ v.pte = [m.pte EXCEPT ![e][va] = Unmapped]
      /\ \A r \in Page : v.ref[r] = m.ref[r] + (IF r = p THEN 1 ELSE 0)
                                               - (IF r = a THEN 1 ELSE 0)
      /\ v.free = IF a # None /\ a # p /\ m.ref[a] = 1 THEN m.free \cup {a} ELSE m.free
  <2>1. CASE ~Mapped(m, e, va)
    <3>1. v = u /\ m.pte[e][va] = Unmapped /\ a = None
      BY <1>3, <2>1 DEF PageRemove, Mapped, Unmapped
    <3>2. m.pte = [m.pte EXCEPT ![e][va] = Unmapped]
      BY <1>1, <3>1 DEF Memories
    <3> HIDE DEF v, a
    <3>3. a \notin Page
      BY <3>1, PageAssumption
    <3>4. \A r \in Page : v.ref[r] = m.ref[r] + (IF r = p THEN 1 ELSE 0)
                                               - (IF r = a THEN 1 ELSE 0)
      BY <1>1, <1>3, <3>1, <3>3
    <3> QED
      BY <1>1, <1>3, <3>1, <3>2, <3>4
  <2>2. CASE Mapped(m, e, va)
    <3>1. a \in Page /\ a # None /\ m.ref[a] > 0
      BY <1>1, <1>2, <2>2, MemoryParts, HeldIsCounted
    <3>2. v = [u EXCEPT !.pte[e][va] = Unmapped, !.ref[a] = u.ref[a] - 1,
                        !.free = IF u.ref[a] = 1 THEN u.free \cup {a} ELSE u.free]
      BY <1>3, <2>2 DEF PageRemove, PageDecref, Mapped, Memories
    <3>3. /\ v.free = IF u.ref[a] = 1 THEN m.free \cup {a} ELSE m.free
          /\ v.ref = [u.ref EXCEPT ![a] = u.ref[a] - 1]
          /\ v.pgdir = m.pgdir /\ v.pde = m.pde
          /\ v.pte = [m.pte EXCEPT ![e][va] = Unmapped]
      BY <1>3, <3>2 DEF Memories
    <3>4. \A r \in Page : v.ref[r] = m.ref[r] + (IF r = p THEN 1 ELSE 0)
                                               - (IF r = a THEN 1 ELSE 0)
      BY <1>1, <1>3, <3>1, <3>3
    <3>5. u.ref[a] = 1 <=> a # p /\ m.ref[a] = 1
      BY <1>1, <1>3, <3>1
    <3>6. v \in Memories
      <4>1. v.pte \in [Env -> [VA -> Mapping \cup {Unmapped}]]
        <5>1. m.pte \in [Env -> [VA -> Mapping \cup {Unmapped}]]
          BY <1>1, MemoryParts
        <5> HIDE DEF v
        <5> QED
          BY <3>3, <5>1
      <4>2. v.free \subseteq Page /\ v.ref \in [Page -> Nat]
        BY <1>1, <1>3, <3>1, <3>3
      <4>3. v = [free |-> v.free, ref |-> v.ref, pgdir |-> v.pgdir, pde |-> v.pde, pte |-> v.pte]
        BY <1>3, <3>2 DEF Memories
      <4> QED
        BY <1>1, <3>3, <4>1, <4>2, <4>3 DEF Memories
    <3> QED
      BY <3>1, <3>3, <3>4, <3>5, <3>6
  <2> QED
    BY <2>1, <2>2
<1> HIDE DEF v
<1>6. /\ n.pgdir = m.pgdir /\ n.pde = m.pde /\ n.free = v.free /\ n.ref = v.ref
      /\ n.pte = [m.pte EXCEPT ![e][va] = new]
  <2>1. /\ n.pgdir = v.pgdir /\ n.pde = v.pde /\ n.free = v.free /\ n.ref = v.ref
        /\ n.pte = [v.pte EXCEPT ![e][va] = new]
    BY <1>4, <1>5 DEF Memories
  <2>2. [v.pte EXCEPT ![e][va] = new] = [m.pte EXCEPT ![e][va] = new]
    <3>1. m.pte \in [Env -> [VA -> Mapping \cup {Unmapped}]]
      BY <1>1, MemoryParts
    <3> HIDE DEF new
    <3> QED
      BY <1>5, <3>1, EntryAgain
  <2> QED
    BY <1>5, <2>1, <2>2
<1>7. n \in Memories
  <2>1. n.pte \in [Env -> [VA -> Mapping \cup {Unmapped}]]
    BY <1>1, <1>6 DEF Memories, Mapping
  <2>2. n = [free |-> n.free, ref |-> n.ref, pgdir |-> n.pgdir, pde |-> n.pde, pte |-> n.pte]
    BY <1>4, <1>5 DEF Memories
  <2> QED
    BY <1>5, <1>6, <2>1, <2>2 DEF Memories
<1>8. Replaces(m, n, s, a, p)
  <2>1. Held(n, s) = p
    <3>1. n.pte[e][va] = new
      BY <1>1, <1>6 DEF Memories
    <3> QED
      BY <3>1, HeldAt
  <2>2. \A r \in Place \ {s} : Held(n, r) = Held(m, r)
    BY <1>1, <1>6, MemoryParts DEF Place, Held
  <2> QED
    BY <1>1, <1>2, <1>5, <1>6, <2>1, <2>2 DEF Replaces
<1>9. Sound(n)
  BY <1>7, <1>8, Replaced
<1> QED
  BY <1>6, <1>9 DEF n

\* A page that is mapped somewhere may be mapped again.
LEMMA MappedIsMappable ==
  ASSUME NEW m, Sound(m), NEW e \in Env, NEW va \in VA, Mapped(m, e, va)
  PROVE  Mappable(m, m.pte[e][va].page)
<1> DEFINE s == <<e, va>>
           p == m.pte[e][va].page
<1>1. s \in Place /\ s[2] \in VA /\ Held(m, s) = p /\ p # None
  BY HeldAt, MemoryParts DEF Place, Sound
<1>2. p \in Page /\ s \in Refs(m, p) /\ p \notin m.free
  BY <1>1, HeldIsCounted
<1>3. \A r \in Refs(m, p) : r[2] \in VA
  <2> SUFFICES ASSUME NEW r \in Refs(m, p), r[2] \notin VA PROVE FALSE
    OBVIOUS
  <2>1. r \in Place /\ Held(m, r) = p
    BY DEF Refs
  <2>2. Refs(m, p) = {r}
    BY <1>1, <2>1 DEF Sound, Private
  <2> QED
    BY <1>1, <1>2, <2>2
<1> QED
  BY <1>2, <1>3 DEF Mappable

\* page_insert: it needs a table and gets none, and nothing has changed; or the page is
\* mapped, and only the directory and the mappings of e have changed.
LEMMA PageInsertSound ==
  ASSUME NEW m, Sound(m), NEW e \in Env, NEW va \in VA, NEW p, NEW perm \in Perm,
         NEW q \in FreePages(m) \cup {None}, Mappable(m, p)
  PROVE  LET n == PageInsert(m, e, p, va, perm, q)
         IN  /\ Sound(n)
             /\ n.pgdir = m.pgdir
             /\ \A x \in Env \ {e} : n.pde[x] = m.pde[x]
             /\ \A s \in Table : m.pde[e][s] # None => n.pde[e][s] # None
             /\ IF Inserts(m, e, va, q)
                THEN /\ n.pde[e][TableOf[va]] # None
                     /\ n.pte = [m.pte EXCEPT ![e][va] = [page |-> p, perm |-> perm]]
                ELSE n = m
<1> DEFINE n == PageInsert(m, e, p, va, perm, q)
           t == TableOf[va]
           w == PgdirWalk(m, e, t, q)
<1>1. CASE ~Inserts(m, e, va, q)
  BY <1>1 DEF PageInsert
<1>2. CASE Inserts(m, e, va, q)
  <2>1. t \in Table
    BY SpaceAssumption
  <2>2. /\ Sound(w) /\ w.pgdir = m.pgdir /\ w.pte = m.pte /\ w.free \subseteq m.free
        /\ \A x \in Env \ {e} : w.pde[x] = m.pde[x]
        /\ \A r \in Page \ m.free : Refs(w, r) = Refs(m, r)
    BY <2>1, PgdirWalkSound
  <2>3. w.pde[e][t] # None
    <3>1. CASE m.pde[e][t] # None
      BY <3>1 DEF PgdirWalk
    <3>2. CASE m.pde[e][t] = None
      <4>1. q # None
        BY <1>2, <3>2 DEF Inserts
      <4>2. w.pde = [m.pde EXCEPT ![e][t] = q]
        BY <3>2, <4>1 DEF PgdirWalk, PageAlloc, Sound, Memories
      <4> QED
        BY <2>1, <4>1, <4>2, MemoryParts DEF Sound
    <3> QED
      BY <3>1, <3>2
  <2>8. \A s \in Table : m.pde[e][s] # None => w.pde[e][s] # None
    <3>1. CASE m.pde[e][t] # None \/ q = None
      BY <3>1 DEF PgdirWalk
    <3>2. CASE m.pde[e][t] = None /\ q # None
      <4>1. w.pde = [m.pde EXCEPT ![e][t] = q]
        BY <3>2 DEF PgdirWalk, PageAlloc, Sound, Memories
      <4> QED
        BY <2>1, <3>2, <4>1, MemoryParts DEF Sound
    <3> QED
      BY <3>1, <3>2
  <2>4. Mappable(w, p)
    BY <2>2 DEF Mappable
  <2>5. n = PageInsert(w, e, p, va, perm, None)
    <3>1. PgdirWalk(w, e, t, None) = w
      BY DEF PgdirWalk
    <3>2. Inserts(w, e, va, None)
      BY <2>3 DEF Inserts
    <3> QED
      BY <1>2, <3>1, <3>2 DEF PageInsert
  <2> HIDE DEF w, n
  <2>6. /\ Sound(n) /\ n.pgdir = w.pgdir /\ n.pde = w.pde
        /\ n.pte = [w.pte EXCEPT ![e][va] = [page |-> p, perm |-> perm]]
    BY <2>2, <2>3, <2>4, <2>5, PageInserted
  <2>7. /\ Sound(n) /\ n.pgdir = m.pgdir
        /\ \A x \in Env \ {e} : n.pde[x] = m.pde[x]
        /\ n.pde[e][TableOf[va]] # None
        /\ \A s \in Table : m.pde[e][s] # None => n.pde[e][s] # None
        /\ n.pte = [m.pte EXCEPT ![e][va] = [page |-> p, perm |-> perm]]
    BY <2>2, <2>3, <2>6, <2>8
  <2> QED
    BY <1>2, <2>7 DEF n
<1> QED
  BY <1>1, <1>2

\* env_setup_vm: the page of the directory is counted once.
LEMMA EnvSetupVmSound ==
  ASSUME NEW m, Sound(m), NEW e \in Env, NEW d \in m.free, m.pgdir[e] = None
  PROVE  LET n == EnvSetupVm(m, e, d)
         IN  /\ Sound(n)
             /\ n.pgdir = [m.pgdir EXCEPT ![e] = d] /\ d # None
             /\ n.pde = m.pde /\ n.pte = m.pte
<1> DEFINE n == EnvSetupVm(m, e, d)
           s == <<e, None>>
<1>1. d \in Page /\ d # None
  BY MemoryParts, PageAssumption DEF Sound
<1>2. n = [m EXCEPT !.free = m.free \ {d}, !.ref[d] = m.ref[d] + 1, !.pgdir[e] = d]
  BY DEF EnvSetupVm, PageAlloc, Sound, Memories
<1>3. /\ n.free = m.free \ {d} /\ n.ref = [m.ref EXCEPT ![d] = @ + 1]
      /\ n.pgdir = [m.pgdir EXCEPT ![e] = d]
      /\ n.pde = m.pde /\ n.pte = m.pte
  BY <1>2 DEF Sound, Memories
<1>4. n \in Memories
  <2>1. n.pgdir \in [Env -> Page \cup {None}]
    BY <1>1, <1>3 DEF Sound, Memories
  <2>2. n.free \subseteq Page /\ n.ref \in [Page -> Nat]
    BY <1>1, <1>3 DEF Sound, Memories
  <2>3. n = [free |-> n.free, ref |-> n.ref, pgdir |-> n.pgdir, pde |-> n.pde, pte |-> n.pte]
    BY <1>2 DEF Sound, Memories
  <2> QED
    BY <1>3, <2>1, <2>2, <2>3 DEF Sound, Memories
<1>5. s \in Place /\ Held(m, s) = None /\ Held(n, s) = d
  <2>1. Held(m, s) = m.pgdir[e] /\ Held(n, s) = n.pgdir[e]
    BY HeldAt
  <2>2. s \in Place
    BY DEF Place
  <2> QED
    BY <1>3, <2>1, <2>2, MemoryParts DEF Sound
<1>6. \A r \in Place \ {s} : Held(n, r) = Held(m, r)
  BY <1>3, MemoryParts DEF Place, Held, Sound
<1>7. Sound(n)
  BY <1>3, <1>4, <1>5, <1>6, Taken
<1> QED
  BY <1>1, <1>3, <1>7

\* env_free: nothing of the environment is left, the others keep what they have, and a
\* page that only it referred to is free.
LEMMA EnvFreeSound ==
  ASSUME NEW m, Sound(m), NEW e \in Env
  PROVE  LET n == EnvFreePages(m, e)
         IN  /\ Sound(n)
             /\ \A s \in Place : Held(n, s) = IF s[1] = e THEN None ELSE Held(m, s)
             /\ n.pgdir = [m.pgdir EXCEPT ![e] = None]
             /\ \A x \in Env \ {e} : n.pde[x] = m.pde[x] /\ n.pte[x] = m.pte[x]
             /\ \A va \in VA : n.pte[e][va] = Unmapped
             /\ \A p \in Page :
                  Refs(m, p) # {} /\ (\A s \in Refs(m, p) : s[1] = e) => p \in n.free
<1> DEFINE n == EnvFreePages(m, e)
           dropped(p) == {s \in Refs(m, p) : s[1] = e}
           left == [p \in Page |-> m.ref[p] - Cardinality(dropped(p))]
<1>1. m.ref \in [Page -> Nat] /\ m.free \subseteq Page /\ m \in Memories
  BY MemoryParts DEF Sound
<1>2. /\ n.free = m.free \cup {p \in Page : m.ref[p] > 0 /\ left[p] = 0}
      /\ n.ref = left
      /\ n.pgdir = [m.pgdir EXCEPT ![e] = None]
      /\ n.pde = [m.pde EXCEPT ![e] = [t \in Table |-> None]]
      /\ n.pte = [m.pte EXCEPT ![e] = [va \in VA |-> Unmapped]]
      /\ n = [free |-> n.free, ref |-> n.ref, pgdir |-> n.pgdir, pde |-> n.pde, pte |-> n.pte]
  BY DEF EnvFreePages
<1> HIDE DEF n
<1>3. \A s \in Place : Held(n, s) = IF s[1] = e THEN None ELSE Held(m, s)
  BY <1>1, <1>2, MemoryParts DEF Place, Held, Unmapped
<1>4. ASSUME NEW p \in Page PROVE Refs(n, p) = Refs(m, p) \ dropped(p)
  BY <1>3, PageAssumption DEF Refs
<1>5. ASSUME NEW p \in Page
      PROVE  /\ left[p] = Cardinality(Refs(n, p)) /\ left[p] \in Nat
             /\ m.ref[p] = Cardinality(Refs(m, p))
  <2>1. IsFiniteSet(Refs(m, p)) /\ Cardinality(Refs(n, p)) \in Nat
    BY RefsFinite
  <2>2. Cardinality(Refs(m, p) \ dropped(p)) =
          Cardinality(Refs(m, p)) - Cardinality(Refs(m, p) \cap dropped(p))
    BY <2>1, FS_Difference
  <2>3. Refs(m, p) \cap dropped(p) = dropped(p)
    OBVIOUS
  <2>4. m.ref[p] = Cardinality(Refs(m, p))
    BY DEF Sound, Counted
  <2> QED
    BY <1>4, <2>1, <2>2, <2>3, <2>4
<1>6. n \in Memories
  <2>1. n.ref \in [Page -> Nat] /\ n.free \subseteq Page
    BY <1>1, <1>2, <1>5
  <2>2. n.pgdir \in [Env -> Page \cup {None}] /\ n.pde \in [Env -> [Table -> Page \cup {None}]]
    BY <1>1, <1>2 DEF Memories
  <2>3. n.pte \in [Env -> [VA -> Mapping \cup {Unmapped}]]
    BY <1>1, <1>2 DEF Memories
  <2> QED
    BY <1>2, <2>1, <2>2, <2>3 DEF Memories
<1>7. Counted(n)
  BY <1>2, <1>5 DEF Counted
<1>8. FreeUnused(n)
  <2> SUFFICES ASSUME NEW p \in n.free PROVE Refs(n, p) = {}
    BY DEF FreeUnused
  <2>1. CASE p \in m.free
    <3>1. p \in Page /\ Refs(m, p) = {}
      BY <1>1, <2>1 DEF Sound, FreeUnused
    <3> QED
      BY <1>4, <3>1
  <2>2. CASE p \notin m.free
    <3>1. p \in Page /\ left[p] = 0
      BY <1>2, <2>2
    <3> QED
      BY <1>5, <3>1, RefsFinite, FS_EmptySet
  <2> QED
    BY <2>1, <2>2
<1>9. Private(n)
  <2> SUFFICES ASSUME NEW r \in Place, r[2] \notin VA, Held(n, r) # None
               PROVE  Refs(n, Held(n, r)) = {r}
    BY DEF Private
  <2>1. r[1] # e /\ Held(n, r) = Held(m, r)
    BY <1>3
  <2>2. Refs(m, Held(m, r)) = {r}
    BY <2>1 DEF Sound, Private
  <2>3. Held(m, r) \in Page
    BY <1>1, <2>1, HeldType
  <2> QED
    BY <1>4, <2>1, <2>2, <2>3
<1>10. \A p \in Page : Refs(m, p) # {} /\ (\A s \in Refs(m, p) : s[1] = e) => p \in n.free
  <2> SUFFICES ASSUME NEW p \in Page, Refs(m, p) # {}, \A s \in Refs(m, p) : s[1] = e
               PROVE  p \in n.free
    OBVIOUS
  <2>1. Refs(n, p) = {}
    BY <1>4
  <2>2. left[p] = 0
    BY <1>5, <2>1, FS_EmptySet
  <2>3. m.ref[p] > 0
    <3>1. Cardinality(Refs(m, p)) # 0 /\ Cardinality(Refs(m, p)) \in Nat
      BY RefsFinite, FS_EmptySet
    <3> QED
      BY <1>5, <3>1
  <2> QED
    BY <1>2, <2>2, <2>3
<1>11. /\ \A x \in Env \ {e} : n.pde[x] = m.pde[x] /\ n.pte[x] = m.pte[x]
       /\ \A va \in VA : n.pte[e][va] = Unmapped
  BY <1>1, <1>2 DEF Memories
<1> QED
  BY <1>2, <1>3, <1>6, <1>7, <1>8, <1>9, <1>10, <1>11 DEF Sound, n
=============================================================================
