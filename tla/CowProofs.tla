------------------------------ MODULE CowProofs -----------------------------
(***************************************************************************)
(* That fork keeps memories apart: what is shared is read-only, and Cow    *)
(* implements PrivateMemory, for any pages, environments, programs and     *)
(* forks, and however little memory there is.                              *)
(***************************************************************************)
EXTENDS Cow, PageTablesProofs, SequenceTheorems

-----------------------------------------------------------------------------
(* The inductive invariant                                                 *)

\* An environment that executes, or has stopped in the middle of its program
Begun(e) == status[e] \in {"RUNNABLE", "PANIC"}

\* In the loop over the pages, steps at a page and steps behind the last one
AtPage == {"child", "self", "alloc", "map", "copy", "unmap"}
Behind == {"uxstack", "upcall", "start"}

\* Who is in a fork or in a fault executes; who has a child is at a step where it
\* has one, the child has not started, and it is nobody else's.
FrameOf(e) ==
  /\ ~Begun(e) => frame[e] = NoFrame /\ fault[e] = NoFault
  /\ frame[e].step = "user" => frame[e] = NoFrame
  /\ Child(e) # None =>
       /\ status[Child(e)] = "NOT_RUNNABLE"
       /\ frame[e].step \in {"read"} \cup AtPage \cup Behind
       /\ \A x \in Env \ {e} : Child(x) # Child(e)
  /\ Child(e) = None =>
       \/ frame[e].step \in {"user", "handler", "exofork"}
       \/ frame[e].step = "start" /\ frame[e].kind = "fork" /\ ~upcall[e]

\* Which step belongs to which kind of fork, and to which pages
KindOf(e) ==
  /\ frame[e].step # "user" => frame[e].kind \in kinds
  /\ frame[e].step \in {"handler", "self", "uxstack", "upcall"} => frame[e].kind = "fork"
  /\ frame[e].step \in {"alloc", "map", "copy", "unmap"} =>
       frame[e].kind \in {"fork_v0", "dumbfork"}
  /\ frame[e].step = "child" => frame[e].kind \in {"fork", "fork_v0"}
  /\ frame[e].step = "read" => frame[e].i \in 1 .. Len(Order) + 1
  /\ frame[e].step \in AtPage =>
       frame[e].i \in DOMAIN Order /\ At(e) \in Addr /\ Mapped(mem, e, At(e))
  /\ frame[e].step \in Behind => frame[e].i = Len(Order) + 1
  /\ pgfault_handler[e] => "fork" \in kinds

\* The page table of va is there.
HasTable(e, va) == mem.pde[e][TableOf[va]] # None

\* Where an environment may have pages, and with which permissions
SpaceOf(e) ==
  /\ status[e] \in {"FREE", "KILLED"} =>
       mem.pgdir[e] = None /\ \A va \in VA : ~Mapped(mem, e, va)
  /\ Begun(e) => Mapped(mem, e, Stack)
  /\ \A va \in VA : Mapped(mem, e, va) => HasTable(e, va)
  /\ Mapped(mem, e, Pftemp) => fault[e].step \in {"copy", "map", "unmap"}
  /\ Mapped(mem, e, Utemp) => frame[e].step \in {"copy", "unmap"}
  /\ Mapped(mem, e, UxStack) => PermOf(e, UxStack) = "w" /\ "fork" \in kinds
  /\ \A a \in Data \cup {Stack} : Mapped(mem, e, a) => PermOf(e, a) # "r"
  /\ \A va \in VA : PermOf(e, va) = "cow" => "fork" \in kinds

\* An environment that can take a page fault
Ready(e) == upcall[e] /\ PermOf(e, UxStack) = "w"

\* pgfault: where the page is mapped and what it holds
FaultOf(e) ==
  /\ fault[e].step = "none" => fault[e] = NoFault
  /\ fault[e] # NoFault =>
       /\ fault[e].va \in Data \cup {Stack} /\ Mapped(mem, e, fault[e].va)
       /\ fault[e].val \in Value
       /\ frame[e].step # "user" => fault[e].va = Stack
       /\ Ready(e)
  /\ fault[e].step \in {"copy", "map", "unmap"} => PermOf(e, Pftemp) = "w"
  /\ fault[e].step = "map" => content[PageOf(e, Pftemp)] = content[PageOf(e, fault[e].va)]
  /\ fault[e].step = "unmap" => PageOf(e, Pftemp) = PageOf(e, fault[e].va)

\* The page at va of a child while its parent e fills it
Temp(e, va, x, b) ==
  frame[e].step \in {"copy", "unmap"} /\ Child(e) = x /\ va = Utemp /\ b = At(e)

\* Why two places have the same page: it is shared since a fork, at the same address
\* and read-only; or it is being filled or replaced.
MayShare(e, a, x, b) ==
  \/ /\ e # x /\ a = b /\ a \in Addr
     /\ PermOf(e, a) = "w" => frame[e].step = "self" /\ Child(e) = x /\ At(e) = a
  \/ e # x /\ (Temp(e, a, x, b) \/ Temp(x, b, e, a))
  \/ e = x /\ fault[e].step = "unmap"
     /\ ((a = fault[e].va /\ b = Pftemp) \/ (a = Pftemp /\ b = fault[e].va))

ShareOf(e, a, x, b) ==
  (e # x \/ a # b) /\ Mapped(mem, e, a) /\ PageOf(x, b) = PageOf(e, a)
  => MayShare(e, a, x, b)

\* c has at a what e has there, but for the stack: whatever is left of it
Same(e, c, a) ==
  /\ Mapped(mem, c, a) <=> Mapped(mem, e, a)
  /\ a # Stack /\ Mapped(mem, e, a) => content[PageOf(c, a)] = content[PageOf(e, a)]

\* How far the loop is: the pages before At(e) are done, those behind it are not.
CopyOf(e) ==
  Child(e) # None =>
    /\ \A j \in DOMAIN Order : Order[j] \in Addr =>
         /\ j < frame[e].i => Same(e, Child(e), Order[j])
         /\ j > frame[e].i => ~Mapped(mem, Child(e), Order[j])
         /\ j = frame[e].i /\ frame[e].step \in {"read", "child", "alloc"} =>
              ~Mapped(mem, Child(e), Order[j])
    /\ frame[e].step = "child" =>
         IF frame[e].kind = "fork_v0" THEN PermOf(e, At(e)) = "r"
         ELSE IF At(e) = Stack THEN frame[e].pte # "r"
         ELSE frame[e].pte = PermOf(e, At(e))
    /\ frame[e].step \in {"self", "unmap"} => Same(e, Child(e), At(e))
    /\ frame[e].step \in {"map", "copy", "unmap"} => PermOf(Child(e), At(e)) = "w"
    /\ frame[e].step \in {"copy", "unmap"} =>
         PermOf(e, Utemp) = "w" /\ PageOf(e, Utemp) = PageOf(Child(e), At(e))
    /\ frame[e].kind = "fork" /\ frame[e].step \in {"upcall", "start"} =>
         PermOf(Child(e), UxStack) = "w"
    /\ frame[e].kind = "fork" /\ frame[e].step = "start" => upcall[Child(e)]

\* While nothing was refused: whoever may meet a copy-on-write page is ready for it.
Calm == ~refused /\ ("fork" \in kinds => kinds = {"fork"})
CalmOf(e) ==
  /\ status[e] \notin {"KILLED", "PANIC"}
  /\ status[e] = "RUNNABLE" =>
       /\ pgfault_handler[e] => Ready(e)
       /\ frame[e].kind = "fork" /\ frame[e].step # "handler" => Ready(e)
       /\ \A a \in Addr : PermOf(e, a) = "cow" => Ready(e)

FrameInv == \A e \in Env : FrameOf(e)
KindInv == \A e \in Env : KindOf(e)
SpaceInv == \A e \in Env : SpaceOf(e)
FaultInv == \A e \in Env : FaultOf(e)
ShareInv == \A e, x \in Env, a, b \in VA : ShareOf(e, a, x, b)
CopyInv == \A e \in Env : CopyOf(e)
CalmInv == Calm => \A e \in Env : CalmOf(e)

CowInv == /\ TypeOK /\ Sound(mem) /\ FrameInv /\ KindInv /\ SpaceInv /\ FaultInv
          /\ ShareInv /\ CopyInv /\ CalmInv

-----------------------------------------------------------------------------
(* System calls                                                            *)

\* What a change of one entry of x leaves as it was; tables are never taken away.
Touches(m, n, x, va) ==
  /\ Sound(n) /\ n.pgdir = m.pgdir
  /\ \A y \in Env, t \in Table : m.pde[y][t] # None => n.pde[y][t] # None
  /\ \A y \in Env, b \in VA : y # x \/ b # va => n.pte[y][b] = m.pte[y][b]

LEMMA PickFree ==
  ASSUME NEW m \in Memories
  PROVE  /\ m.free = {} => Pick(m) = None
         /\ m.free # {} => Pick(m) \in m.free /\ Pick(m) \in Page /\ Pick(m) # None
         /\ Pick(m) \in FreePages(m)
<1>1. m.free \subseteq Page
  BY MemoryParts
<1> QED
  BY <1>1, PageAssumption DEF Pick, FreePages

LEMMA EntryReplaced ==
  ASSUME NEW m \in Memories, NEW x \in Env, NEW va \in VA, NEW new
  PROVE  LET pte == [m.pte EXCEPT ![x][va] = new]
         IN  /\ pte[x][va] = new
             /\ \A y \in Env, b \in VA : y # x \/ b # va => pte[y][b] = m.pte[y][b]
<1>1. m.pte \in [Env -> [VA -> Mapping \cup {Unmapped}]]
  BY MemoryParts
<1> QED
  BY <1>1

\* page_insert of a page that may be mapped, with a page for a table if there is one
LEMMA Inserted ==
  ASSUME NEW m, Sound(m), NEW x \in Env, NEW va \in VA, NEW p, NEW perm \in Perm,
         Mappable(m, p), Inserts(m, x, va, Pick(m))
  PROVE  LET n == PageInsert(m, x, p, va, perm, Pick(m))
         IN  /\ Touches(m, n, x, va)
             /\ n.pte[x][va] = [page |-> p, perm |-> perm]
             /\ n.pde[x][TableOf[va]] # None
<1> DEFINE n == PageInsert(m, x, p, va, perm, Pick(m))
           new == [page |-> p, perm |-> perm]
<1>1. m \in Memories /\ Pick(m) \in FreePages(m) \cup {None}
  BY PickFree DEF Sound
<1>2. /\ Sound(n) /\ n.pgdir = m.pgdir
      /\ \A y \in Env \ {x} : n.pde[y] = m.pde[y]
      /\ \A s \in Table : m.pde[x][s] # None => n.pde[x][s] # None
      /\ n.pde[x][TableOf[va]] # None
      /\ n.pte = [m.pte EXCEPT ![x][va] = new]
  BY <1>1, PageInsertSound
<1> HIDE DEF n, new
<1>3. /\ n.pte[x][va] = new
      /\ \A y \in Env, b \in VA : y # x \/ b # va => n.pte[y][b] = m.pte[y][b]
  <2>1. m.pte \in [Env -> [VA -> Mapping \cup {Unmapped}]]
    BY <1>1, MemoryParts
  <2> QED
    BY <1>2, <2>1
<1> QED
  BY <1>2, <1>3 DEF Touches, n, new

\* sys_page_alloc: a fresh page is mapped, or nothing is
LEMMA AllocEffect ==
  ASSUME Sound(mem), NEW x \in Env, NEW va \in VA
  PROVE  LET n == Alloc(x, va)
         IN  /\ Touches(mem, n, x, va)
             /\ IF AllocFails(x, va) THEN n.pte = mem.pte
                ELSE /\ Pick(mem) \in Page /\ Refs(mem, Pick(mem)) = {}
                     /\ n.pte[x][va] = [page |-> Pick(mem), perm |-> "w"]
                     /\ n.pde[x][TableOf[va]] # None
<1> DEFINE n == Alloc(x, va)
           p == Pick(mem)
           taken == PageAlloc(mem, p)
<1>1. mem \in Memories
  BY DEF Sound
<1>2. CASE mem.free = {}
  <2>1. n = mem
    BY <1>1, <1>2, PickFree DEF Alloc
  <2> QED
    BY <1>2, <2>1 DEF Touches, AllocFails
<1>3. CASE mem.free # {}
  <2>1. p \in mem.free /\ p \in Page /\ p # None
    BY <1>1, <1>3, PickFree
  <2>2. /\ Sound(taken) /\ Mappable(taken, p)
        /\ Refs(mem, p) = {}
    BY <2>1, PageAllocSound DEF Sound, FreeUnused
  <2>3. /\ taken.pgdir = mem.pgdir /\ taken.pde = mem.pde /\ taken.pte = mem.pte
        /\ taken.free = mem.free \ {p} /\ taken \in Memories
    BY <1>1, <2>2 DEF PageAlloc, Memories, Sound
  <2>4. n = PageInsert(taken, x, p, va, "w", Pick(taken))
    BY <2>1 DEF Alloc
  <2> HIDE DEF n, taken, p
  <2>5. Inserts(taken, x, va, Pick(taken)) <=> ~AllocFails(x, va)
    <3>1. Pick(taken) = None <=> mem.free = {p}
      BY <2>1, <2>3, PickFree
    <3> QED
      BY <1>3, <2>3, <3>1 DEF Inserts, AllocFails, p
  <2>6. CASE ~AllocFails(x, va)
    <3>1. "w" \in Perm
      BY PermAssumption
    <3>2. Inserts(taken, x, va, Pick(taken))
      BY <2>5, <2>6
    <3>3. /\ Touches(taken, n, x, va)
          /\ n.pte[x][va] = [page |-> p, perm |-> "w"]
          /\ n.pde[x][TableOf[va]] # None
      BY <2>2, <2>4, <3>1, <3>2, Inserted
    <3> QED
      BY <2>1, <2>2, <2>3, <2>6, <3>3 DEF Touches, n, p
  <2>7. CASE AllocFails(x, va)
    <3>1. n = taken
      BY <2>4, <2>5, <2>7 DEF PageInsert
    <3> QED
      BY <2>2, <2>3, <2>7, <3>1 DEF Touches, n, p
  <2> QED
    BY <2>6, <2>7
<1> QED
  BY <1>2, <1>3

\* sys_page_map: the page is mapped, or nothing is
LEMMA MapEffect ==
  ASSUME Sound(mem), NEW src \in Env, NEW srcva \in VA, NEW x \in Env, NEW va \in VA,
         NEW perm \in Perm
  PROVE  LET n == Map(src, srcva, x, va, perm)
         IN  /\ Touches(mem, n, x, va)
             /\ IF ~Maps(src, srcva, x, va, perm) THEN n = mem
                ELSE /\ n.pte[x][va] = [page |-> PageOf(src, srcva), perm |-> perm]
                     /\ n.pde[x][TableOf[va]] # None
<1> DEFINE n == Map(src, srcva, x, va, perm)
<1>1. CASE ~Maps(src, srcva, x, va, perm)
  BY <1>1 DEF Map, Touches
<1>2. CASE Maps(src, srcva, x, va, perm)
  <2>1. Mappable(mem, PageOf(src, srcva))
    BY <1>2, MappedIsMappable DEF Maps, PageOf
  <2>2. n = PageInsert(mem, x, PageOf(src, srcva), va, perm, Pick(mem))
    BY <1>2 DEF Map
  <2> QED
    BY <1>2, <2>1, <2>2, Inserted DEF Maps
<1> QED
  BY <1>1, <1>2

LEMMA RemoveEffect ==
  ASSUME Sound(mem), NEW x \in Env, NEW va \in VA
  PROVE  LET n == PageRemove(mem, x, va)
         IN  Touches(mem, n, x, va) /\ n.pte[x][va] = Unmapped
<1> DEFINE n == PageRemove(mem, x, va)
<1>1. Sound(n) /\ n.pgdir = mem.pgdir /\ n.pde = mem.pde
      /\ n.pte = [mem.pte EXCEPT ![x][va] = Unmapped]
  BY PageRemoveSound
<1> HIDE DEF n
<1>2. /\ n.pte[x][va] = Unmapped
      /\ \A y \in Env, b \in VA : y # x \/ b # va => n.pte[y][b] = mem.pte[y][b]
  BY <1>1, EntryReplaced DEF Sound
<1> QED
  BY <1>1, <1>2 DEF Touches, n

\* The page at va of x, and what a page is that nobody refers to
LEMMA FreshPage ==
  ASSUME Sound(mem), NEW p \in Page, Refs(mem, p) = {}
  PROVE  \A y \in Env, b \in VA : PageOf(y, b) # p
<1> SUFFICES ASSUME NEW y \in Env, NEW b \in VA, PageOf(y, b) = p
             PROVE  FALSE
  OBVIOUS
<1>1. <<y, b>> \in Place /\ Held(mem, <<y, b>>) = p
  BY HeldAt DEF Place, PageOf
<1> QED
  BY <1>1 DEF Refs

-----------------------------------------------------------------------------
(* Entries: a step changes at most one                                     *)

\* What an entry may be
LEMMA EntryOf ==
  ASSUME NEW m, Sound(m), NEW e \in Env, NEW va \in VA
  PROVE  /\ Mapped(m, e, va) => m.pte[e][va].page \in Page
         /\ Mapped(m, e, va) <=> m.pte[e][va].page # None
         /\ ~Mapped(m, e, va) => m.pte[e][va].perm = "r"
         /\ m.pte[e][va].perm \in {"r", "w", "cow"}
<1>1. m.pte[e][va] \in Mapping \cup {Unmapped}
  BY MemoryParts DEF Sound
<1>2. CASE m.pte[e][va] = Unmapped
  BY <1>2 DEF Mapped, Unmapped
<1>3. CASE m.pte[e][va] \in Mapping
  BY <1>3, PageAssumption, PermAssumption DEF Mapped, Unmapped, Mapping
<1> QED
  BY <1>1, <1>2, <1>3

LEMMA EntryKinds ==
  ASSUME Sound(mem), NEW e \in Env, NEW va \in VA
  PROVE  /\ Mapped(mem, e, va) => PageOf(e, va) \in Page
         /\ Mapped(mem, e, va) <=> PageOf(e, va) # None
         /\ ~Mapped(mem, e, va) => PermOf(e, va) = "r"
         /\ PermOf(e, va) \in {"r", "w", "cow"}
BY EntryOf DEF PageOf, PermOf

LEMMA EntriesAgree ==
  ASSUME Sound(mem)'
  PROVE  \A y \in Env, b \in VA : Mapped(mem', y, b) <=> PageOf(y, b)' # None
BY EntryOf DEF PageOf

Kept(y, b) ==
  /\ Mapped(mem', y, b) <=> Mapped(mem, y, b)
  /\ PageOf(y, b)' = PageOf(y, b)
  /\ PermOf(y, b)' = PermOf(y, b)

\* Nothing but the entry of va in x has changed, and no table is gone.
Elsewhere(x, va) ==
  /\ Sound(mem)' /\ mem'.pgdir = mem.pgdir
  /\ \A y \in Env, b \in VA : HasTable(y, b) => HasTable(y, b)'
  /\ \A y \in Env, b \in VA : y # x \/ b # va => Kept(y, b)

SetsEntry(x, va, p, perm) ==
  /\ Elsewhere(x, va)
  /\ Mapped(mem', x, va) /\ PageOf(x, va)' = p /\ PermOf(x, va)' = perm
  /\ HasTable(x, va)'

ClearsEntry(x, va) ==
  /\ Elsewhere(x, va)
  /\ ~Mapped(mem', x, va) /\ PageOf(x, va)' = None /\ PermOf(x, va)' = "r"

KeepsEntries ==
  /\ Sound(mem)' /\ mem'.pgdir = mem.pgdir
  /\ \A y \in Env, b \in VA : HasTable(y, b) => HasTable(y, b)'
  /\ \A y \in Env, b \in VA : Kept(y, b)

LEMMA TouchesElsewhere ==
  ASSUME NEW x \in Env, NEW va \in VA, Touches(mem, mem', x, va)
  PROVE  Elsewhere(x, va)
<1>1. \A b \in VA : TableOf[b] \in Table
  BY SpaceAssumption
<1> QED
  BY <1>1 DEF Touches, Elsewhere, Kept, Mapped, PageOf, PermOf, HasTable

LEMMA AllocSets ==
  ASSUME Sound(mem), NEW x \in Env, NEW va \in VA, mem' = Alloc(x, va), ~AllocFails(x, va)
  PROVE  /\ SetsEntry(x, va, Pick(mem), "w")
         /\ Pick(mem) \in Page /\ Pick(mem) # None
         /\ \A y \in Env, b \in VA : PageOf(y, b) # Pick(mem)
<1>1. /\ Touches(mem, mem', x, va)
      /\ Pick(mem) \in Page /\ Refs(mem, Pick(mem)) = {}
      /\ mem'.pte[x][va] = [page |-> Pick(mem), perm |-> "w"]
      /\ mem'.pde[x][TableOf[va]] # None
  BY AllocEffect
<1>2. Elsewhere(x, va) /\ Pick(mem) # None
  BY <1>1, TouchesElsewhere, PageAssumption
<1>3. \A y \in Env, b \in VA : PageOf(y, b) # Pick(mem)
  BY <1>1, FreshPage
<1> QED
  BY <1>1, <1>2, <1>3 DEF SetsEntry, Mapped, Unmapped, PageOf, PermOf, HasTable

\* Also where there is no page: the one that is taken for nothing is nobody's.
LEMMA AllocZeroes ==
  ASSUME Sound(mem), content \in [Page -> Value], content' = Zeroed
  PROVE  /\ content' \in [Page -> Value]
         /\ \A q \in Page \ {Pick(mem)} : content'[q] = content[q]
         /\ \A y \in Env, b \in VA : Mapped(mem, y, b) =>
              content'[PageOf(y, b)] = content[PageOf(y, b)]
<1>1. CASE Pick(mem) = None
  BY <1>1 DEF Zeroed
<1>2. CASE Pick(mem) # None
  <2>1. Pick(mem) \in mem.free /\ Pick(mem) \in Page
    BY <1>2, PickFree DEF Sound
  <2>2. \A y \in Env, b \in VA : PageOf(y, b) # Pick(mem)
    BY <2>1, FreshPage DEF Sound, FreeUnused
  <2>3. content' = [content EXCEPT ![Pick(mem)] = Zero] /\ Zero \in Value
    BY <1>2, ValueAssumption DEF Zeroed, Zero
  <2> QED
    BY <2>1, <2>2, <2>3, EntryKinds
<1> QED
  BY <1>1, <1>2

LEMMA AllocKeeps ==
  ASSUME Sound(mem), NEW x \in Env, NEW va \in VA, mem' = Alloc(x, va), AllocFails(x, va)
  PROVE  KeepsEntries
<1>1. Touches(mem, mem', x, va) /\ mem'.pte = mem.pte
  BY AllocEffect
<1>2. Elsewhere(x, va)
  BY <1>1, TouchesElsewhere
<1> QED
  BY <1>1, <1>2 DEF KeepsEntries, Elsewhere, Kept, Mapped, PageOf, PermOf

LEMMA MapSets ==
  ASSUME Sound(mem), NEW src \in Env, NEW srcva \in VA, NEW x \in Env, NEW va \in VA,
         NEW perm \in Perm, mem' = Map(src, srcva, x, va, perm),
         Maps(src, srcva, x, va, perm)
  PROVE  SetsEntry(x, va, PageOf(src, srcva), perm)
<1>1. /\ Touches(mem, mem', x, va)
      /\ mem'.pte[x][va] = [page |-> PageOf(src, srcva), perm |-> perm]
      /\ mem'.pde[x][TableOf[va]] # None
  BY MapEffect
<1>2. Elsewhere(x, va) /\ PageOf(src, srcva) # None
  BY <1>1, TouchesElsewhere, EntryKinds DEF Maps
<1> QED
  BY <1>1, <1>2 DEF SetsEntry, Mapped, Unmapped, PageOf, PermOf, HasTable

LEMMA RemoveClears ==
  ASSUME Sound(mem), NEW x \in Env, NEW va \in VA, mem' = PageRemove(mem, x, va)
  PROVE  ClearsEntry(x, va)
<1>1. Touches(mem, mem', x, va) /\ mem'.pte[x][va] = Unmapped
  BY RemoveEffect
<1> QED
  BY <1>1, TouchesElsewhere DEF ClearsEntry, Mapped, Unmapped, PageOf, PermOf

-----------------------------------------------------------------------------
(* Environments that a step does not concern                               *)

\* y is where it was, with the entries it had.
Quiet(y) ==
  /\ frame'[y] = frame[y] /\ fault'[y] = fault[y] /\ status'[y] = status[y]
  /\ upcall'[y] = upcall[y] /\ pgfault_handler'[y] = pgfault_handler[y]
  /\ mem'.pgdir[y] = mem.pgdir[y]
  /\ \A b \in VA : Kept(y, b) /\ (HasTable(y, b) => HasTable(y, b)')

\* y finds at va what it found there.
Finds(y, va) == Mapped(mem, y, va) => content'[PageOf(y, va)] = content[PageOf(y, va)]

LEMMA QuietKind ==
  ASSUME NEW y \in Env, KindOf(y), Quiet(y), kinds' = kinds
  PROVE  KindOf(y)'
BY LayoutAssumption DEF KindOf, Quiet, Kept, At, Addr

LEMMA QuietSpace ==
  ASSUME NEW y \in Env, SpaceOf(y), Quiet(y), kinds' = kinds
  PROVE  SpaceOf(y)'
BY LayoutAssumption DEF SpaceOf, Quiet, Kept, Begun

LEMMA QuietFault ==
  ASSUME NEW y \in Env, FaultOf(y), fault[y] \in Faults, Quiet(y),
         fault[y].step = "map" => /\ Mapped(mem, y, Pftemp)
                                  /\ Finds(y, Pftemp) /\ Finds(y, fault[y].va)
  PROVE  FaultOf(y)'
BY LayoutAssumption DEF FaultOf, Quiet, Kept, Ready, NoFault, Finds, Faults

LEMMA QuietCopy ==
  ASSUME NEW y \in Env, CopyOf(y), KindOf(y), Quiet(y), Child(y) \in Env => Quiet(Child(y)),
         Child(y) \in Env \cup {None},
         \A b \in Addr \ {Stack} :
           Child(y) \in Env => Finds(y, b) /\ Finds(Child(y), b)
  PROVE  CopyOf(y)'
BY LayoutAssumption DEF CopyOf, KindOf, AtPage, Quiet, Kept, Child, At, Addr, Same, Finds

LEMMA QuietCalm ==
  ASSUME NEW y \in Env, CalmOf(y), Quiet(y)
  PROVE  CalmOf(y)'
BY LayoutAssumption DEF CalmOf, Quiet, Kept, Ready, Addr

\* A step of e that concerns nobody but e and c, a child of e that has not started;
\* there is none when c = e.
Concerns(e, c) ==
  /\ status[e] = "RUNNABLE" /\ kinds' = kinds
  /\ c # e => /\ c = Child(e) \/ status[c] \in {"FREE", "KILLED"}
              /\ frame'[c] = NoFrame /\ fault'[c] = NoFault
              /\ pgfault_handler'[c] => "fork" \in kinds
  /\ \A y \in Env \ {e, c} : Quiet(y) /\ \A b \in VA : Finds(y, b)

LEMMA NobodysChild ==
  ASSUME CowInv, NEW e \in Env, NEW c \in Env, Concerns(e, c), NEW y \in Env \ {e}
  PROVE  /\ Child(y) \notin {e, c}
         /\ Child(y) \in Env \cup {None}
<1>1. /\ frame[y] \in Frames /\ Child(y) \in Env \cup {None}
      /\ FrameOf(y) /\ FrameOf(e)
  BY DEF CowInv, TypeOK, FrameInv, Frames, Child
<1>2. Child(y) # None => status[Child(y)] = "NOT_RUNNABLE"
  BY <1>1 DEF FrameOf
<1>3. c # e /\ c = Child(e) => Child(y) # c
  BY <1>1, SpaceAssumption DEF FrameOf
<1> QED
  BY <1>1, <1>2, <1>3, SpaceAssumption DEF Concerns

LEMMA OthersKeep ==
  ASSUME CowInv, NEW e \in Env, NEW c \in Env, Concerns(e, c), NEW y \in Env \ {e}
  PROVE  /\ KindOf(y)' /\ FaultOf(y)' /\ CopyOf(y)'
         /\ y # c => SpaceOf(y)' /\ (CalmOf(y) => CalmOf(y)')
<1>1. CASE y = c
  <2>1. /\ frame'[y] = NoFrame /\ fault'[y] = NoFault /\ kinds' = kinds
        /\ pgfault_handler'[y] => "fork" \in kinds
    BY <1>1 DEF Concerns
  <2> QED
    BY <1>1, <2>1 DEF KindOf, FaultOf, CopyOf, NoFrame, FrameAt, NoFault, AtPage, Behind, Child
<1>2. CASE y # c
  <2>1. Quiet(y) /\ kinds' = kinds /\ \A b \in VA : Finds(y, b)
    BY <1>2 DEF Concerns
  <2>2. KindOf(y) /\ SpaceOf(y) /\ FaultOf(y) /\ CopyOf(y) /\ fault[y] \in Faults
    BY DEF CowInv, KindInv, SpaceInv, FaultInv, CopyInv, TypeOK
  <2>3. fault[y].step = "map" => Mapped(mem, y, Pftemp) /\ fault[y].va \in VA /\ Pftemp \in VA
    BY <2>2, EntryKinds, LayoutAssumption DEF FaultOf, CowInv, NoFault
  <2>4. Child(y) \notin {e, c} /\ Child(y) \in Env \cup {None}
    BY NobodysChild
  <2>5. Child(y) \in Env => Quiet(Child(y)) /\ \A b \in VA : Finds(Child(y), b)
    BY <2>4 DEF Concerns
  <2>6. Addr \subseteq VA
    BY LayoutAssumption DEF Addr
  <2> QED
    BY <1>2, <2>1, <2>2, <2>3, <2>4, <2>5, <2>6, QuietKind, QuietSpace, QuietFault, QuietCopy, QuietCalm
<1> QED
  BY <1>1, <1>2

\* What is left to show of a step
LEMMA StepKeeps ==
  ASSUME CowInv, NEW e \in Env, NEW c \in Env, Concerns(e, c),
         TypeOK', Sound(mem)', FrameInv', ShareInv',
         KindOf(e)', FaultOf(e)', CopyOf(e)', SpaceOf(e)', SpaceOf(c)',
         Calm' => Calm /\ CalmOf(e)' /\ CalmOf(c)'
  PROVE  CowInv'
<1>1. KindInv' /\ FaultInv' /\ CopyInv'
  BY OthersKeep DEF KindInv, FaultInv, CopyInv
<1>2. SpaceInv'
  BY OthersKeep DEF SpaceInv
<1>3. CalmInv'
  BY OthersKeep DEF CalmInv, CowInv
<1> QED
  BY <1>1, <1>2, <1>3 DEF CowInv

\* What a step does to PrivateMemory, besides keeping the invariant
Implements == CowInv' /\ (P!Next \/ View' = View)

\* A process finds a value, or no page, at each of its addresses; it has a memory.
LEMMA ViewOf ==
  ASSUME Sound(mem), content \in [Page -> Value], NEW e \in Live
  PROVE  /\ View[e] \in [Addr -> Value \cup {None}] /\ View[e] # None
         /\ \A a \in Addr : Mapped(mem, e, a) => View[e][a] # None
<1>1. e \in Env /\ Addr \subseteq VA
  BY LayoutAssumption DEF Live, Addr
<1>2. View[e] = [a \in Addr |-> IF Mapped(mem, e, a) THEN content[PageOf(e, a)] ELSE None]
  BY <1>1 DEF View
<1>3. \A a \in Addr : Mapped(mem, e, a) => content[PageOf(e, a)] \in Value
  BY <1>1, EntryKinds
<1>4. View[e] \in [Addr -> Value \cup {None}]
  BY <1>2, <1>3
<1> QED
  BY <1>2, <1>3, <1>4, ValueAssumption

LEMMA SameView ==
  ASSUME NEW y \in Env, Quiet(y), \A a \in VA : Finds(y, a)
  PROVE  View'[y] = View[y]
<1>1. Addr \subseteq VA
  BY LayoutAssumption DEF Addr
<1>2. y \in Live' <=> y \in Live
  BY DEF Quiet, Live
<1>3. \A a \in Addr :
        (IF Mapped(mem', y, a) THEN content'[PageOf(y, a)'] ELSE None)
        = (IF Mapped(mem, y, a) THEN content[PageOf(y, a)] ELSE None)
  BY <1>1 DEF Quiet, Kept, Finds
<1> QED
  BY <1>2, <1>3 DEF View

\* e goes on, finds in its memory what it found there, and c does not run.
Unseen(e, c) ==
  /\ Begun(e)'
  /\ c # e => status'[c] \notin {"RUNNABLE", "PANIC"}
  /\ \A a \in Addr :
       /\ Mapped(mem', e, a) <=> Mapped(mem, e, a)
       /\ Mapped(mem, e, a) => content'[PageOf(e, a)'] = content[PageOf(e, a)]

LEMMA StutterKeeps ==
  ASSUME CowInv, NEW e \in Env, NEW c \in Env, Concerns(e, c), Unseen(e, c),
         TypeOK', Sound(mem)', FrameInv', ShareInv',
         KindOf(e)', FaultOf(e)', CopyOf(e)', SpaceOf(e)', SpaceOf(c)',
         Calm' => Calm /\ CalmOf(e)' /\ CalmOf(c)'
  PROVE  Implements
<1>1. CowInv'
  BY StepKeeps
<1>2. Addr \subseteq VA
  BY LayoutAssumption DEF Addr
<1>3. c # e => c \notin Live
  <2>1. FrameOf(e) /\ Child(e) # e /\ c # None
    BY SpaceAssumption DEF CowInv, FrameInv, FrameOf, Concerns
  <2> QED
    BY <2>1 DEF Concerns, FrameOf, Live
<1>4. \A y \in Env : y \in Live' <=> y \in Live
  BY <1>3 DEF Live, Unseen, Concerns, Begun, Quiet
<1>5. \A y \in Env \ {e} : View'[y] = View[y]
  <2> SUFFICES ASSUME NEW y \in Env \ {e}
               PROVE  View'[y] = View[y]
    OBVIOUS
  <2>1. CASE y = c
    BY <1>3, <1>4, <2>1 DEF View
  <2>2. CASE y # c
    BY <2>2, SameView DEF Concerns
  <2> QED
    BY <2>1, <2>2
<1>6. View'[e] = View[e]
  BY <1>4 DEF View, Unseen
<1>7. View' = View
  BY <1>5, <1>6 DEF View
<1> QED
  BY <1>1, <1>7 DEF Implements

-----------------------------------------------------------------------------
(* Steps                                                                   *)

LEMMA PgfaultAllocKeeps ==
  ASSUME CowInv, NEW e \in Env, PgfaultAlloc(e), ~AllocFails(e, Pftemp)
  PROVE  Implements
<1> DEFINE p == Pick(mem)
<1>1. /\ status' = status /\ upcall' = upcall /\ frame' = frame
      /\ pgfault_handler' = pgfault_handler /\ kinds' = kinds /\ refused' = refused
      /\ fault' = [fault EXCEPT ![e].step = "copy"]
      /\ status[e] = "RUNNABLE" /\ fault[e].step = "alloc"
      /\ UNCHANGED forks
  BY DEF PgfaultAlloc, SysPageAlloc, FaultStep, FaultAt, library
<1>2. /\ \A y \in Env \ {e} : fault'[y] = fault[y]
      /\ fault'[e] = [step |-> "copy", va |-> fault[e].va, val |-> fault[e].val]
      /\ fault' \in [Env -> Faults] /\ fault \in [Env -> Faults]
  BY <1>1 DEF CowInv, TypeOK, Faults
<1>3. Pftemp \in VA /\ mem' = Alloc(e, Pftemp) /\ content' = Zeroed
  BY LayoutAssumption DEF PgfaultAlloc, SysPageAlloc
<1>4. /\ SetsEntry(e, Pftemp, p, "w")
      /\ p \in Page /\ p # None
      /\ \A y \in Env, b \in VA : PageOf(y, b) # p
  BY <1>3, AllocSets DEF CowInv
<1>5. /\ content' \in [Page -> Value]
      /\ \A y \in Env, b \in VA : Finds(y, b)
  BY <1>3, AllocZeroes DEF CowInv, TypeOK, Finds
<1> HIDE DEF p
<1>6. Concerns(e, e)
  BY <1>1, <1>2, <1>4, <1>5 DEF Concerns, Quiet, SetsEntry, Elsewhere
<1>7. TypeOK'
  BY <1>1, <1>2, <1>4, <1>5 DEF TypeOK, CowInv, Elsewhere, SetsEntry, Sound
<1>8. FrameInv'
  BY <1>1, <1>2 DEF FrameInv, FrameOf, CowInv, Begun, Child, NoFault
<1>9. KindOf(e)'
  BY <1>1, <1>4, LayoutAssumption DEF KindInv, KindOf, CowInv, At, Elsewhere, SetsEntry, Kept, Addr
<1>10. SpaceOf(e)'
  BY <1>1, <1>2, <1>3, <1>4, LayoutAssumption DEF SpaceInv, SpaceOf, CowInv, Begun, Elsewhere, SetsEntry, Kept
<1>11. FaultOf(e)'
  BY <1>1, <1>2, <1>3, <1>4, LayoutAssumption DEF FaultInv, FaultOf, CowInv, Ready, Elsewhere, SetsEntry, Kept, NoFault
<1>12. ShareInv'
  BY <1>1, <1>2, <1>3, <1>4, LayoutAssumption DEF ShareInv, ShareOf, MayShare, Temp, CowInv, Elsewhere, SetsEntry, Kept, Child, At, Addr
<1>13. CopyOf(e)'
  <2>1. Child(e) # None => Child(e) \in Env /\ Child(e) # e
    BY <1>1 DEF CowInv, FrameInv, FrameOf, TypeOK, Frames, Child
  <2> QED
    BY <1>1, <1>4, <1>5, <2>1, LayoutAssumption DEF CopyInv, CopyOf, KindInv, KindOf, AtPage, Same, Finds, CowInv, Elsewhere, SetsEntry, Kept, Child, At, Addr
<1>14. Calm' => Calm /\ CalmOf(e)'
  BY <1>1, <1>3, <1>4, LayoutAssumption DEF CalmInv, CalmOf, Calm, Ready, CowInv, Elsewhere, SetsEntry, Kept, Child, At, Addr
<1>15. Unseen(e, e)
  BY <1>1, <1>4, <1>5, LayoutAssumption DEF Unseen, Begun, Finds, Addr, SetsEntry, Elsewhere, Kept
<1> QED
  BY <1>4, <1>6, <1>7, <1>8, <1>9, <1>10, <1>11, <1>12, <1>13, <1>14, <1>15, StutterKeeps DEF SetsEntry, Elsewhere

\* A page that a running e may write in is nobody else's but for the stack of its
\* child, between the calls of duppage; nor is it e's own elsewhere, but for pgfault.
LEMMA WritableIsOnes ==
  ASSUME CowInv, NEW e \in Env, status[e] = "RUNNABLE", NEW va \in VA \ {Utemp},
         PermOf(e, va) = "w", NEW x \in Env, NEW b \in VA, PageOf(x, b) = PageOf(e, va)
  PROVE  \/ x = e /\ b = va
         \/ x = e /\ fault[e].step = "unmap"
         \/ x = Child(e) /\ x # e /\ frame[e].step = "self" /\ At(e) = va /\ b = va
<1>1. Mapped(mem, e, va) /\ ShareOf(e, va, x, b)
  BY EntryKinds DEF CowInv, ShareInv
<1>2. Child(x) # e
  BY SpaceAssumption DEF CowInv, FrameInv, FrameOf
<1> QED
  BY <1>1, <1>2 DEF ShareOf, MayShare, Temp

LEMMA SameEntries ==
  ASSUME Sound(mem), mem' = mem
  PROVE  KeepsEntries
BY DEF KeepsEntries, Kept, Mapped, PageOf, PermOf, HasTable, Sound

LEMMA PgfaultCopyKeeps ==
  ASSUME CowInv, NEW e \in Env, PgfaultCopy(e)
  PROVE  Implements
<1> DEFINE p == PageOf(e, Pftemp)
<1>1. /\ status' = status /\ upcall' = upcall /\ frame' = frame
      /\ pgfault_handler' = pgfault_handler /\ kinds' = kinds /\ refused' = refused
      /\ fault' = [fault EXCEPT ![e].step = "map"]
      /\ status[e] = "RUNNABLE" /\ fault[e].step = "copy"
      /\ UNCHANGED forks /\ mem' = mem
      /\ content' = [content EXCEPT ![p] = content[PageOf(e, fault[e].va)]]
  BY DEF PgfaultCopy, FaultStep, FaultAt, library
<1>2. /\ \A y \in Env \ {e} : fault'[y] = fault[y]
      /\ fault'[e] = [step |-> "map", va |-> fault[e].va, val |-> fault[e].val]
      /\ fault' \in [Env -> Faults] /\ fault \in [Env -> Faults]
  BY <1>1 DEF CowInv, TypeOK, Faults
<1>3. KeepsEntries
  BY <1>1, SameEntries DEF CowInv
<1>4. /\ Pftemp \in VA /\ Pftemp # Utemp /\ fault[e].va \in VA /\ fault[e].va # Pftemp
      /\ PermOf(e, Pftemp) = "w" /\ Mapped(mem, e, fault[e].va)
  BY <1>1, LayoutAssumption DEF CowInv, FaultInv, FaultOf, NoFault
<1>5. /\ content' \in [Page -> Value] /\ p \in Page /\ PageOf(e, fault[e].va) \in Page
      /\ \A y \in Env, b \in VA : y # e \/ b # Pftemp => PageOf(y, b) # p /\ Finds(y, b)
      /\ content'[p] = content[PageOf(e, fault[e].va)]
  <2>1. p \in Page /\ PageOf(e, fault[e].va) \in Page /\ content \in [Page -> Value]
    BY <1>4, EntryKinds DEF CowInv, TypeOK
  <2>2. \A y \in Env, b \in VA : y # e \/ b # Pftemp => PageOf(y, b) # p
    BY <1>1, <1>4, WritableIsOnes, LayoutAssumption DEF CowInv, KindInv, KindOf, AtPage, Addr
  <2>3. \A y \in Env, b \in VA : Mapped(mem, y, b) => PageOf(y, b) \in Page
    BY EntryKinds DEF CowInv
  <2> QED
    BY <1>1, <2>1, <2>2, <2>3 DEF Finds
<1> HIDE DEF p
<1>6. Concerns(e, e)
  BY <1>1, <1>2, <1>3, <1>5 DEF Concerns, Quiet, KeepsEntries
<1>7. TypeOK'
  BY <1>1, <1>2, <1>5 DEF TypeOK, CowInv
<1>8. FrameInv'
  BY <1>1, <1>2 DEF FrameInv, FrameOf, CowInv, Begun, Child, NoFault
<1>9. KindOf(e)'
  BY <1>1, <1>3, LayoutAssumption DEF KindInv, KindOf, CowInv, At, KeepsEntries, Kept, Addr
<1>10. SpaceOf(e)'
  BY <1>1, <1>2, <1>3, <1>4, LayoutAssumption DEF SpaceInv, SpaceOf, CowInv, Begun, KeepsEntries, Kept
<1>11. FaultOf(e)'
  <2>1. /\ PageOf(e, Pftemp)' = p /\ PageOf(e, fault[e].va)' = PageOf(e, fault[e].va)
        /\ fault'[e].va = fault[e].va
    BY <1>2, <1>3, <1>4 DEF KeepsEntries, Kept, p
  <2>2. content'[PageOf(e, Pftemp)'] = content'[PageOf(e, fault[e].va)']
    BY <1>4, <1>5, <2>1 DEF Finds
  <2> QED
    BY <1>1, <1>2, <1>3, <1>4, <2>2, LayoutAssumption DEF FaultInv, FaultOf, CowInv, Ready, KeepsEntries, Kept, NoFault
<1>12. ShareInv'
  BY <1>1, <1>2, <1>3, <1>4, LayoutAssumption DEF ShareInv, ShareOf, MayShare, Temp, CowInv, KeepsEntries, Kept, Child, At, Addr
<1>13. CopyOf(e)'
  <2>1. Child(e) # None => Child(e) \in Env /\ Child(e) # e
    BY <1>1 DEF CowInv, FrameInv, FrameOf, TypeOK, Frames, Child
  <2> QED
    BY <1>1, <1>3, <1>5, <2>1, LayoutAssumption DEF CopyInv, CopyOf, KindInv, KindOf, AtPage, Same, Finds, CowInv, KeepsEntries, Kept, Child, At, Addr
<1>14. Calm' => Calm /\ CalmOf(e)'
  BY <1>1, <1>3, <1>4, LayoutAssumption DEF CalmInv, CalmOf, Calm, Ready, CowInv, KeepsEntries, Kept, Child, At, Addr
<1>15. Unseen(e, e)
  BY <1>1, <1>3, <1>5, LayoutAssumption DEF Unseen, Begun, Finds, Addr, KeepsEntries, Kept
<1> QED
  BY <1>3, <1>6, <1>7, <1>8, <1>9, <1>10, <1>11, <1>12, <1>13, <1>14, <1>15, StutterKeeps DEF KeepsEntries

LEMMA PgfaultMapKeeps ==
  ASSUME CowInv, NEW e \in Env, PgfaultMap(e)
  PROVE  Implements
<1> DEFINE p == PageOf(e, Pftemp)
           va == fault[e].va
<1>1. /\ status[e] = "RUNNABLE" /\ fault[e].step = "map"
      /\ upcall' = upcall /\ pgfault_handler' = pgfault_handler /\ kinds' = kinds
      /\ UNCHANGED forks /\ content' = content
  BY DEF PgfaultMap, SysPageMap, FaultAt, library
<1>2. /\ Pftemp \in VA /\ Pftemp # Utemp /\ va \in Data \cup {Stack} /\ va \in VA
      /\ va # Pftemp /\ va # Utemp
      /\ PermOf(e, Pftemp) = "w" /\ Mapped(mem, e, va) /\ Mapped(mem, e, Pftemp)
      /\ content[p] = content[PageOf(e, va)]
  BY <1>1, EntryKinds, LayoutAssumption DEF CowInv, FaultInv, FaultOf, NoFault
<1>3. Maps(e, Pftemp, e, va, "w")
  BY <1>2 DEF Maps, Inserts, CowInv, SpaceInv, SpaceOf, HasTable
<1>4. SetsEntry(e, va, p, "w")
  BY <1>1, <1>2, <1>3, MapSets, PermAssumption DEF PgfaultMap, SysPageMap, CowInv
<1>5. /\ status' = status /\ frame' = frame /\ refused' = refused
      /\ fault' = [fault EXCEPT ![e].step = "unmap"]
  BY <1>3 DEF PgfaultMap, SysPageMap, FaultStep
<1>6. /\ \A y \in Env \ {e} : fault'[y] = fault[y]
      /\ fault'[e] = [step |-> "unmap", va |-> va, val |-> fault[e].val]
      /\ fault' \in [Env -> Faults] /\ fault \in [Env -> Faults]
  BY <1>5 DEF CowInv, TypeOK, Faults
<1>7. /\ \A y \in Env, b \in VA : y # e \/ b # Pftemp => PageOf(y, b) # p
      /\ p # None
  BY <1>1, <1>2, WritableIsOnes, EntryKinds, LayoutAssumption DEF CowInv, KindInv, KindOf, AtPage, Addr
<1> HIDE DEF p
<1>8. Concerns(e, e)
  BY <1>1, <1>4, <1>5, <1>6 DEF Concerns, Quiet, SetsEntry, Elsewhere, Finds, Kept
<1>9. TypeOK'
  BY <1>1, <1>4, <1>5, <1>6 DEF TypeOK, CowInv, Elsewhere, SetsEntry, Sound
<1>10. FrameInv'
  BY <1>1, <1>5, <1>6 DEF FrameInv, FrameOf, CowInv, Begun, Child, NoFault
<1>11. KindOf(e)'
  BY <1>1, <1>4, <1>5, LayoutAssumption DEF KindInv, KindOf, CowInv, At, Elsewhere, SetsEntry, Kept, Addr
<1>12. SpaceOf(e)'
  BY <1>1, <1>2, <1>4, <1>5, <1>6, LayoutAssumption DEF SpaceInv, SpaceOf, CowInv, Begun, Elsewhere, SetsEntry, Kept
<1>13. FaultOf(e)'
  BY <1>1, <1>2, <1>4, <1>5, <1>6, LayoutAssumption DEF FaultInv, FaultOf, CowInv, Ready, Elsewhere, SetsEntry, Kept, NoFault, p
<1>14. ShareInv'
  <2> SUFFICES ASSUME NEW x \in Env, NEW y \in Env, NEW a \in VA, NEW b \in VA
               PROVE  ShareOf(x, a, y, b)'
    BY DEF ShareInv
  <2>1. ShareOf(x, a, y, b)
    BY DEF CowInv, ShareInv
  <2>2. CASE (x = e /\ a = va) \/ (y = e /\ b = va)
    BY <1>1, <1>2, <1>4, <1>6, <1>7, <2>2 DEF ShareOf, MayShare, Elsewhere, SetsEntry, Kept, p
  <2>3. CASE ~((x = e /\ a = va) \/ (y = e /\ b = va))
    <3>1. Kept(x, a) /\ Kept(y, b)
      BY <1>4, <2>3 DEF SetsEntry, Elsewhere
    <3>2. fault[x].step = "unmap" => fault'[x] = fault[x]
      BY <1>1, <1>6
    <3> QED
      BY <1>5, <2>1, <3>1, <3>2 DEF ShareOf, MayShare, Temp, Kept, Child, At
  <2> QED
    BY <2>2, <2>3
<1>15. CopyOf(e)'
  <2>1. Child(e) # None => Child(e) \in Env /\ Child(e) # e
    BY <1>1 DEF CowInv, FrameInv, FrameOf, TypeOK, Frames, Child
  <2>2. Child(e) # None => va = Stack
    BY <1>1 DEF CowInv, FrameInv, FrameOf, FaultInv, FaultOf, NoFault, AtPage, Behind
  <2>3. At(e) = Stack => PermOf(e, At(e)) # "r" \/ ~Mapped(mem, e, Stack)
    BY LayoutAssumption DEF CowInv, SpaceInv, SpaceOf
  <2> QED
    BY <1>1, <1>2, <1>4, <1>5, <2>1, <2>2, <2>3, LayoutAssumption DEF CopyInv, CopyOf, KindInv, KindOf, AtPage, Same, CowInv, Elsewhere, SetsEntry, Kept, Child, At, Addr
<1>16. Calm' => Calm /\ CalmOf(e)'
  BY <1>1, <1>2, <1>4, <1>5, LayoutAssumption DEF CalmInv, CalmOf, Calm, Ready, CowInv, Elsewhere, SetsEntry, Kept, Child, At, Addr
<1>17. Unseen(e, e)
  BY <1>1, <1>2, <1>4, <1>5, LayoutAssumption DEF Unseen, Begun, Finds, Addr, SetsEntry, Elsewhere, Kept, p
<1> QED
  BY <1>4, <1>8, <1>9, <1>10, <1>11, <1>12, <1>13, <1>14, <1>15, <1>16, <1>17, StutterKeeps DEF SetsEntry, Elsewhere

LEMMA PgfaultUnmapKeeps ==
  ASSUME CowInv, NEW e \in Env, PgfaultUnmap(e)
  PROVE  Implements
<1>1. /\ status[e] = "RUNNABLE" /\ fault[e].step = "unmap"
      /\ upcall' = upcall /\ pgfault_handler' = pgfault_handler /\ kinds' = kinds
      /\ UNCHANGED forks /\ content' = content
      /\ status' = status /\ frame' = frame /\ refused' = refused
      /\ fault' = [fault EXCEPT ![e].step = "retry"]
  BY DEF PgfaultUnmap, FaultAt, FaultStep, library
<1>2. /\ Pftemp \in VA /\ Addr \subseteq VA /\ Pftemp # Utemp /\ Pftemp \notin Addr /\ Pftemp # UxStack
      /\ Pftemp # Stack /\ fault[e].va # Pftemp /\ fault[e] # NoFault
  BY <1>1, LayoutAssumption DEF CowInv, FaultInv, FaultOf, NoFault, Addr
<1>3. ClearsEntry(e, Pftemp)
  BY <1>2, RemoveClears DEF PgfaultUnmap, CowInv
<1>4. /\ \A y \in Env \ {e} : fault'[y] = fault[y]
      /\ fault'[e] = [step |-> "retry", va |-> fault[e].va, val |-> fault[e].val]
      /\ fault' \in [Env -> Faults] /\ fault \in [Env -> Faults]
  BY <1>1 DEF CowInv, TypeOK, Faults
<1>5. Concerns(e, e)
  BY <1>1, <1>3, <1>4 DEF Concerns, Quiet, ClearsEntry, Elsewhere, Finds, Kept
<1>6. TypeOK'
  BY <1>1, <1>3, <1>4 DEF TypeOK, CowInv, Elsewhere, ClearsEntry, Sound
<1>7. FrameInv'
  BY <1>1, <1>4 DEF FrameInv, FrameOf, CowInv, Begun, Child, NoFault
<1>8. KindOf(e)'
  BY <1>1, <1>2, <1>3 DEF KindInv, KindOf, CowInv, AtPage, At, Elsewhere, ClearsEntry, Kept
<1>9. SpaceOf(e)'
  BY <1>1, <1>2, <1>3, <1>4, LayoutAssumption DEF SpaceInv, SpaceOf, CowInv, Begun, Elsewhere, ClearsEntry, Kept
<1>10. FaultOf(e)'
  BY <1>1, <1>2, <1>3, <1>4, LayoutAssumption DEF FaultInv, FaultOf, CowInv, Ready, Elsewhere, ClearsEntry, Kept, NoFault
<1>11. ShareInv'
  <2> SUFFICES ASSUME NEW x \in Env, NEW y \in Env, NEW a \in VA, NEW b \in VA
               PROVE  ShareOf(x, a, y, b)'
    BY DEF ShareInv
  <2>1. ShareOf(x, a, y, b)
    BY DEF CowInv, ShareInv
  <2>2. CASE (x = e /\ a = Pftemp) \/ (y = e /\ b = Pftemp)
    BY <1>2, <1>3, <2>2, EntriesAgree DEF ShareOf, ClearsEntry, Elsewhere
  <2>3. CASE ~((x = e /\ a = Pftemp) \/ (y = e /\ b = Pftemp))
    BY <1>1, <1>3, <1>4, <2>1, <2>3 DEF ShareOf, MayShare, Temp, Elsewhere, ClearsEntry, Kept, Child, At
  <2> QED
    BY <2>2, <2>3
<1>12. CopyOf(e)'
  <2>1. Child(e) # None => Child(e) \in Env /\ Child(e) # e
    BY <1>1 DEF CowInv, FrameInv, FrameOf, TypeOK, Frames, Child
  <2> QED
    BY <1>1, <1>2, <1>3, <2>1, LayoutAssumption DEF CopyInv, CopyOf, KindInv, KindOf, AtPage, Same, CowInv, Elsewhere, ClearsEntry, Kept, Child, At, Addr
<1>13. Calm' => Calm /\ CalmOf(e)'
  BY <1>1, <1>2, <1>3, LayoutAssumption DEF CalmInv, CalmOf, Calm, Ready, CowInv, Elsewhere, ClearsEntry, Kept, Child, At, Addr
<1>14. Unseen(e, e)
  BY <1>1, <1>2, <1>3 DEF Unseen, Begun, Finds, Addr, ClearsEntry, Elsewhere, Kept
<1> QED
  BY <1>3, <1>5, <1>6, <1>7, <1>8, <1>9, <1>10, <1>11, <1>12, <1>13, <1>14, StutterKeeps DEF ClearsEntry, Elsewhere

\* env_free: nothing is left of x.
Frees(x) ==
  /\ Sound(mem)'
  /\ mem'.pgdir[x] = None
  /\ \A b \in VA : ~Mapped(mem', x, b) /\ PageOf(x, b)' = None /\ PermOf(x, b)' = "r"
  /\ \A y \in Env \ {x} :
       /\ mem'.pgdir[y] = mem.pgdir[y]
       /\ \A b \in VA : Kept(y, b) /\ (HasTable(y, b) => HasTable(y, b)')

LEMMA EnvFrees ==
  ASSUME Sound(mem), NEW x \in Env, mem' = EnvFreePages(mem, x)
  PROVE  Frees(x)
<1>1. /\ Sound(mem)' /\ mem'.pgdir = [mem.pgdir EXCEPT ![x] = None]
      /\ \A y \in Env \ {x} : mem'.pde[y] = mem.pde[y] /\ mem'.pte[y] = mem.pte[y]
      /\ \A va \in VA : mem'.pte[x][va] = Unmapped
  BY EnvFreeSound
<1>2. mem.pgdir \in [Env -> Page \cup {None}]
  BY MemoryParts DEF Sound
<1> QED
  BY <1>1, <1>2 DEF Frees, Kept, Mapped, Unmapped, PageOf, PermOf, HasTable

\* Who is destroyed or exits leaves nothing, also when it was in the middle of a fork.
LEMMA EndKeeps ==
  ASSUME CowInv, NEW e \in Env, status[e] = "RUNNABLE", mem' = EnvFreePages(mem, e),
         NEW end \in {"FREE", "KILLED"}, status' = [status EXCEPT ![e] = end],
         frame' = [frame EXCEPT ![e] = NoFrame], fault' = [fault EXCEPT ![e] = NoFault],
         UNCHANGED <<content, library, refused>>,
         Calm => end = "FREE"
  PROVE  Implements
<1>1. /\ upcall' = upcall /\ pgfault_handler' = pgfault_handler /\ kinds' = kinds
      /\ UNCHANGED forks /\ content' = content /\ refused' = refused
  BY DEF library
<1>2. Frees(e)
  BY EnvFrees DEF CowInv
<1>3. /\ NoFrame \in Frames /\ NoFault \in Faults
      /\ Len(Order) \in Nat
  BY OrderAssumption, LenProperties DEF NoFrame, FrameAt, NoFault, Frames, Faults
<1>4. /\ \A y \in Env \ {e} : fault'[y] = fault[y] /\ frame'[y] = frame[y] /\ status'[y] = status[y]
      /\ fault'[e] = NoFault /\ frame'[e] = NoFrame /\ status'[e] = end
      /\ status' \in [Env -> {"FREE", "NOT_RUNNABLE", "RUNNABLE", "KILLED", "PANIC"}]
      /\ frame' \in [Env -> Frames] /\ fault' \in [Env -> Faults]
  BY <1>3 DEF CowInv, TypeOK
<1>5. Concerns(e, e)
  BY <1>1, <1>2, <1>4 DEF Concerns, Quiet, Frees, Finds, Kept
<1>6. TypeOK'
  BY <1>1, <1>2, <1>4 DEF TypeOK, CowInv, Frees, Sound
<1>7. FrameInv'
  BY <1>1, <1>4 DEF FrameInv, FrameOf, CowInv, Begun, Child, NoFault, NoFrame, FrameAt
<1>8. KindOf(e)'
  BY <1>1, <1>4 DEF KindInv, KindOf, CowInv, NoFrame, FrameAt, AtPage, Behind
<1>9. SpaceOf(e)' /\ CopyOf(e)' /\ FaultOf(e)'
  <2>1. SpaceOf(e)'
    BY <1>2, <1>4, LayoutAssumption DEF SpaceOf, Begun, Frees
  <2>2. CopyOf(e)' /\ FaultOf(e)'
    BY <1>4 DEF CopyOf, FaultOf, NoFrame, FrameAt, NoFault, Child
  <2> QED
    BY <2>1, <2>2
<1>10. ShareInv'
  <2> SUFFICES ASSUME NEW x \in Env, NEW y \in Env, NEW a \in VA, NEW b \in VA
               PROVE  ShareOf(x, a, y, b)'
    BY DEF ShareInv
  <2>1. ShareOf(x, a, y, b)
    BY DEF CowInv, ShareInv
  <2>2. CASE x = e \/ y = e
    BY <1>2, <2>2, EntriesAgree DEF ShareOf, Frees
  <2>3. CASE x # e /\ y # e
    BY <1>2, <1>4, <2>1, <2>3 DEF ShareOf, MayShare, Temp, Frees, Kept, Child, At
  <2> QED
    BY <2>2, <2>3
<1>11. Calm' => Calm /\ CalmOf(e)'
  BY <1>1, <1>4 DEF CalmOf, Calm
<1> QED
  <2>1. CowInv'
    BY <1>2, <1>5, <1>6, <1>7, <1>8, <1>9, <1>10, <1>11, StepKeeps DEF Frees
  <2>2. View[e] # None
    BY ViewOf DEF Live, CowInv, TypeOK
  <2>3. \A y \in Env \ {e} : Quiet(y) /\ \A a \in VA : Finds(y, a)
    BY <1>5 DEF Concerns
  <2>4. View'[e] = None /\ \A y \in Env \ {e} : View'[y] = View[y]
    BY <1>4, <2>3, SameView DEF View, Live
  <2>5. View' = [View EXCEPT ![e] = None]
    BY <2>4 DEF View
  <2> QED
    BY <2>1, <2>2, <2>5 DEF Implements, P!Next, P!Exit

LEMMA ExitKeeps ==
  ASSUME CowInv, NEW e \in Env, Exit(e)
  PROVE  Implements
<1>1. frame[e] = NoFrame /\ fault[e] = NoFault /\ status[e] = "RUNNABLE"
  BY DEF Exit, InFork, Runs, CowInv, FrameInv, FrameOf
<1>2. frame' = [frame EXCEPT ![e] = NoFrame] /\ fault' = [fault EXCEPT ![e] = NoFault]
  BY <1>1 DEF Exit, CowInv, TypeOK
<1> QED
  BY <1>1, <1>2, EndKeeps DEF Exit

\* A store to a page that is writable
LEMMA StoreWrites ==
  ASSUME CowInv, NEW e \in Env, status[e] = "RUNNABLE", NEW va \in Data \cup {Stack},
         NEW v \in Value, Store(e, va, v), PermOf(e, va) = "w",
         frame[e].step # "user" => va = Stack,
         fault[e] = NoFault \/ fault[e].step = "retry"
  PROVE  Implements
<1> DEFINE p == PageOf(e, va)
<1>1. /\ status' = status /\ upcall' = upcall /\ frame' = frame
      /\ pgfault_handler' = pgfault_handler /\ kinds' = kinds /\ refused' = refused
      /\ UNCHANGED forks /\ mem' = mem
      /\ fault' = [fault EXCEPT ![e] = NoFault]
      /\ content' = [content EXCEPT ![p] = v]
  BY DEF Store, library
<1>2. NoFault \in Faults
  BY DEF NoFault, Faults
<1>3. /\ \A y \in Env \ {e} : fault'[y] = fault[y]
      /\ fault'[e] = NoFault /\ fault' \in [Env -> Faults]
  BY <1>1, <1>2 DEF CowInv, TypeOK
<1>4. KeepsEntries
  BY <1>1, SameEntries DEF CowInv
<1>5. /\ va \in VA /\ va # Utemp /\ va # Pftemp /\ Mapped(mem, e, va)
      /\ p \in Page /\ content \in [Page -> Value]
  BY EntryKinds, LayoutAssumption DEF CowInv, TypeOK
<1>6. \A y \in Env, b \in VA :
        PageOf(y, b) = p => (y = e /\ b = va) \/ (y = Child(e) /\ y # e /\ b = Stack)
  <2>1. fault[e].step # "unmap"
    BY DEF NoFault
  <2>2. frame[e].step = "self" => va = Stack
    OBVIOUS
  <2> QED
    BY <1>5, <2>1, <2>2, WritableIsOnes
<1>7. /\ content' \in [Page -> Value]
      /\ \A y \in Env, b \in VA :
           ~(y = e /\ b = va) /\ ~(y = Child(e) /\ y # e /\ b = Stack) => Finds(y, b)
  <2>1. \A y \in Env, b \in VA : Mapped(mem, y, b) => PageOf(y, b) \in Page
    BY EntryKinds DEF CowInv
  <2> QED
    BY <1>1, <1>5, <1>6, <2>1 DEF Finds
<1>8. Child(e) # None =>
        Child(e) \in Env /\ Child(e) # e /\ ~Begun(Child(e)) /\ va = Stack
  BY DEF CowInv, FrameInv, FrameOf, TypeOK, Frames, Child, AtPage, Behind, Begun
<1> HIDE DEF p
<1> PICK c \in Env : c = IF Child(e) = None THEN e ELSE Child(e)
  BY <1>8
<1>9. Concerns(e, c) /\ (c # e => ~Begun(c))
  <2>1. \A y \in Env \ {e} : Quiet(y)
    BY <1>1, <1>3, <1>4 DEF Quiet, KeepsEntries
  <2>2. \A y \in Env \ {e, c}, b \in VA : Finds(y, b)
    <3> SUFFICES ASSUME NEW y \in Env \ {e, c}, NEW b \in VA
                 PROVE  Finds(y, b)
      OBVIOUS
    <3>1. y # e /\ y # Child(e)
      BY SpaceAssumption
    <3> QED
      BY <1>7, <3>1
  <2>3. c # e => /\ c = Child(e) /\ frame'[c] = NoFrame /\ fault'[c] = NoFault
                 /\ pgfault_handler'[c] => "fork" \in kinds
    BY <1>1, <1>3, <1>8 DEF CowInv, FrameInv, FrameOf, KindInv, KindOf
  <2> QED
    BY <1>1, <1>8, <2>1, <2>2, <2>3 DEF Concerns
<1>10. TypeOK'
  BY <1>1, <1>3, <1>7 DEF TypeOK, CowInv
<1>11. FrameInv'
  BY <1>1, <1>3 DEF FrameInv, FrameOf, CowInv, Begun, Child, NoFault
<1>12. KindOf(e)'
  BY <1>1, <1>4, LayoutAssumption DEF KindInv, KindOf, CowInv, At, KeepsEntries, Kept, Addr
<1>13. SpaceOf(e)'
  BY <1>1, <1>3, <1>4, LayoutAssumption DEF SpaceInv, SpaceOf, CowInv, Begun, KeepsEntries, Kept, FaultInv, FaultOf, NoFault
<1>14. FaultOf(e)'
  BY <1>3 DEF FaultOf, NoFault
<1>15. ShareInv'
  BY <1>1, <1>3, <1>4, LayoutAssumption DEF ShareInv, ShareOf, MayShare, Temp, CowInv, KeepsEntries, Kept, Child, At, Addr, NoFault
<1>16. CopyOf(e)'
  BY <1>1, <1>4, <1>5, <1>7, <1>8, LayoutAssumption DEF CopyInv, CopyOf, KindInv, KindOf, AtPage, Same, Finds, CowInv, KeepsEntries, Kept, Child, At, Addr
<1>17. SpaceOf(c)'
  <2>1. c # e => Quiet(c)
    BY <1>1, <1>3, <1>4, <1>9 DEF Quiet, KeepsEntries
  <2> QED
    BY <1>1, <1>9, <1>13, <2>1, QuietSpace DEF CowInv, SpaceInv
<1>18. Calm' => Calm /\ CalmOf(e)' /\ CalmOf(c)'
  BY <1>1, <1>4, <1>9, LayoutAssumption DEF CalmInv, CalmOf, Calm, Ready, CowInv, KeepsEntries, Kept, Child, At, Addr
<1> QED
  <2>1. CowInv'
    BY <1>4, <1>9, <1>10, <1>11, <1>12, <1>13, <1>14, <1>15, <1>16, <1>17, <1>18, StepKeeps DEF KeepsEntries
  <2>2. va \in Addr /\ View[e] # None /\ View[e][va] # None
    BY <1>5, ViewOf, LayoutAssumption DEF Live, Addr, CowInv, TypeOK
  <2>3. /\ DOMAIN View[e] = Addr /\ DOMAIN View'[e] = Addr
        /\ View'[e] = [View[e] EXCEPT ![va] = v]
    <3>1. e \in Live /\ e \in Live'
      BY <1>1 DEF Live
    <3>2. \A a \in Addr \ {va} : Finds(e, a) /\ Kept(e, a)
      BY <1>4, <1>7, <1>8, LayoutAssumption DEF KeepsEntries, Addr
    <3>3. Mapped(mem', e, va) /\ content'[PageOf(e, va)'] = v
      BY <1>1, <1>4, <1>5 DEF KeepsEntries, Kept, p
    <3> QED
      BY <3>1, <3>2, <3>3, <2>2 DEF View, Finds, Kept
  <2>4. \A y \in Env \ {e} : View'[y] = View[y]
    <3> SUFFICES ASSUME NEW y \in Env \ {e}
                 PROVE  View'[y] = View[y]
      OBVIOUS
    <3>1. CASE y = c
      BY <1>1, <1>9, <3>1 DEF View, Live, Begun
    <3>2. CASE y # c
      BY <1>9, <3>2, SameView DEF Concerns
    <3> QED
      BY <3>1, <3>2
  <2>5. View' = [View EXCEPT ![e] = [View[e] EXCEPT ![va] = v]]
    BY <2>3, <2>4 DEF View
  <2> QED
    BY <2>1, <2>2, <2>5 DEF Implements, P!Next, P!Write

\* A store to a page that is not, of a program that can take the fault
LEMMA StoreFaults ==
  ASSUME CowInv, NEW e \in Env, status[e] = "RUNNABLE", NEW va \in Data \cup {Stack},
         NEW v \in Value, Store(e, va, v), PermOf(e, va) # "w", Ready(e),
         Mapped(mem, e, va), frame[e].step # "user" => va = Stack,
         fault[e] = NoFault \/ fault[e].step = "retry"
  PROVE  Implements
<1> DEFINE new == [step |-> "alloc", va |-> va, val |-> v]
<1>1. /\ status' = status /\ upcall' = upcall /\ frame' = frame
      /\ pgfault_handler' = pgfault_handler /\ kinds' = kinds /\ refused' = refused
      /\ UNCHANGED forks /\ mem' = mem /\ content' = content
      /\ fault' = [fault EXCEPT ![e] = new]
  BY DEF Store, TakeFault, Ready, library
<1>2. new \in Faults
  BY DEF Faults
<1>3. /\ \A y \in Env \ {e} : fault'[y] = fault[y]
      /\ fault'[e] = new /\ fault' \in [Env -> Faults]
  BY <1>1, <1>2 DEF CowInv, TypeOK
<1>4. KeepsEntries
  BY <1>1, SameEntries DEF CowInv
<1>5. va \in VA
  BY LayoutAssumption
<1>6. Concerns(e, e)
  BY <1>1, <1>3, <1>4 DEF Concerns, Quiet, KeepsEntries, Finds, Kept
<1>7. TypeOK'
  BY <1>1, <1>3 DEF TypeOK, CowInv
<1>8. FrameInv'
  BY <1>1, <1>3 DEF FrameInv, FrameOf, CowInv, Begun, Child, NoFault
<1>9. KindOf(e)'
  BY <1>1, <1>4, LayoutAssumption DEF KindInv, KindOf, CowInv, At, KeepsEntries, Kept, Addr
<1>10. SpaceOf(e)'
  BY <1>1, <1>3, <1>4, LayoutAssumption DEF SpaceInv, SpaceOf, CowInv, Begun, KeepsEntries, Kept, NoFault
<1>11. FaultOf(e)'
  BY <1>1, <1>3, <1>4, <1>5, LayoutAssumption DEF FaultOf, NoFault, KeepsEntries, Kept, Ready
<1>12. ShareInv'
  BY <1>1, <1>3, <1>4, LayoutAssumption DEF ShareInv, ShareOf, MayShare, Temp, CowInv, KeepsEntries, Kept, Child, At, Addr, NoFault
<1>13. CopyOf(e)'
  <2>1. Child(e) # None => Child(e) \in Env /\ Child(e) # e
    BY DEF CowInv, FrameInv, FrameOf, TypeOK, Frames, Child
  <2> QED
    BY <1>1, <1>4, <2>1, LayoutAssumption DEF CopyInv, CopyOf, KindInv, KindOf, AtPage, Same, CowInv, KeepsEntries, Kept, Child, At, Addr
<1>14. Calm' => Calm /\ CalmOf(e)'
  BY <1>1, <1>4, LayoutAssumption DEF CalmInv, CalmOf, Calm, Ready, CowInv, KeepsEntries, Kept, Child, At, Addr
<1>15. Unseen(e, e)
  BY <1>1, <1>4, LayoutAssumption DEF Unseen, Begun, Finds, Addr, KeepsEntries, Kept
<1> QED
  BY <1>4, <1>6, <1>7, <1>8, <1>9, <1>10, <1>11, <1>12, <1>13, <1>14, <1>15, StutterKeeps DEF KeepsEntries

LEMMA StoreKeeps ==
  ASSUME CowInv, NEW e \in Env, status[e] = "RUNNABLE", NEW va \in Data \cup {Stack},
         NEW v \in Value, Store(e, va, v), Mapped(mem, e, va),
         frame[e].step # "user" => va = Stack,
         fault[e] = NoFault \/ fault[e].step = "retry"
  PROVE  Implements
<1>1. CASE PermOf(e, va) # "w" /\ ~Ready(e)
  <2>1. va \in VA /\ va \in Addr
    BY LayoutAssumption DEF Addr
  <2>2. PermOf(e, va) = "cow"
    BY <1>1, <2>1, EntryKinds DEF CowInv, SpaceInv, SpaceOf
  <2>3. ~Calm
    BY <1>1, <2>1, <2>2 DEF CowInv, CalmInv, CalmOf
  <2>4. /\ mem' = EnvFreePages(mem, e) /\ status' = [status EXCEPT ![e] = "KILLED"]
        /\ frame' = [frame EXCEPT ![e] = NoFrame] /\ fault' = [fault EXCEPT ![e] = NoFault]
        /\ UNCHANGED <<content, library, refused>>
    BY <1>1 DEF Store, TakeFault, Kill, Ready
  <2> QED
    BY <2>3, <2>4, EndKeeps
<1> QED
  BY <1>1, StoreWrites, StoreFaults
  
LEMMA WriteKeeps ==
  ASSUME CowInv, NEW e \in Env, Write(e)
  PROVE  Implements
BY StoreKeeps DEF Write, Runs

LEMMA RetryKeeps ==
  ASSUME CowInv, NEW e \in Env, Retry(e)
  PROVE  Implements
<1>1. /\ fault[e].step = "retry" /\ status[e] = "RUNNABLE" /\ fault[e] # NoFault
      /\ Store(e, fault[e].va, fault[e].val)
  BY DEF Retry, FaultAt, NoFault
<1> QED
  BY <1>1, StoreKeeps DEF CowInv, FaultInv, FaultOf

\* A call that finds no page: e panics, and nothing has changed.
LEMMA PanicKeeps ==
  ASSUME CowInv, NEW e \in Env, status[e] = "RUNNABLE", Panic(e), KeepsEntries,
         content' \in [Page -> Value], \A y \in Env, b \in VA : Finds(y, b),
         UNCHANGED library, refused' \in BOOLEAN, ~Calm'
  PROVE  Implements
<1>1. /\ upcall' = upcall /\ pgfault_handler' = pgfault_handler /\ kinds' = kinds
      /\ UNCHANGED forks /\ frame' = frame /\ fault' = fault
      /\ status' = [status EXCEPT ![e] = "PANIC"]
  BY DEF library, Panic
<1>2. /\ \A y \in Env \ {e} : status'[y] = status[y]
      /\ status'[e] = "PANIC"
      /\ status' \in [Env -> {"FREE", "NOT_RUNNABLE", "RUNNABLE", "KILLED", "PANIC"}]
  BY <1>1 DEF CowInv, TypeOK
<1>3. Concerns(e, e)
  BY <1>1, <1>2 DEF Concerns, Quiet, KeepsEntries
<1>4. TypeOK'
  BY <1>1, <1>2 DEF TypeOK, CowInv, KeepsEntries, Sound
<1>5. FrameInv'
  BY <1>1, <1>2 DEF FrameInv, FrameOf, CowInv, Begun, Child
<1>6. KindOf(e)'
  BY <1>1, LayoutAssumption DEF KindInv, KindOf, CowInv, At, KeepsEntries, Kept, Addr
<1>7. SpaceOf(e)'
  BY <1>1, <1>2, LayoutAssumption DEF SpaceInv, SpaceOf, CowInv, Begun, KeepsEntries, Kept
<1>8. FaultOf(e)'
  <2>1. /\ fault[e].step = "map" => Mapped(mem, e, Pftemp) /\ fault[e].va \in VA
        /\ Pftemp \in VA
    BY EntryKinds, LayoutAssumption DEF FaultInv, FaultOf, CowInv, NoFault
  <2> QED
    BY <1>1, <2>1, LayoutAssumption DEF FaultInv, FaultOf, CowInv, Ready, KeepsEntries, Kept, NoFault, Finds
<1>9. ShareInv'
  BY <1>1, <1>2, LayoutAssumption DEF ShareInv, ShareOf, MayShare, Temp, CowInv, KeepsEntries, Kept, Child, At, Addr
<1>10. CopyOf(e)'
  <2>1. Child(e) # None => Child(e) \in Env /\ Child(e) # e
    BY DEF CowInv, FrameInv, FrameOf, TypeOK, Frames, Child
  <2> QED
    BY <1>1, <2>1, LayoutAssumption DEF CopyInv, CopyOf, KindInv, KindOf, AtPage, Same, Finds, CowInv, KeepsEntries, Kept, Child, At, Addr
<1>11. Unseen(e, e)
  BY <1>1, <1>2, LayoutAssumption DEF Unseen, Begun, Finds, Addr, KeepsEntries, Kept
<1> QED
  BY <1>3, <1>4, <1>5, <1>6, <1>7, <1>8, <1>9, <1>10, <1>11, StutterKeeps DEF KeepsEntries

\* A step of a fork that changes nothing but where e is in it
LEMMA MoveKeeps ==
  ASSUME CowInv, NEW e \in Env, Runs(e), KeepsEntries,
         content' \in [Page -> Value], \A y \in Env, b \in VA : Finds(y, b),
         UNCHANGED <<status, upcall, pgfault_handler, kinds, fault>>,
         forks' \in Nat, refused' \in BOOLEAN,
         NEW new \in Frames, frame' = [frame EXCEPT ![e] = new],
         frame[e].step \notin {"self", "copy", "unmap"},
         new.step \notin {"self", "copy", "unmap", "user"}, new.child = Child(e),
         Child(e) = None => new.step \in {"handler", "exofork"},
         Child(e) # None => new.step \in {"read"} \cup AtPage \cup Behind,
         KindOf(e)', CopyOf(e)', Calm' => Calm /\ CalmOf(e)'
  PROVE  Implements
<1>1. fault[e] = NoFault /\ status[e] = "RUNNABLE"
  BY DEF Runs
<1>2. /\ \A y \in Env \ {e} : frame'[y] = frame[y]
      /\ frame'[e] = new /\ frame' \in [Env -> Frames]
  BY DEF CowInv, TypeOK
<1>3. Concerns(e, e)
  BY <1>1, <1>2 DEF Concerns, Quiet, KeepsEntries
<1>4. TypeOK'
  BY <1>1, <1>2 DEF TypeOK, CowInv, KeepsEntries, Sound
<1>5. FrameInv'
  BY <1>1, <1>2 DEF FrameInv, FrameOf, CowInv, Begun, Child
<1>6. SpaceOf(e)'
  BY <1>1, <1>2, LayoutAssumption DEF SpaceInv, SpaceOf, CowInv, Begun, KeepsEntries, Kept
<1>7. FaultOf(e)'
  BY <1>1 DEF FaultOf, NoFault
<1>8. ShareInv'
  <2> SUFFICES ASSUME NEW x \in Env, NEW y \in Env, NEW a \in VA, NEW b \in VA
               PROVE  ShareOf(x, a, y, b)'
    BY DEF ShareInv
  <2>1. ShareOf(x, a, y, b) /\ Kept(x, a) /\ Kept(y, b)
    BY DEF CowInv, ShareInv, KeepsEntries
  <2> QED
    BY <1>2, <2>1 DEF ShareOf, MayShare, Temp, Kept, Child, At
<1>9. Unseen(e, e)
  BY <1>1, LayoutAssumption DEF Unseen, Begun, Finds, Addr, KeepsEntries, Kept
<1> QED
  BY <1>3, <1>4, <1>5, <1>6, <1>7, <1>8, <1>9, StutterKeeps DEF KeepsEntries

LEMMA OrderFacts ==
  /\ Len(Order) \in Nat /\ DOMAIN Order = 1 .. Len(Order)
  /\ \A j \in DOMAIN Order : Order[j] \in VA
BY OrderAssumption

\* What holds of a fork that is in the loop
LEMMA Reading ==
  ASSUME CowInv, NEW e \in Env, InFork(e, "read")
  PROVE  /\ Child(e) \in Env /\ Child(e) # e /\ Child(e) # None
         /\ frame[e].i \in 1 .. Len(Order) + 1
         /\ frame[e].kind \in kinds /\ frame[e].kind \in {"fork", "fork_v0", "dumbfork"}
         /\ Runs(e) /\ frame[e].step = "read" /\ frame[e] \in Frames
         /\ ~Mapped(mem, e, Pftemp) /\ ~Mapped(mem, e, Utemp)
<1>1. FrameOf(e) /\ KindOf(e) /\ SpaceOf(e) /\ frame[e] \in Frames /\ kinds \in KindSets
      /\ status[e] = "RUNNABLE" /\ fault[e] = NoFault /\ frame[e].step = "read"
  BY DEF CowInv, TypeOK, FrameInv, KindInv, SpaceInv, InFork, Runs
<1> QED
  BY <1>1 DEF FrameOf, KindOf, SpaceOf, InFork, Runs, Frames, Child, KindSets, NoFault

LEMMA BeginForkKeeps ==
  ASSUME CowInv, NEW e \in Env, BeginFork(e)
  PROVE  Implements
<1>1. PICK k \in kinds :
        frame' = [frame EXCEPT ![e] = FrameAt(k, IF k = "fork" /\ ~pgfault_handler[e]
                                                 THEN "handler" ELSE "exofork")]
  BY Zenon DEF BeginFork
<1> PICK first : first = IF k = "fork" /\ ~pgfault_handler[e] THEN "handler" ELSE "exofork"
  OBVIOUS
<1> DEFINE new == FrameAt(k, first)
<1>2. /\ UNCHANGED <<status, upcall, pgfault_handler, kinds, fault>>
      /\ forks' = forks + 1 /\ mem' = mem /\ content' = content /\ refused' = refused
      /\ Runs(e) /\ frame[e].step = "user"
  BY DEF BeginFork, InFork
<1>3. new \in Frames /\ frame' = [frame EXCEPT ![e] = new]
  <2>1. k \in {"fork", "fork_v0", "dumbfork"}
    BY DEF CowInv, TypeOK, KindSets
  <2> QED
    <3>1. first \in {"handler", "exofork"} /\ 0 \in 0 .. Len(Order) + 1
      BY OrderFacts
    <3> QED
      BY <1>1, <2>1, <3>1 DEF Frames, FrameAt
<1>4. KeepsEntries
  BY <1>2, SameEntries DEF CowInv
<1>5. frame'[e] = new /\ Child(e) = None
  BY <1>2, <1>3 DEF CowInv, TypeOK, FrameInv, FrameOf, Child, NoFrame, FrameAt
<1>6. KindOf(e)' /\ CopyOf(e)'
  BY <1>2, <1>5 DEF CowInv, KindInv, KindOf, CopyOf, Child, AtPage, Behind, FrameAt
<1>7. Calm' => Calm /\ CalmOf(e)'
  BY <1>2, <1>4, <1>5, LayoutAssumption DEF CowInv, CalmInv, CalmOf, Calm, Ready, KeepsEntries, Kept, Addr, FrameAt
<1>8. /\ content' \in [Page -> Value] /\ forks' \in Nat /\ refused' \in BOOLEAN
      /\ \A y \in Env, b \in VA : Finds(y, b)
  BY <1>2 DEF CowInv, TypeOK, Finds
<1>9. /\ frame[e].step \notin {"self", "copy", "unmap"}
      /\ new.step \in {"handler", "exofork"} /\ new.child = None
  BY <1>2 DEF FrameAt
<1> HIDE DEF new
<1> QED
  BY <1>2, <1>3, <1>4, <1>5, <1>6, <1>7, <1>8, <1>9, MoveKeeps

LEMMA ReadEntryKeeps ==
  ASSUME CowInv, NEW e \in Env, ReadEntry(e)
  PROVE  Implements
<1> DEFINE a == At(e)
           c == Child(e)
           i == frame[e].i
           kind == frame[e].kind
<1>1. /\ UNCHANGED <<status, upcall, pgfault_handler, kinds, forks, refused, mem, content>>
      /\ InFork(e, "read") /\ i =< Len(Order)
  BY DEF ReadEntry, library
<1>2. /\ c \in Env /\ c # e /\ c # None
      /\ i \in DOMAIN Order /\ Order[i] = a /\ a \in VA
      /\ kind \in kinds /\ kind \in {"fork", "fork_v0", "dumbfork"}
      /\ Runs(e) /\ frame[e].step = "read" /\ frame[e] \in Frames
      /\ ~Mapped(mem, e, Pftemp) /\ ~Mapped(mem, e, Utemp)
  BY <1>1, Reading, OrderFacts DEF At
<1>3. KeepsEntries
  BY <1>1, SameEntries DEF CowInv
<1>4. /\ content' \in [Page -> Value] /\ forks' \in Nat /\ refused' \in BOOLEAN
      /\ \A y \in Env, b \in VA : Finds(y, b)
  BY <1>1 DEF CowInv, TypeOK, Finds
<1>5. Mapped(mem, e, a) => \/ a \in Addr \/ a = UxStack
  BY <1>2, LayoutAssumption DEF Addr
<1>6. "fork" \in kinds => kind # "fork_v0"
  BY <1>2 DEF CowInv, TypeOK, KindSets
<1>7. CASE Treatment(e) = "skip"
  <2> DEFINE new == [kind |-> kind, step |-> "read", i |-> i + 1, child |-> c, pte |-> frame[e].pte]
  <2>1. /\ new \in Frames /\ frame' = [frame EXCEPT ![e] = new] /\ frame'[e] = new
        /\ fault' = fault
    BY <1>1, <1>2, <1>7, OrderFacts DEF ReadEntry, NextPage, Frames, CowInv, TypeOK, Child
  <2>2. a \in Addr => ~Mapped(mem, e, a) /\ ~Mapped(mem, c, a)
    <3>1. a \in Addr => a # UxStack
      BY LayoutAssumption DEF Addr
    <3>2. a \in Addr => ~Mapped(mem, e, a)
      BY <1>7, <3>1 DEF Treatment
    <3> QED
      BY <1>2, <3>2 DEF CowInv, CopyInv, CopyOf
  <2>3. KindOf(e)'
    BY <1>1, <1>2, <2>1, OrderFacts DEF CowInv, KindInv, KindOf, AtPage, Behind
  <2>4. CopyOf(e)'
    BY <1>1, <1>2, <1>3, <2>1, <2>2, OrderFacts DEF CowInv, CopyInv, CopyOf, Same, KeepsEntries, Kept, Child
  <2>5. Calm' => Calm /\ CalmOf(e)'
    BY <1>1, <1>2, <1>3, <2>1, LayoutAssumption DEF CowInv, CalmInv, CalmOf, Calm, Ready, KeepsEntries, Kept, Addr
  <2> HIDE DEF new
  <2> QED
    BY <1>1, <1>2, <1>3, <1>4, <2>1, <2>3, <2>4, <2>5, MoveKeeps DEF new
<1>8. CASE Treatment(e) = "copy"
  <2> DEFINE new == [kind |-> kind, step |-> "alloc", i |-> i, child |-> c, pte |-> frame[e].pte]
  <2>1. /\ new \in Frames /\ frame' = [frame EXCEPT ![e] = new] /\ frame'[e] = new
        /\ fault' = fault
    BY <1>1, <1>2, <1>8, OrderFacts DEF ReadEntry, Step, Frames, CowInv, TypeOK, Child
  <2>2. /\ Mapped(mem, e, a) /\ kind \in {"fork_v0", "dumbfork"}
        /\ a = UxStack => "fork" \in kinds
        /\ kind = "dumbfork" => a \in Addr
    BY <1>2, <1>8, LayoutAssumption DEF Treatment, CowInv, SpaceInv, SpaceOf
  <2>3. a \in Addr
    BY <1>5, <1>6, <2>2
  <2>4. KindOf(e)'
    BY <1>1, <1>2, <1>3, <2>1, <2>2, <2>3 DEF CowInv, KindInv, KindOf, AtPage, Behind, KeepsEntries, Kept, At
  <2>5. CopyOf(e)'
    BY <1>1, <1>2, <1>3, <2>1, <2>2, OrderFacts DEF CowInv, CopyInv, CopyOf, Same, KeepsEntries, Kept, Child, At
  <2>6. Calm' => Calm /\ CalmOf(e)'
    BY <1>1, <1>2, <1>3, <2>1, LayoutAssumption DEF CowInv, CalmInv, CalmOf, Calm, Ready, KeepsEntries, Kept, Addr
  <2> HIDE DEF new
  <2> QED
    BY <1>1, <1>2, <1>3, <1>4, <2>1, <2>4, <2>5, <2>6, MoveKeeps DEF new, AtPage
<1>9. CASE Treatment(e) \notin {"skip", "copy"}
  <2> DEFINE new == [kind |-> kind, step |-> "child", i |-> i, child |-> c, pte |-> PermOf(e, a)]
  <2>1. PermOf(e, a) \in {"r", "w", "cow"}
    BY <1>2, EntryKinds DEF CowInv
  <2>2. /\ new \in Frames /\ frame' = [frame EXCEPT ![e] = new] /\ frame'[e] = new
        /\ fault' = fault
    BY <1>1, <1>2, <1>9, <2>1, OrderFacts, PermAssumption DEF ReadEntry, Frames, CowInv, TypeOK, Child
  <2>3. /\ Mapped(mem, e, a) /\ kind \in {"fork", "fork_v0"}
        /\ a = UxStack => "fork" \in kinds /\ kind # "fork"
        /\ kind = "fork_v0" => PermOf(e, a) # "w"
        /\ PermOf(e, a) = "cow" => "fork" \in kinds
        /\ a = Stack => PermOf(e, a) # "r"
    BY <1>2, <1>9, LayoutAssumption DEF Treatment, CowInv, SpaceInv, SpaceOf
  <2>4. a \in Addr /\ (kind = "fork_v0" => PermOf(e, a) = "r")
    BY <1>5, <1>6, <2>1, <2>3
  <2>5. KindOf(e)'
    BY <1>1, <1>2, <1>3, <2>2, <2>3, <2>4 DEF CowInv, KindInv, KindOf, AtPage, Behind, KeepsEntries, Kept, At
  <2>6. CopyOf(e)'
    BY <1>1, <1>2, <1>3, <2>2, <2>3, <2>4, OrderFacts DEF CowInv, CopyInv, CopyOf, Same, KeepsEntries, Kept, Child, At
  <2>7. Calm' => Calm /\ CalmOf(e)'
    BY <1>1, <1>2, <1>3, <2>2, LayoutAssumption DEF CowInv, CalmInv, CalmOf, Calm, Ready, KeepsEntries, Kept, Addr
  <2> HIDE DEF new
  <2> QED
    BY <1>1, <1>2, <1>3, <1>4, <2>2, <2>5, <2>6, <2>7, MoveKeeps DEF new, AtPage
<1> QED
  BY <1>7, <1>8, <1>9

LEMMA LoopEndKeeps ==
  ASSUME CowInv, NEW e \in Env, LoopEnd(e)
  PROVE  Implements
<1> PICK last : last = IF frame[e].kind = "fork" THEN "uxstack" ELSE "start"
  OBVIOUS
<1> DEFINE i == frame[e].i
           new == [kind |-> frame[e].kind, step |-> last, i |-> i, child |-> Child(e), pte |-> frame[e].pte]
<1>1. /\ UNCHANGED <<status, upcall, pgfault_handler, kinds, forks, refused, mem, content, fault>>
      /\ InFork(e, "read") /\ i > Len(Order)
      /\ frame' = [frame EXCEPT ![e].step = last]
  BY DEF LoopEnd, library, Step
<1>2. /\ Child(e) \in Env /\ Child(e) # e /\ Child(e) # None
      /\ i = Len(Order) + 1 /\ last \in {"uxstack", "start"}
      /\ frame[e].kind \in kinds /\ frame[e].kind \in {"fork", "fork_v0", "dumbfork"}
      /\ Runs(e) /\ frame[e].step = "read" /\ frame[e] \in Frames
  BY <1>1, Reading, OrderFacts
<1>3. KeepsEntries
  BY <1>1, SameEntries DEF CowInv
<1>4. /\ content' \in [Page -> Value] /\ forks' \in Nat /\ refused' \in BOOLEAN
      /\ \A y \in Env, b \in VA : Finds(y, b)
  BY <1>1 DEF CowInv, TypeOK, Finds
<1>5. /\ new \in Frames /\ frame' = [frame EXCEPT ![e] = new] /\ frame'[e] = new
  <2>1. new = [frame[e] EXCEPT !.step = last]
    BY <1>2 DEF Frames, Child
  <2>2. new \in Frames
    BY <1>2 DEF Frames, Child
  <2>3. frame' = [frame EXCEPT ![e] = new] /\ frame'[e] = new
    BY <1>1, <2>1 DEF CowInv, TypeOK
  <2> QED
    BY <2>2, <2>3
<1>6. KindOf(e)'
  BY <1>1, <1>2, <1>5 DEF CowInv, KindInv, KindOf, AtPage, Behind
<1>7. CopyOf(e)'
  BY <1>1, <1>2, <1>3, <1>5, OrderFacts DEF CowInv, CopyInv, CopyOf, Same, KeepsEntries, Kept, Child
<1>8. Calm' => Calm /\ CalmOf(e)'
  BY <1>1, <1>2, <1>3, <1>5, LayoutAssumption DEF CowInv, CalmInv, CalmOf, Calm, Ready, KeepsEntries, Kept, Addr
<1>9. /\ new.child = Child(e) /\ new.step \in Behind /\ new.step \notin {"self", "copy", "unmap", "user"}
  BY <1>2 DEF Behind
<1> HIDE DEF new
<1> QED
  BY <1>1, <1>2, <1>3, <1>4, <1>5, <1>6, <1>7, <1>8, <1>9, MoveKeeps

LEMMA SetPgfaultHandlerKeeps ==
  ASSUME CowInv, NEW e \in Env, SetPgfaultHandler(e)
  PROVE  Implements
<1> DEFINE new == [kind |-> frame[e].kind, step |-> "exofork", i |-> frame[e].i,
                   child |-> None, pte |-> frame[e].pte]
           p == Pick(mem)
<1>1. /\ status' = status /\ kinds' = kinds /\ fault' = fault /\ UNCHANGED forks
      /\ Runs(e) /\ frame[e].step = "handler"
      /\ mem' = Alloc(e, UxStack) /\ content' = Zeroed
      /\ frame' = [frame EXCEPT ![e].step = "exofork"]
  BY DEF SetPgfaultHandler, InFork, Step
<1>2. /\ frame[e] \in Frames /\ Child(e) = None
      /\ frame[e].kind = "fork" /\ "fork" \in kinds
      /\ fault[e] = NoFault /\ status[e] = "RUNNABLE"
      /\ UxStack \in VA
  BY <1>1, LayoutAssumption DEF CowInv, TypeOK, FrameInv, FrameOf, KindInv, KindOf, Runs, AtPage, Behind
<1>3. new \in Frames /\ frame' = [frame EXCEPT ![e] = new] /\ frame'[e] = new
  <2>1. new = [frame[e] EXCEPT !.step = "exofork"] /\ new \in Frames
    BY <1>2 DEF Frames, Child
  <2> QED
    BY <1>1, <2>1 DEF CowInv, TypeOK
<1>4. /\ content' \in [Page -> Value]
      /\ \A y \in Env, b \in VA : Finds(y, b)
  BY <1>1, AllocZeroes DEF CowInv, TypeOK, Finds
<1>5. CopyOf(e)' /\ frame' \in [Env -> Frames] /\ \A y \in Env \ {e} : frame'[y] = frame[y]
  BY <1>3 DEF CopyOf, Child, CowInv, TypeOK
<1>6. CASE AllocFails(e, UxStack)
  <2>1. KeepsEntries
    BY <1>1, <1>2, <1>6, AllocKeeps DEF CowInv
  <2>2. upcall' = upcall /\ pgfault_handler' = pgfault_handler /\ refused' = TRUE
    BY <1>6 DEF SetPgfaultHandler
  <2>3. KindOf(e)'
    BY <1>1, <1>2, <1>3, <2>2 DEF KindOf, AtPage, Behind
  <2>4. forks' \in Nat /\ ~Calm'
    BY <1>1, <2>2 DEF CowInv, TypeOK, Calm
  <2> HIDE DEF new
  <2> QED
    BY <1>1, <1>2, <1>3, <1>4, <1>5, <2>1, <2>2, <2>3, <2>4, MoveKeeps DEF new
<1>7. CASE ~AllocFails(e, UxStack)
  <2>1. /\ SetsEntry(e, UxStack, p, "w")
        /\ p \in Page /\ p # None
        /\ \A y \in Env, b \in VA : PageOf(y, b) # p
    BY <1>1, <1>2, <1>7, AllocSets DEF CowInv
  <2>2. /\ refused' = refused
        /\ upcall' = [upcall EXCEPT ![e] = TRUE]
        /\ pgfault_handler' = [pgfault_handler EXCEPT ![e] = TRUE]
    BY <1>7 DEF SetPgfaultHandler
  <2>3. /\ upcall'[e] /\ pgfault_handler'[e]
        /\ \A y \in Env \ {e} : upcall'[y] = upcall[y] /\ pgfault_handler'[y] = pgfault_handler[y]
        /\ upcall' \in [Env -> BOOLEAN] /\ pgfault_handler' \in [Env -> BOOLEAN]
    BY <2>2, Zenon DEF CowInv, TypeOK
  <2> HIDE DEF p
  <2>4. Concerns(e, e)
    BY <1>1, <1>2, <1>4, <1>5, <2>1, <2>3 DEF Concerns, Quiet, SetsEntry, Elsewhere
  <2>5. TypeOK'
    BY <1>1, <1>4, <1>5, <2>1, <2>2, <2>3 DEF TypeOK, CowInv, Elsewhere, SetsEntry, Sound
  <2>6. FrameInv'
    BY <1>1, <1>2, <1>3, <1>5, <2>3 DEF FrameInv, FrameOf, CowInv, Begun, Child
  <2>7. KindOf(e)'
    BY <1>1, <1>2, <1>3 DEF KindOf, AtPage, Behind
  <2>8. SpaceOf(e)'
    BY <1>1, <1>2, <1>3, <2>1, LayoutAssumption DEF SpaceInv, SpaceOf, CowInv, Begun, Elsewhere, SetsEntry, Kept
  <2>9. FaultOf(e)'
    BY <1>1, <1>2 DEF FaultOf, NoFault
  <2>10. ShareInv'
    <3> SUFFICES ASSUME NEW x \in Env, NEW y \in Env, NEW a \in VA, NEW b \in VA
                 PROVE  ShareOf(x, a, y, b)'
      BY DEF ShareInv
    <3>1. ShareOf(x, a, y, b)
      BY DEF CowInv, ShareInv
    <3>2. CASE (x = e /\ a = UxStack) \/ (y = e /\ b = UxStack)
      BY <2>1, <3>2 DEF ShareOf, SetsEntry, Elsewhere, Kept
    <3>3. CASE ~((x = e /\ a = UxStack) \/ (y = e /\ b = UxStack))
      <4>1. Kept(x, a) /\ Kept(y, b)
        BY <2>1, <3>3 DEF SetsEntry, Elsewhere
      <4> QED
        BY <1>1, <1>3, <1>5, <3>1, <4>1 DEF ShareOf, MayShare, Temp, Kept, Child, At
    <3> QED
      BY <3>2, <3>3
  <2>11. Calm' => Calm /\ CalmOf(e)'
    <3>1. Ready(e)'
      BY <2>1, <2>3 DEF Ready, SetsEntry
    <3> QED
      BY <1>1, <2>2, <3>1 DEF CowInv, CalmInv, CalmOf, Calm
  <2>12. Unseen(e, e)
    BY <1>1, <1>2, <1>4, <2>1, LayoutAssumption DEF Unseen, Begun, Finds, Addr, SetsEntry, Elsewhere, Kept
  <2> QED
    BY <1>5, <2>1, <2>4, <2>5, <2>6, <2>7, <2>8, <2>9, <2>10, <2>11, <2>12, StutterKeeps DEF SetsEntry, Elsewhere
<1> QED
  BY <1>6, <1>7

LEMMA ExoforkKeeps ==
  ASSUME CowInv, NEW e \in Env, Exofork(e)
  PROVE  Implements
<1>1. /\ Runs(e) /\ frame[e].step = "exofork" /\ status[e] = "RUNNABLE" /\ fault[e] = NoFault
      /\ content' = content /\ kinds' = kinds /\ UNCHANGED forks
      /\ frame[e] \in Frames
  BY DEF Exofork, InFork, Runs, CowInv, TypeOK
<1>2. CASE Panic(e) /\ refused' = TRUE /\ UNCHANGED <<mem, upcall, pgfault_handler>>
  <2>1. KeepsEntries
    BY <1>2, SameEntries DEF CowInv
  <2>2. /\ content' \in [Page -> Value] /\ \A y \in Env, b \in VA : Finds(y, b)
        /\ UNCHANGED library /\ ~Calm' /\ refused' \in BOOLEAN
    BY <1>1, <1>2 DEF Finds, CowInv, TypeOK, Calm, library
  <2> QED
    BY <1>1, <1>2, <2>1, <2>2, PanicKeeps
<1>3. ASSUME NEW n \in Env, status[n] \in {"FREE", "KILLED"}, mem.free # {},
             mem' = EnvSetupVm(mem, n, Pick(mem)),
             status' = [status EXCEPT ![n] = "NOT_RUNNABLE"],
             upcall' = [upcall EXCEPT ![n] = FALSE],
             pgfault_handler' = [pgfault_handler EXCEPT ![n] = pgfault_handler[e]],
             frame' = [frame EXCEPT ![e].step = "read", ![e].i = 1, ![e].child = n],
             fault' = fault, refused' = refused
      PROVE  Implements
  <2> DEFINE new == [kind |-> frame[e].kind, step |-> "read", i |-> 1, child |-> n, pte |-> frame[e].pte]
  <2>1. n # e /\ n # None /\ frame[n] = NoFrame /\ fault[n] = NoFault
    BY <1>1, <1>3, SpaceAssumption DEF CowInv, FrameInv, FrameOf, Begun
  <2>2. /\ mem.pgdir[n] = None /\ \A va \in VA : ~Mapped(mem, n, va)
    BY <1>3 DEF CowInv, SpaceInv, SpaceOf
  <2>3. frame \in [Env -> Frames] /\ 1 \in 0 .. Len(Order) + 1
    BY OrderFacts DEF CowInv, TypeOK
  <2>4. /\ frame' \in [Env -> Frames] /\ frame'[e] = new
        /\ \A y \in Env \ {e} : frame'[y] = frame[y]
        /\ status' \in [Env -> {"FREE", "NOT_RUNNABLE", "RUNNABLE", "KILLED", "PANIC"}]
        /\ status'[n] = "NOT_RUNNABLE" /\ \A y \in Env \ {n} : status'[y] = status[y]
    <3>1. frame'[e] = new /\ \A y \in Env \ {e} : frame'[y] = frame[y]
      BY <1>3, <2>3 DEF Frames
    <3>2. new \in Frames
      BY <2>3 DEF Frames
    <3>3. frame' \in [Env -> Frames]
      <4> HIDE DEF new
      <4>1. DOMAIN frame' = Env /\ frame' = [y \in Env |-> frame'[y]]
        BY <1>3, <2>3
      <4> QED
        BY <2>3, <3>1, <3>2, <4>1
    <3>4. status \in [Env -> {"FREE", "NOT_RUNNABLE", "RUNNABLE", "KILLED", "PANIC"}]
      BY DEF CowInv, TypeOK
    <3> QED
      BY <1>3, <3>1, <3>3, <3>4
  <2>5. /\ \A y \in Env \ {n} : upcall'[y] = upcall[y] /\ pgfault_handler'[y] = pgfault_handler[y]
        /\ upcall' \in [Env -> BOOLEAN] /\ pgfault_handler' \in [Env -> BOOLEAN]
        /\ pgfault_handler'[n] = pgfault_handler[e]
    BY <1>3 DEF CowInv, TypeOK
  <2>6. /\ Sound(mem)' /\ mem'.pde = mem.pde /\ mem'.pte = mem.pte
        /\ \A y \in Env \ {n} : mem'.pgdir[y] = mem.pgdir[y]
    <3>1. Pick(mem) \in mem.free /\ mem.pgdir \in [Env -> Page \cup {None}]
      BY <1>3, PickFree, MemoryParts DEF CowInv, Sound
    <3>2. /\ Sound(mem)' /\ mem'.pde = mem.pde /\ mem'.pte = mem.pte
          /\ mem'.pgdir = [mem.pgdir EXCEPT ![n] = Pick(mem)]
      BY <1>3, <2>2, <3>1, EnvSetupVmSound DEF CowInv
    <3> QED
      BY <3>1, <3>2
  <2>7. \A y \in Env, b \in VA : Kept(y, b) /\ (HasTable(y, b) => HasTable(y, b)')
    BY <2>6 DEF Kept, Mapped, PageOf, PermOf, HasTable
  <2>8. Concerns(e, n)
    <3>1. pgfault_handler'[n] => "fork" \in kinds
      BY <2>5 DEF CowInv, KindInv, KindOf
    <3>2. \A y \in Env \ {e, n} : Quiet(y) /\ \A b \in VA : Finds(y, b)
      BY <1>1, <1>3, <2>4, <2>5, <2>6, <2>7 DEF Quiet, Finds
    <3> QED
      BY <1>1, <1>3, <2>1, <2>4, <3>1, <3>2 DEF Concerns
  <2>9. TypeOK'
    BY <1>1, <1>3, <2>4, <2>5, <2>6 DEF TypeOK, CowInv, Sound
  <2>10. FrameInv'
    <3> SUFFICES ASSUME NEW y \in Env
                 PROVE  FrameOf(y)'
      BY DEF FrameInv
    <3>1. Child(y) # n
      BY <1>3, <2>1 DEF CowInv, FrameInv, FrameOf
    <3>2. CASE y = e
      BY <1>1, <1>3, <2>1, <2>4, <3>2 DEF FrameOf, Begun, Child, CowInv, FrameInv
    <3>3. CASE y # e
      BY <1>1, <1>3, <2>1, <2>4, <2>5, <3>1, <3>3 DEF FrameOf, Begun, Child, CowInv, FrameInv
    <3> QED
      BY <3>2, <3>3
  <2>11. KindOf(e)'
    BY <1>1, <1>3, <2>1, <2>4, <2>5, OrderFacts DEF KindInv, KindOf, AtPage, Behind, CowInv
  <2>12. SpaceOf(e)' /\ SpaceOf(n)'
    BY <1>1, <1>3, <2>1, <2>2, <2>4, <2>7, LayoutAssumption DEF SpaceInv, SpaceOf, CowInv, Begun, Kept
  <2>13. FaultOf(e)'
    BY <1>1, <1>3 DEF FaultOf, NoFault
  <2>14. ShareInv'
    <3> SUFFICES ASSUME NEW x \in Env, NEW y \in Env, NEW a \in VA, NEW b \in VA
                 PROVE  ShareOf(x, a, y, b)'
      BY DEF ShareInv
    <3>1. ShareOf(x, a, y, b) /\ Kept(x, a) /\ Kept(y, b)
      BY <2>7 DEF CowInv, ShareInv
    <3> QED
      BY <1>1, <1>3, <2>4, <3>1 DEF ShareOf, MayShare, Temp, Kept, Child, At
  <2>15. CopyOf(e)'
    BY <2>2, <2>4, <2>7, OrderFacts, LayoutAssumption DEF CopyOf, Child, Kept
  <2>16. Calm' => Calm /\ CalmOf(e)' /\ CalmOf(n)'
    BY <1>1, <1>3, <2>1, <2>4, <2>5, <2>7, LayoutAssumption DEF CalmInv, CalmOf, Calm, Ready, CowInv, Kept, Addr
  <2>17. Unseen(e, n)
    BY <1>1, <1>3, <2>1, <2>4, <2>7, LayoutAssumption DEF Unseen, Begun, Finds, Addr, Kept
  <2> QED
    BY <2>6, <2>8, <2>9, <2>10, <2>11, <2>12, <2>13, <2>14, <2>15, <2>16, <2>17, StutterKeeps
<1> QED
  BY <1>2, <1>3 DEF Exofork

\* The frame after a step: nothing in it changes but the step, or the page.
Stays(e, step, i) ==
  /\ frame' \in [Env -> Frames] /\ \A y \in Env \ {e} : frame'[y] = frame[y]
  /\ frame'[e].step = step /\ frame'[e].i = i
  /\ frame'[e].kind = frame[e].kind /\ frame'[e].child = frame[e].child
  /\ frame'[e].pte = frame[e].pte

LEMMA Stepped ==
  ASSUME TypeOK, NEW e \in Env,
         NEW step \in {"self", "map", "copy", "unmap", "upcall", "start"}, Step(e, step)
  PROVE  Stays(e, step, frame[e].i) /\ fault' = fault
<1>1. frame \in [Env -> Frames]
  BY DEF TypeOK
<1>2. frame' = [frame EXCEPT ![e].step = step] /\ fault' = fault
  BY DEF Step
<1>3. /\ frame'[e].step = step /\ frame'[e].i = frame[e].i
      /\ frame'[e].kind = frame[e].kind /\ frame'[e].child = frame[e].child
      /\ frame'[e].pte = frame[e].pte
      /\ frame'[e] \in Frames
  BY <1>1, <1>2 DEF Frames
<1>4. frame' \in [Env -> Frames] /\ \A y \in Env \ {e} : frame'[y] = frame[y]
  BY <1>1, <1>2, <1>3
<1> QED
  BY <1>2, <1>3, <1>4 DEF Stays

LEMMA NextPaged ==
  ASSUME TypeOK, NEW e \in Env, NextPage(e), frame[e].i \in DOMAIN Order
  PROVE  Stays(e, "read", frame[e].i + 1) /\ fault' = fault
<1>1. frame \in [Env -> Frames] /\ frame[e].i + 1 \in 0 .. Len(Order) + 1
  BY OrderFacts DEF TypeOK
<1>2. frame' = [frame EXCEPT ![e].step = "read", ![e].i = frame[e].i + 1] /\ fault' = fault
  BY <1>1 DEF NextPage, Frames
<1>3. /\ frame'[e].step = "read" /\ frame'[e].i = frame[e].i + 1
      /\ frame'[e].kind = frame[e].kind /\ frame'[e].child = frame[e].child
      /\ frame'[e].pte = frame[e].pte
      /\ frame'[e] \in Frames
  BY <1>1, <1>2 DEF Frames
<1>4. frame' \in [Env -> Frames] /\ \A y \in Env \ {e} : frame'[y] = frame[y]
  BY <1>1, <1>2, <1>3
<1> QED
  BY <1>2, <1>3, <1>4 DEF Stays

\* e is in a fork, and has a child that has not started.
Forks(e, c) ==
  /\ c \in Env /\ c # e /\ c # None /\ Child(e) = c
  /\ status[e] = "RUNNABLE" /\ fault[e] = NoFault
  /\ status[c] = "NOT_RUNNABLE" /\ frame[c] = NoFrame /\ fault[c] = NoFault
  /\ frame[e] \in Frames /\ frame[e].kind \in kinds
  /\ frame[e].kind \in {"fork", "fork_v0", "dumbfork"}
  /\ pgfault_handler[c] => "fork" \in kinds
  /\ \A x \in Env \ {e} : Child(x) # e /\ Child(x) # c

LEMMA Forking ==
  ASSUME CowInv, NEW e \in Env, Runs(e), Child(e) # None
  PROVE  Forks(e, Child(e))
<1>1. FrameOf(e) /\ KindOf(e) /\ frame[e] \in Frames /\ kinds \in KindSets
      /\ status[e] = "RUNNABLE" /\ fault[e] = NoFault
  BY DEF CowInv, TypeOK, FrameInv, KindInv, Runs
<1>2. /\ Child(e) \in Env /\ status[Child(e)] = "NOT_RUNNABLE" /\ Child(e) # e
      /\ frame[e].step # "user"
  BY <1>1 DEF FrameOf, Frames, Child, AtPage, Behind
<1>3. FrameOf(Child(e)) /\ KindOf(Child(e))
  BY <1>2 DEF CowInv, FrameInv, KindInv
<1>4. \A x \in Env \ {e} : Child(x) # e /\ Child(x) # Child(e)
  BY <1>1, <1>2, SpaceAssumption DEF CowInv, FrameInv, FrameOf
<1> QED
  BY <1>1, <1>2, <1>3, <1>4 DEF Forks, FrameOf, KindOf, Begun, KindSets

\* In the loop, at a page
LEMMA AtPageOf ==
  ASSUME CowInv, NEW e \in Env, Runs(e), frame[e].step \in AtPage
  PROVE  /\ Forks(e, Child(e))
         /\ frame[e].i \in DOMAIN Order /\ Order[frame[e].i] = At(e)
         /\ At(e) \in Addr /\ At(e) \in VA /\ At(e) \notin {UxStack, Pftemp, Utemp}
         /\ Mapped(mem, e, At(e)) /\ HasTable(e, At(e)) /\ PageOf(e, At(e)) \in Page
         /\ \A j \in DOMAIN Order : Order[j] = At(e) => j = frame[e].i
<1>1. FrameOf(e) /\ KindOf(e) /\ SpaceOf(e)
  BY DEF CowInv, FrameInv, KindInv, SpaceInv
<1>2. Child(e) # None
  BY <1>1 DEF FrameOf, AtPage
<1>3. /\ frame[e].i \in DOMAIN Order /\ Order[frame[e].i] = At(e)
      /\ At(e) \in Addr /\ Mapped(mem, e, At(e))
  BY <1>1 DEF KindOf, At
<1>4. At(e) \in VA /\ At(e) \notin {UxStack, Pftemp, Utemp}
  BY <1>3, LayoutAssumption DEF Addr
<1> QED
  BY <1>1, <1>2, <1>3, <1>4, Forking, EntryKinds, OrderAssumption DEF SpaceOf, CowInv

\* The page that a child gets while it is filled is nobody else's.
LEMMA FilledIsOwn ==
  ASSUME CowInv, NEW e \in Env, Runs(e), frame[e].step \in {"map", "copy", "unmap"},
         NEW x \in Env, NEW b \in VA, PageOf(x, b) = PageOf(Child(e), At(e))
  PROVE  \/ x = Child(e) /\ b = At(e)
         \/ x = e /\ b = Utemp /\ frame[e].step \in {"copy", "unmap"}
<1> DEFINE c == Child(e)
           a == At(e)
<1>1. Forks(e, c) /\ a \in VA /\ a # Utemp
  BY AtPageOf DEF AtPage
<1>2. PermOf(c, a) = "w" /\ Mapped(mem, c, a)
  BY <1>1, EntryKinds DEF CowInv, CopyInv, CopyOf, Forks
<1>3. ShareOf(c, a, x, b)
  BY <1>1 DEF CowInv, ShareInv, Forks
<1> QED
  BY <1>1, <1>2, <1>3 DEF ShareOf, MayShare, Temp, Forks, NoFrame, FrameAt, NoFault

LEMMA MapInChildKeeps ==
  ASSUME CowInv, NEW e \in Env, MapInChild(e)
  PROVE  Implements
<1>1. PICK c \in Env, a \in VA, i \in DOMAIN Order,
           perm \in {"r", "cow"} : c = Child(e) /\ a = At(e) /\ i = frame[e].i
             /\ perm = IF frame[e].kind = "fork" /\ frame[e].pte # "r" THEN "cow" ELSE "r"
  BY AtPageOf DEF MapInChild, MapInChildAs, InFork, Runs, AtPage, Forks
<1>2. /\ Runs(e) /\ frame[e].step = "child" /\ fault[e] = NoFault
      /\ mem' = Map(e, a, c, a, perm) /\ content' = content /\ UNCHANGED library
      /\ upcall' = upcall /\ pgfault_handler' = pgfault_handler /\ kinds' = kinds
      /\ UNCHANGED forks
      /\ IF Maps(e, a, c, a, perm)
         THEN (IF perm = "r" THEN NextPage(e) ELSE Step(e, "self")) /\ UNCHANGED <<status, refused>>
         ELSE Panic(e) /\ refused' = (refused \/ ~Inserts(mem, c, a, Pick(mem)))
  BY <1>1 DEF MapInChild, MapInChildAs, InFork, Runs, SysPageMap, library
<1>3. /\ Forks(e, c) /\ Order[i] = a /\ a \in Addr /\ a \notin {UxStack, Pftemp, Utemp}
      /\ Mapped(mem, e, a) /\ HasTable(e, a) /\ PageOf(e, a) \in Page
      /\ \A j \in DOMAIN Order : Order[j] = a => j = i
      /\ perm \in Perm
  BY <1>1, <1>2, AtPageOf, PermAssumption DEF AtPage
<1>4. /\ frame[e].kind \in {"fork", "fork_v0"}
      /\ frame[e].kind = "fork_v0" => PermOf(e, a) = "r"
      /\ frame[e].kind = "fork" => IF a = Stack THEN frame[e].pte # "r" ELSE frame[e].pte = PermOf(e, a)
      /\ a \in Data \cup {Stack} => PermOf(e, a) # "r"
      /\ ~Mapped(mem, c, a)
  BY <1>1, <1>2, <1>3, SpaceAssumption DEF CowInv, KindInv, KindOf, CopyInv, CopyOf, SpaceInv, SpaceOf, Forks
<1>5. CASE ~Maps(e, a, c, a, perm)
  <2>1. mem' = mem /\ ~Inserts(mem, c, a, Pick(mem))
    BY <1>2, <1>3, <1>5 DEF Map, Maps
  <2>2. KeepsEntries
    BY <2>1, SameEntries DEF CowInv
  <2>3. /\ content' \in [Page -> Value] /\ \A y \in Env, b \in VA : Finds(y, b)
        /\ refused' \in BOOLEAN /\ ~Calm' /\ Panic(e) /\ status[e] = "RUNNABLE"
    BY <1>2, <1>3, <1>5, <2>1 DEF Finds, CowInv, TypeOK, Calm, Forks
  <2> QED
    BY <1>2, <2>2, <2>3, PanicKeeps
<1>6. CASE Maps(e, a, c, a, perm)
  <2>1. SetsEntry(c, a, PageOf(e, a), perm)
    BY <1>2, <1>3, <1>6, MapSets DEF CowInv
  <2>2. PICK s \in {"read", "self"}, k \in {i, i + 1} :
          /\ Stays(e, s, k) /\ fault' = fault
          /\ s = "read" => perm = "r" /\ k = i + 1
          /\ s = "self" => perm = "cow" /\ k = i /\ frame[e].kind = "fork"
    BY <1>1, <1>2, <1>3, <1>6, Stepped, NextPaged DEF CowInv
  <2>3. status' = status /\ refused' = refused
    BY <1>2, <1>6
  <2>4. perm = "r" => PermOf(e, a) = "r" /\ a \in Text
    BY <1>1, <1>3, <1>4 DEF Addr
  <2>5. Concerns(e, c)
    BY <1>2, <1>3, <2>1, <2>2, <2>3 DEF Concerns, Quiet, SetsEntry, Elsewhere, Stays, Forks, Finds, Kept
  <2>6. TypeOK'
    BY <1>2, <2>1, <2>2, <2>3 DEF TypeOK, CowInv, Elsewhere, SetsEntry, Sound, Stays
  <2>7. FrameInv'
    BY <1>2, <1>3, <2>2, <2>3 DEF FrameInv, FrameOf, CowInv, Begun, Child, Stays, Forks, AtPage, Behind
  <2>8. KindOf(e)'
    BY <1>2, <1>3, <2>1, <2>2, OrderFacts DEF KindInv, KindOf, CowInv, At, Elsewhere, SetsEntry, Kept, Stays, Forks, AtPage, Behind
  <2>9. SpaceOf(e)'
    BY <1>2, <1>3, <2>1, <2>2, <2>3, LayoutAssumption DEF SpaceInv, SpaceOf, CowInv, Begun, Elsewhere, SetsEntry, Kept, Stays, Forks
  <2>10. SpaceOf(c)'
    <3>1. SpaceOf(c) /\ status'[c] = "NOT_RUNNABLE" /\ fault'[c] = fault[c] /\ frame'[c] = frame[c]
      BY <1>3, <2>2, <2>3 DEF CowInv, SpaceInv, Forks, Stays
    <3>2. perm = "cow" => "fork" \in kinds
      BY <1>1, <1>3, <1>4 DEF Forks
    <3> QED
      BY <1>2, <1>3, <2>1, <2>4, <3>1, <3>2, LayoutAssumption DEF SpaceOf, Begun, Elsewhere, SetsEntry, Kept
  <2>11. FaultOf(e)'
    BY <1>2, <2>2 DEF FaultOf, NoFault
  <2>12. ShareInv'
    <3> SUFFICES ASSUME NEW x \in Env, NEW y \in Env, NEW m \in VA, NEW n \in VA
                 PROVE  ShareOf(x, m, y, n)'
      BY DEF ShareInv
    <3>1. ShareOf(x, m, y, n) /\ ShareOf(e, a, x, m) /\ ShareOf(e, a, y, n) /\ ShareOf(x, m, e, a) /\ ShareOf(y, n, e, a)
      BY DEF CowInv, ShareInv
    <3>2. \A z \in Env \ {e} : frame'[z] = frame[z]
      BY <2>2 DEF Stays
    <3>3. CASE ~(x = c /\ m = a) /\ ~(y = c /\ n = a)
      <4>1. Kept(x, m) /\ Kept(y, n)
        BY <2>1, <3>3 DEF SetsEntry, Elsewhere
      <4> QED
        BY <1>2, <2>2, <3>1, <3>2, <4>1 DEF ShareOf, MayShare, Temp, Kept, Child, At, Stays, NoFault
    <3>4. CASE x = c /\ m = a /\ ~(y = c /\ n = a)
      <4>1. Kept(y, n) /\ Kept(e, a)
        BY <1>3, <2>1, <3>4 DEF SetsEntry, Elsewhere, Forks
      <4> SUFFICES ASSUME PageOf(y, n)' = PageOf(x, m)'
                   PROVE  MayShare(x, m, y, n)'
        BY DEF ShareOf
      <4>2. PageOf(y, n) = PageOf(e, a)
        BY <2>1, <3>4, <4>1 DEF SetsEntry, Kept
      <4>3. y # c /\ n = a
        BY <1>2, <1>3, <3>1, <3>4, <4>2 DEF ShareOf, MayShare, Temp, Forks, NoFault, NoFrame
      <4> QED
        BY <1>3, <2>1, <3>4, <4>3 DEF MayShare, SetsEntry
    <3>5. CASE y = c /\ n = a /\ ~(x = c /\ m = a)
      <4>1. Kept(x, m) /\ Kept(e, a)
        BY <1>3, <2>1, <3>5 DEF SetsEntry, Elsewhere, Forks
      <4> SUFFICES ASSUME Mapped(mem', x, m), PageOf(y, n)' = PageOf(x, m)'
                   PROVE  MayShare(x, m, y, n)'
        BY DEF ShareOf
      <4>2. PageOf(x, m) = PageOf(e, a) /\ Mapped(mem, x, m) /\ PermOf(x, m)' = PermOf(x, m)
        BY <2>1, <3>5, <4>1 DEF SetsEntry, Kept
      <4>3. x # c /\ m = a
        BY <1>2, <1>3, <3>1, <3>5, <4>2 DEF ShareOf, MayShare, Temp, Forks, NoFault, NoFrame
      <4>4. PermOf(x, m) = "w" => x = e
        BY <1>2, <1>3, <3>1, <4>2, <4>3 DEF ShareOf, MayShare, Temp, Forks
      <4>5. PermOf(x, m)' = "w" => frame'[x].step = "self" /\ Child(x)' = c /\ At(x)' = a
        BY <1>1, <1>3, <2>2, <2>4, <4>2, <4>3, <4>4 DEF Stays, Child, At, Forks
      <4> QED
        BY <1>3, <3>5, <4>3, <4>5 DEF MayShare
    <3> QED
      BY <3>3, <3>4, <3>5 DEF ShareOf
  <2>13. CopyOf(e)'
    <3>1. Child(e)' = c /\ Mapped(mem', e, a) /\ Mapped(mem', c, a) /\ PageOf(c, a)' = PageOf(e, a)'
      BY <1>3, <2>1, <2>2 DEF SetsEntry, Elsewhere, Kept, Stays, Child, Forks
    <3>2. Same(e, c, a)'
      BY <3>1 DEF Same
    <3>3. \A j \in DOMAIN Order : Order[j] \in Addr /\ j # i =>
            /\ Mapped(mem', c, Order[j]) <=> Mapped(mem, c, Order[j])
            /\ Same(e, c, Order[j]) => Same(e, c, Order[j])'
      BY <1>2, <1>3, <2>1, OrderFacts DEF SetsEntry, Elsewhere, Kept, Same, Forks
    <3>4. CopyOf(e)
      BY DEF CowInv, CopyInv
    <3> QED
      BY <1>1, <1>2, <1>3, <2>2, <3>1, <3>2, <3>3, <3>4, OrderFacts DEF CopyOf, Stays, Forks, At
  <2>14. Calm' => Calm /\ CalmOf(e)' /\ CalmOf(c)'
    BY <1>2, <1>3, <2>1, <2>2, <2>3, LayoutAssumption DEF CalmInv, CalmOf, Calm, Ready, CowInv, Elsewhere, SetsEntry, Kept, Stays, Forks, Addr
  <2>15. Unseen(e, c)
    BY <1>2, <1>3, <2>1, <2>3, LayoutAssumption DEF Unseen, Begun, Finds, Addr, SetsEntry, Elsewhere, Kept, Forks
  <2> QED
    BY <2>1, <2>5, <2>6, <2>7, <2>8, <2>9, <2>10, <2>11, <2>12, <2>13, <2>14, <2>15, StutterKeeps DEF SetsEntry, Elsewhere
<1> QED
  BY <1>5, <1>6

LEMMA MapInSelfKeeps ==
  ASSUME CowInv, NEW e \in Env, MapInSelf(e)
  PROVE  Implements
<1>1. PICK c \in Env, a \in VA, i \in DOMAIN Order : c = Child(e) /\ a = At(e) /\ i = frame[e].i
  BY AtPageOf DEF MapInSelf, InFork, Runs, AtPage, Forks
<1>2. /\ Runs(e) /\ frame[e].step = "self" /\ fault[e] = NoFault
      /\ mem' = Map(e, a, e, a, "cow") /\ content' = content
      /\ upcall' = upcall /\ pgfault_handler' = pgfault_handler /\ kinds' = kinds
      /\ UNCHANGED forks
  BY <1>1 DEF MapInSelf, InFork, Runs, SysPageMap, library
<1>3. /\ Forks(e, c) /\ Order[i] = a /\ a \in Addr /\ a \notin {UxStack, Pftemp, Utemp}
      /\ Mapped(mem, e, a) /\ HasTable(e, a) /\ PageOf(e, a) \in Page
      /\ \A j \in DOMAIN Order : Order[j] = a => j = i
      /\ frame[e].kind = "fork"
  BY <1>1, <1>2, AtPageOf DEF AtPage, CowInv, KindInv, KindOf
<1>4. Maps(e, a, e, a, "cow")
  BY <1>3 DEF Maps, Inserts, HasTable
<1>5. SetsEntry(e, a, PageOf(e, a), "cow")
  BY <1>2, <1>3, <1>4, MapSets, PermAssumption DEF CowInv
<1>6. /\ Stays(e, "read", i + 1) /\ fault' = fault
      /\ status' = status /\ refused' = refused
  BY <1>1, <1>4, NextPaged DEF CowInv, MapInSelf, SysPageMap
<1>7. Concerns(e, c)
  BY <1>2, <1>3, <1>5, <1>6 DEF Concerns, Quiet, SetsEntry, Elsewhere, Stays, Forks, Finds, Kept
<1>8. TypeOK'
  BY <1>2, <1>5, <1>6 DEF TypeOK, CowInv, Elsewhere, SetsEntry, Sound, Stays
<1>9. FrameInv'
  BY <1>2, <1>3, <1>6 DEF FrameInv, FrameOf, CowInv, Begun, Child, Stays, Forks, AtPage, Behind
<1>10. KindOf(e)'
  BY <1>1, <1>2, <1>3, <1>6, OrderFacts DEF KindInv, KindOf, CowInv, Stays, Forks, AtPage, Behind
<1>11. SpaceOf(e)'
  BY <1>2, <1>3, <1>5, <1>6, LayoutAssumption DEF SpaceInv, SpaceOf, CowInv, Begun, Elsewhere, SetsEntry, Kept, Stays, Forks
<1>12. SpaceOf(c)'
  <2>1. SpaceOf(c) /\ status'[c] = "NOT_RUNNABLE" /\ fault'[c] = fault[c] /\ frame'[c] = frame[c]
    BY <1>3, <1>6 DEF CowInv, SpaceInv, Forks, Stays
  <2> QED
    BY <1>2, <1>3, <1>5, <2>1, LayoutAssumption DEF SpaceOf, Begun, Elsewhere, SetsEntry, Kept, Forks
<1>13. FaultOf(e)'
  BY <1>2, <1>6 DEF FaultOf, NoFault
<1>14. ShareInv'
  <2> SUFFICES ASSUME NEW x \in Env, NEW y \in Env, NEW m \in VA, NEW n \in VA
               PROVE  ShareOf(x, m, y, n)'
    BY DEF ShareInv
  <2>1. ShareOf(x, m, y, n)
    BY DEF CowInv, ShareInv
  <2>2. \A z \in Env, b \in VA :
          /\ Mapped(mem', z, b) <=> Mapped(mem, z, b)
          /\ PageOf(z, b)' = PageOf(z, b)
          /\ PermOf(z, b)' = IF z = e /\ b = a THEN "cow" ELSE PermOf(z, b)
    BY <1>3, <1>5 DEF SetsEntry, Elsewhere, Kept
  <2>3. \A z \in Env \ {e} : frame'[z] = frame[z]
    BY <1>6 DEF Stays
  <2> QED
    BY <1>1, <1>2, <1>6, <2>1, <2>2, <2>3 DEF ShareOf, MayShare, Temp, Child, At, Stays, NoFault
<1>15. CopyOf(e)'
  <2>1. \A j \in DOMAIN Order : Order[j] \in Addr =>
          /\ Mapped(mem', c, Order[j]) <=> Mapped(mem, c, Order[j])
          /\ Same(e, c, Order[j]) => Same(e, c, Order[j])'
    BY <1>2, <1>3, <1>5, OrderFacts DEF SetsEntry, Elsewhere, Kept, Same, Forks
  <2>2. CopyOf(e) /\ Child(e)' = c
    BY <1>3, <1>6 DEF CowInv, CopyInv, Stays, Forks, Child
  <2> QED
    BY <1>1, <1>2, <1>3, <1>6, <2>1, <2>2, OrderFacts DEF CopyOf, Stays, Forks, At
<1>16. Calm' => Calm /\ CalmOf(e)' /\ CalmOf(c)'
  BY <1>2, <1>3, <1>5, <1>6, LayoutAssumption DEF CalmInv, CalmOf, Calm, Ready, CowInv, Elsewhere, SetsEntry, Kept, Stays, Forks, Addr
<1>17. Unseen(e, c)
  BY <1>2, <1>3, <1>5, <1>6, LayoutAssumption DEF Unseen, Begun, Finds, Addr, SetsEntry, Elsewhere, Kept, Forks
<1> QED
  BY <1>5, <1>7, <1>8, <1>9, <1>10, <1>11, <1>12, <1>13, <1>14, <1>15, <1>16, <1>17, StutterKeeps DEF SetsEntry, Elsewhere

\* A call for a page of the child that finds none
LEMMA ChildAllocFails ==
  ASSUME CowInv, NEW e \in Env, NEW c \in Env, NEW va \in VA, status[e] = "RUNNABLE",
         mem' = Alloc(c, va), content' = Zeroed, AllocFails(c, va),
         Panic(e), refused' = TRUE, UNCHANGED library
  PROVE  Implements
<1>1. KeepsEntries
  BY AllocKeeps DEF CowInv
<1>2. /\ content' \in [Page -> Value] /\ \A y \in Env, b \in VA : Finds(y, b)
      /\ ~Calm' /\ refused' \in BOOLEAN
  BY AllocZeroes DEF CowInv, TypeOK, Finds, Calm
<1> QED
  BY <1>1, <1>2, PanicKeeps

\* A page that the parent has taken for its child
LEMMA ChildGetsPage ==
  ASSUME CowInv, NEW e \in Env, NEW c \in Env, Forks(e, c), NEW va \in VA,
         mem' = Alloc(c, va), content' = Zeroed, ~AllocFails(c, va),
         UNCHANGED <<library, status, refused, fault>>,
         NEW step, Stays(e, step, frame[e].i), NEW a, a = At(e),
         \/ /\ va = a /\ frame[e].step = "alloc" /\ step = "map"
         \/ /\ va = UxStack /\ frame[e].step = "uxstack" /\ step = "upcall"
  PROVE  Implements
<1> DEFINE p == Pick(mem)
<1>1. /\ upcall' = upcall /\ pgfault_handler' = pgfault_handler /\ kinds' = kinds
      /\ UNCHANGED forks
  BY DEF library
<1>2. /\ SetsEntry(c, va, p, "w")
      /\ p \in Page /\ p # None
      /\ \A y \in Env, b \in VA : PageOf(y, b) # p
  BY AllocSets DEF CowInv
<1>3. /\ content' \in [Page -> Value]
      /\ \A y \in Env, b \in VA : Finds(y, b)
  BY AllocZeroes DEF CowInv, TypeOK, Finds
<1> HIDE DEF p
<1>4. /\ va \notin {Pftemp, Utemp} /\ Runs(e)
      /\ va = UxStack => frame[e].kind = "fork" /\ "fork" \in kinds
      /\ frame[e].step = "uxstack" => frame[e].kind = "fork"
      /\ step = "map" => va = a /\ frame[e].i \in DOMAIN Order /\ Order[frame[e].i] = a /\ a \in Addr
                         /\ (\A j \in DOMAIN Order : Order[j] = a => j = frame[e].i)
      /\ step = "upcall" => va \notin Addr
  <2>1. Runs(e) /\ (frame[e].step = "uxstack" => frame[e].kind = "fork")
    BY DEF Forks, Runs, CowInv, KindInv, KindOf
  <2>2. step = "map" => frame[e].step \in AtPage
    BY DEF AtPage
  <2> QED
    BY <2>1, <2>2, AtPageOf, LayoutAssumption DEF Forks, Addr
<1>5. Concerns(e, c)
  BY <1>1, <1>2, <1>3 DEF Concerns, Quiet, SetsEntry, Elsewhere, Stays, Forks
<1>6. TypeOK'
  BY <1>1, <1>2, <1>3 DEF TypeOK, CowInv, Elsewhere, SetsEntry, Sound, Stays
<1>7. FrameInv'
  BY <1>1 DEF FrameInv, FrameOf, CowInv, Begun, Child, Stays, Forks, AtPage, Behind
<1>8. KindOf(e)'
  BY <1>1, <1>2, <1>4, OrderFacts DEF KindInv, KindOf, CowInv, At, Elsewhere, SetsEntry, Kept, Stays, Forks, AtPage, Behind
<1>9. SpaceOf(e)'
  BY <1>1, <1>2, LayoutAssumption DEF SpaceInv, SpaceOf, CowInv, Begun, Elsewhere, SetsEntry, Kept, Stays, Forks
<1>10. SpaceOf(c)'
  <2>1. SpaceOf(c) /\ status'[c] = "NOT_RUNNABLE" /\ fault'[c] = fault[c] /\ frame'[c] = frame[c]
    BY DEF CowInv, SpaceInv, Forks, Stays
  <2> QED
    BY <1>1, <1>2, <1>4, <2>1, LayoutAssumption DEF SpaceOf, Begun, Elsewhere, SetsEntry, Kept
<1>11. FaultOf(e)'
  BY DEF FaultOf, NoFault, Forks
<1>12. ShareInv'
  <2> SUFFICES ASSUME NEW x \in Env, NEW y \in Env, NEW m \in VA, NEW n \in VA
               PROVE  ShareOf(x, m, y, n)'
    BY DEF ShareInv
  <2>1. ShareOf(x, m, y, n)
    BY DEF CowInv, ShareInv
  <2>2. \A z \in Env \ {e} : frame'[z] = frame[z]
    BY DEF Stays
  <2>3. CASE (x = c /\ m = va) \/ (y = c /\ n = va)
    BY <1>2, <2>3 DEF ShareOf, SetsEntry, Elsewhere, Kept
  <2>4. CASE ~((x = c /\ m = va) \/ (y = c /\ n = va))
    <3>1. Kept(x, m) /\ Kept(y, n)
      BY <1>2, <2>4 DEF SetsEntry, Elsewhere
    <3> QED
      BY <2>1, <2>2, <3>1 DEF ShareOf, MayShare, Temp, Kept, Child, At, Stays
  <2> QED
    BY <2>3, <2>4
<1>13. CopyOf(e)'
  <2>1. \A j \in DOMAIN Order : Order[j] \in Addr /\ Order[j] # va =>
          /\ Mapped(mem', c, Order[j]) <=> Mapped(mem, c, Order[j])
          /\ Same(e, c, Order[j]) => Same(e, c, Order[j])'
    BY <1>2, <1>3, OrderFacts DEF SetsEntry, Elsewhere, Kept, Same, Forks, Finds
  <2>2. CopyOf(e) /\ Child(e)' = c /\ Child(e) = c
    BY DEF CowInv, CopyInv, Stays, Forks, Child
  <2>3. At(e)' = a /\ PermOf(c, va)' = "w"
    BY <1>2 DEF Stays, At, SetsEntry
  <2>4. CASE step = "map"
    BY <1>4, <2>1, <2>2, <2>3, <2>4, OrderFacts DEF CopyOf, Stays, Forks
  <2>5. CASE step = "upcall"
    BY <1>4, <2>1, <2>2, <2>3, <2>5, OrderFacts DEF CopyOf, Stays, Forks
  <2> QED
    BY <2>4, <2>5
<1>14. Calm' => Calm /\ CalmOf(e)' /\ CalmOf(c)'
  BY <1>1, <1>2, <1>4, LayoutAssumption DEF CalmInv, CalmOf, Calm, Ready, CowInv, Elsewhere, SetsEntry, Kept, Stays, Forks, Addr
<1>15. Unseen(e, c)
  BY <1>1, <1>2, <1>3, LayoutAssumption DEF Unseen, Begun, Finds, Addr, SetsEntry, Elsewhere, Kept, Forks
<1> QED
  BY <1>2, <1>5, <1>6, <1>7, <1>8, <1>9, <1>10, <1>11, <1>12, <1>13, <1>14, <1>15, StutterKeeps DEF SetsEntry, Elsewhere

LEMMA CopyAllocKeeps ==
  ASSUME CowInv, NEW e \in Env, CopyAlloc(e)
  PROVE  Implements
<1>1. PICK c \in Env, a \in VA : c = Child(e) /\ a = At(e)
  BY AtPageOf DEF CopyAlloc, InFork, Runs, AtPage, Forks
<1>2. /\ frame[e].step = "alloc" /\ Forks(e, c) /\ status[e] = "RUNNABLE"
      /\ mem' = Alloc(c, a) /\ content' = Zeroed /\ UNCHANGED library
  BY <1>1, AtPageOf DEF CopyAlloc, InFork, Runs, SysPageAlloc, AtPage, Forks
<1>3. CASE AllocFails(c, a)
  BY <1>1, <1>2, <1>3, ChildAllocFails DEF CopyAlloc, SysPageAlloc
<1>4. CASE ~AllocFails(c, a)
  <2>1. Stays(e, "map", frame[e].i) /\ UNCHANGED <<status, refused, fault>>
    BY <1>1, <1>4, Stepped DEF CopyAlloc, SysPageAlloc, CowInv
  <2> QED
    BY <1>1, <1>2, <1>4, <2>1, ChildGetsPage
<1> QED
  BY <1>3, <1>4

LEMMA ChildUxStackKeeps ==
  ASSUME CowInv, NEW e \in Env, ChildUxStack(e)
  PROVE  Implements
<1>1. /\ frame[e].step = "uxstack" /\ status[e] = "RUNNABLE" /\ Runs(e)
      /\ Child(e) # None /\ UxStack \in VA
  BY LayoutAssumption DEF ChildUxStack, InFork, Runs, CowInv, FrameInv, FrameOf
<1>2. PICK c \in Env : c = Child(e)
  BY <1>1, Forking DEF Forks
<1> PICK a : a = At(e)
  OBVIOUS
<1>3. /\ Forks(e, c)
      /\ mem' = Alloc(c, UxStack) /\ content' = Zeroed /\ UNCHANGED library
  BY <1>1, <1>2, Forking DEF ChildUxStack, SysPageAlloc
<1>4. CASE AllocFails(c, UxStack)
  BY <1>1, <1>2, <1>3, <1>4, ChildAllocFails DEF ChildUxStack, SysPageAlloc
<1>5. CASE ~AllocFails(c, UxStack)
  <2>1. Stays(e, "upcall", frame[e].i) /\ UNCHANGED <<status, refused, fault>>
    BY <1>2, <1>5, Stepped DEF ChildUxStack, SysPageAlloc, CowInv
  <2> QED
    BY <1>1, <1>2, <1>3, <1>5, <2>1, ChildGetsPage
<1> QED
  BY <1>4, <1>5

LEMMA CopyMapKeeps ==
  ASSUME CowInv, NEW e \in Env, CopyMap(e)
  PROVE  Implements
<1>1. PICK c \in Env, a \in VA, i \in DOMAIN Order : c = Child(e) /\ a = At(e) /\ i = frame[e].i
  BY AtPageOf DEF CopyMap, InFork, Runs, AtPage, Forks
<1>2. /\ Runs(e) /\ frame[e].step = "map" /\ fault[e] = NoFault
      /\ mem' = Map(c, a, e, Utemp, "w") /\ content' = content /\ UNCHANGED library
      /\ upcall' = upcall /\ pgfault_handler' = pgfault_handler /\ kinds' = kinds
      /\ UNCHANGED forks
      /\ IF Maps(c, a, e, Utemp, "w") THEN Step(e, "copy") /\ UNCHANGED <<status, refused>>
         ELSE Panic(e) /\ refused' = (refused \/ ~Inserts(mem, e, Utemp, Pick(mem)))
  BY <1>1 DEF CopyMap, InFork, Runs, SysPageMap, library
<1>3. /\ Forks(e, c) /\ Order[i] = a /\ a \in Addr /\ a \notin {UxStack, Pftemp, Utemp}
      /\ \A j \in DOMAIN Order : Order[j] = a => j = i
      /\ Utemp \in VA /\ Utemp \notin Addr \cup {UxStack, Pftemp}
      /\ frame[e].kind \in {"fork_v0", "dumbfork"}
  BY <1>1, <1>2, AtPageOf, LayoutAssumption DEF AtPage, CowInv, KindInv, KindOf, Addr
<1>4. PermOf(c, a) = "w" /\ Mapped(mem, c, a) /\ PageOf(c, a) # None
  BY <1>1, <1>2, <1>3, EntryKinds DEF CowInv, CopyInv, CopyOf, Forks
<1>5. CASE ~Maps(c, a, e, Utemp, "w")
  <2>1. mem' = mem /\ ~Inserts(mem, e, Utemp, Pick(mem))
    BY <1>2, <1>4, <1>5 DEF Map, Maps
  <2>2. KeepsEntries
    BY <2>1, SameEntries DEF CowInv
  <2>3. /\ content' \in [Page -> Value] /\ \A y \in Env, b \in VA : Finds(y, b)
        /\ refused' \in BOOLEAN /\ ~Calm' /\ Panic(e) /\ status[e] = "RUNNABLE"
    BY <1>2, <1>3, <1>5, <2>1 DEF Finds, CowInv, TypeOK, Calm, Forks
  <2> QED
    BY <1>2, <2>2, <2>3, PanicKeeps
<1>6. CASE Maps(c, a, e, Utemp, "w")
  <2>1. SetsEntry(e, Utemp, PageOf(c, a), "w")
    BY <1>2, <1>3, <1>6, MapSets, PermAssumption DEF CowInv
  <2>2. /\ Stays(e, "copy", i) /\ fault' = fault
        /\ status' = status /\ refused' = refused
    BY <1>1, <1>2, <1>6, Stepped DEF CowInv
  <2>3. \A x \in Env, b \in VA : PageOf(x, b) = PageOf(c, a) => x = c /\ b = a
    BY <1>1, <1>2, FilledIsOwn
  <2>4. Concerns(e, c)
    BY <1>2, <1>3, <2>1, <2>2 DEF Concerns, Quiet, SetsEntry, Elsewhere, Stays, Forks, Finds, Kept
  <2>5. TypeOK'
    BY <1>2, <2>1, <2>2 DEF TypeOK, CowInv, Elsewhere, SetsEntry, Sound, Stays
  <2>6. FrameInv'
    BY <1>2, <1>3, <2>2 DEF FrameInv, FrameOf, CowInv, Begun, Child, Stays, Forks, AtPage, Behind
  <2>7. KindOf(e)'
    BY <1>1, <1>2, <1>3, <2>1, <2>2 DEF KindInv, KindOf, CowInv, At, Elsewhere, SetsEntry, Kept, Stays, Forks, AtPage, Behind, Addr
  <2>8. SpaceOf(e)'
    BY <1>2, <1>3, <2>1, <2>2, LayoutAssumption DEF SpaceInv, SpaceOf, CowInv, Begun, Elsewhere, SetsEntry, Kept, Stays, Forks
  <2>9. SpaceOf(c)'
    <3>1. SpaceOf(c) /\ status'[c] = "NOT_RUNNABLE" /\ fault'[c] = fault[c] /\ frame'[c] = frame[c]
      BY <1>3, <2>2 DEF CowInv, SpaceInv, Forks, Stays
    <3> QED
      BY <1>2, <1>3, <2>1, <3>1, LayoutAssumption DEF SpaceOf, Begun, Elsewhere, SetsEntry, Kept, Forks
  <2>10. FaultOf(e)'
    BY <1>2, <2>2 DEF FaultOf, NoFault
  <2>11. ShareInv'
    <3> SUFFICES ASSUME NEW x \in Env, NEW y \in Env, NEW m \in VA, NEW n \in VA
                 PROVE  ShareOf(x, m, y, n)'
      BY DEF ShareInv
    <3>1. ShareOf(x, m, y, n)
      BY DEF CowInv, ShareInv
    <3>2. \A z \in Env \ {e} : frame'[z] = frame[z]
      BY <2>2 DEF Stays
    <3>3. CASE ~(x = e /\ m = Utemp) /\ ~(y = e /\ n = Utemp)
      <4>1. Kept(x, m) /\ Kept(y, n)
        BY <2>1, <3>3 DEF SetsEntry, Elsewhere
      <4> QED
        BY <1>2, <2>2, <3>1, <3>2, <4>1 DEF ShareOf, MayShare, Temp, Kept, Child, At, Stays, NoFault
    <3>4. CASE (x = e /\ m = Utemp) \/ (y = e /\ n = Utemp)
      <4> SUFFICES ASSUME x # y \/ m # n, PageOf(y, n)' = PageOf(x, m)'
                   PROVE  MayShare(x, m, y, n)'
        BY DEF ShareOf
      <4>1. (x = e /\ m = Utemp /\ y = c /\ n = a) \/ (y = e /\ n = Utemp /\ x = c /\ m = a)
        BY <2>1, <2>3, <3>4 DEF SetsEntry, Elsewhere, Kept
      <4>2. frame'[e].step = "copy" /\ Child(e)' = c /\ At(e)' = a
        BY <1>1, <2>2 DEF Stays, Child, At
      <4> QED
        BY <1>3, <4>1, <4>2 DEF MayShare, Temp, Forks
    <3> QED
      BY <3>3, <3>4
  <2>12. CopyOf(e)'
    <3>1. \A j \in DOMAIN Order : Order[j] \in Addr =>
            /\ Mapped(mem', c, Order[j]) <=> Mapped(mem, c, Order[j])
            /\ Same(e, c, Order[j]) => Same(e, c, Order[j])'
      BY <1>2, <1>3, <2>1, OrderFacts DEF SetsEntry, Elsewhere, Kept, Same, Forks
    <3>2. CopyOf(e) /\ Child(e)' = c /\ Child(e) = c /\ At(e)' = a
      BY <1>1, <1>3, <2>2 DEF CowInv, CopyInv, Stays, Forks, Child, At
    <3>3. PermOf(c, a)' = "w" /\ PermOf(e, Utemp)' = "w" /\ PageOf(e, Utemp)' = PageOf(c, a)'
      BY <1>3, <1>4, <2>1 DEF SetsEntry, Elsewhere, Kept, Forks
    <3> QED
      BY <1>1, <1>2, <1>3, <2>2, <3>1, <3>2, <3>3, OrderFacts DEF CopyOf, Stays, Forks
  <2>13. Calm' => Calm /\ CalmOf(e)' /\ CalmOf(c)'
    BY <1>2, <1>3, <2>1, <2>2, LayoutAssumption DEF CalmInv, CalmOf, Calm, Ready, CowInv, Elsewhere, SetsEntry, Kept, Stays, Forks, Addr
  <2>14. Unseen(e, c)
    BY <1>2, <1>3, <2>1, <2>2, LayoutAssumption DEF Unseen, Begun, Finds, Addr, SetsEntry, Elsewhere, Kept, Forks
  <2> QED
    BY <2>1, <2>4, <2>5, <2>6, <2>7, <2>8, <2>9, <2>10, <2>11, <2>12, <2>13, <2>14, StutterKeeps DEF SetsEntry, Elsewhere
<1> QED
  BY <1>5, <1>6

LEMMA CopyMoveKeeps ==
  ASSUME CowInv, NEW e \in Env, CopyMove(e)
  PROVE  Implements
<1>1. PICK c \in Env, a \in VA, i \in DOMAIN Order : c = Child(e) /\ a = At(e) /\ i = frame[e].i
  BY AtPageOf DEF CopyMove, InFork, Runs, AtPage, Forks
<1> DEFINE p == PageOf(e, Utemp)
<1>2. /\ Runs(e) /\ frame[e].step = "copy" /\ fault[e] = NoFault
      /\ mem' = mem /\ content' = [content EXCEPT ![p] = content[PageOf(e, a)]]
      /\ upcall' = upcall /\ pgfault_handler' = pgfault_handler /\ kinds' = kinds
      /\ UNCHANGED forks /\ status' = status /\ refused' = refused
      /\ Stays(e, "unmap", i) /\ fault' = fault
  BY <1>1, Stepped DEF CopyMove, InFork, Runs, CowInv, library
<1>3. /\ Forks(e, c) /\ Order[i] = a /\ a \in Addr /\ a \notin {UxStack, Pftemp, Utemp}
      /\ \A j \in DOMAIN Order : Order[j] = a => j = i
      /\ Mapped(mem, e, a) /\ PageOf(e, a) \in Page
      /\ frame[e].kind \in {"fork_v0", "dumbfork"}
  BY <1>1, <1>2, AtPageOf, LayoutAssumption DEF AtPage, CowInv, KindInv, KindOf, Addr
<1>4. PermOf(c, a) = "w" /\ Mapped(mem, c, a) /\ PageOf(c, a) \in Page /\ p = PageOf(c, a)
  BY <1>1, <1>2, <1>3, EntryKinds DEF CowInv, CopyInv, CopyOf, Forks
<1>5. KeepsEntries
  BY <1>2, SameEntries DEF CowInv
<1>6. \A x \in Env, b \in VA : PageOf(x, b) = p => (x = c /\ b = a) \/ (x = e /\ b = Utemp)
  BY <1>1, <1>2, <1>4, FilledIsOwn
<1>7. /\ content' \in [Page -> Value]
      /\ \A x \in Env, b \in VA : ~(x = c /\ b = a) /\ ~(x = e /\ b = Utemp) => Finds(x, b)
      /\ content'[p] = content[PageOf(e, a)]
  <2>1. content \in [Page -> Value] /\ \A y \in Env, b \in VA : Mapped(mem, y, b) => PageOf(y, b) \in Page
    BY EntryKinds DEF CowInv, TypeOK
  <2> QED
    BY <1>2, <1>3, <1>4, <1>6, <2>1 DEF Finds
<1> HIDE DEF p
<1>8. Concerns(e, c)
  <2>1. \A y \in Env \ {e, c} : Quiet(y)
    BY <1>2, <1>5 DEF Quiet, KeepsEntries, Stays
  <2> QED
    BY <1>2, <1>3, <1>7, <2>1 DEF Concerns, Stays, Forks
<1>9. TypeOK'
  BY <1>2, <1>7 DEF TypeOK, CowInv, Stays
<1>10. FrameInv'
  BY <1>2, <1>3 DEF FrameInv, FrameOf, CowInv, Begun, Child, Stays, Forks, AtPage, Behind
<1>11. KindOf(e)'
  BY <1>2, <1>3, <1>5, LayoutAssumption DEF KindInv, KindOf, CowInv, At, KeepsEntries, Kept, Stays, Forks, AtPage, Behind, Addr
<1>12. SpaceOf(e)' /\ SpaceOf(c)'
  <2>1. SpaceOf(c) /\ status'[c] = "NOT_RUNNABLE" /\ fault'[c] = fault[c] /\ frame'[c] = frame[c]
    BY <1>2, <1>3 DEF CowInv, SpaceInv, Forks, Stays
  <2>2. SpaceOf(c)'
    BY <1>2, <1>3, <1>5, <2>1, LayoutAssumption DEF SpaceOf, Begun, KeepsEntries, Kept
  <2>3. SpaceOf(e)'
    BY <1>2, <1>3, <1>5, LayoutAssumption DEF SpaceInv, SpaceOf, CowInv, Begun, KeepsEntries, Kept, Stays, Forks
  <2> QED
    BY <2>2, <2>3
<1>13. FaultOf(e)'
  BY <1>2 DEF FaultOf, NoFault
<1>14. ShareInv'
  <2> SUFFICES ASSUME NEW x \in Env, NEW y \in Env, NEW m \in VA, NEW n \in VA
               PROVE  ShareOf(x, m, y, n)'
    BY DEF ShareInv
  <2>1. ShareOf(x, m, y, n) /\ Kept(x, m) /\ Kept(y, n)
    BY <1>5 DEF CowInv, ShareInv, KeepsEntries
  <2>2. \A z \in Env \ {e} : frame'[z] = frame[z]
    BY <1>2 DEF Stays
  <2> QED
    BY <1>1, <1>2, <2>1, <2>2 DEF ShareOf, MayShare, Temp, Kept, Child, At, Stays, NoFault
<1>15. CopyOf(e)'
  <2>1. \A j \in DOMAIN Order : Order[j] \in Addr =>
          /\ Mapped(mem', c, Order[j]) <=> Mapped(mem, c, Order[j])
          /\ j # i => (Same(e, c, Order[j]) => Same(e, c, Order[j])')
    BY <1>3, <1>5, <1>7, OrderFacts, LayoutAssumption DEF KeepsEntries, Kept, Same, Forks, Finds, Addr
  <2>2. CopyOf(e) /\ Child(e)' = c /\ Child(e) = c /\ At(e)' = a
    BY <1>1, <1>2, <1>3 DEF CowInv, CopyInv, Stays, Forks, Child, At
  <2>3. PermOf(c, a)' = "w" /\ PermOf(e, Utemp)' = PermOf(e, Utemp) /\ PageOf(e, Utemp)' = p /\ PageOf(c, a)' = p
    BY <1>3, <1>4, <1>5, LayoutAssumption DEF KeepsEntries, Kept, Forks, p
  <2>4. Same(e, c, a)'
    <3>1. PageOf(e, a)' = PageOf(e, a) /\ Mapped(mem', e, a) /\ Mapped(mem', c, a) /\ Finds(e, a)
      BY <1>3, <1>4, <1>5, <1>7 DEF KeepsEntries, Kept, Forks
    <3> QED
      BY <1>3, <1>7, <2>3, <3>1 DEF Same, Finds
  <2> QED
    BY <1>1, <1>2, <1>3, <2>1, <2>2, <2>3, <2>4, OrderFacts DEF CopyOf, Stays, Forks
<1>16. Calm' => Calm /\ CalmOf(e)' /\ CalmOf(c)'
  BY <1>2, <1>3, <1>5, LayoutAssumption DEF CalmInv, CalmOf, Calm, Ready, CowInv, KeepsEntries, Kept, Stays, Forks, Addr
<1>17. Unseen(e, c)
  BY <1>2, <1>3, <1>5, <1>7, LayoutAssumption DEF Unseen, Begun, Finds, Addr, KeepsEntries, Kept, Forks
<1> QED
  BY <1>5, <1>8, <1>9, <1>10, <1>11, <1>12, <1>13, <1>14, <1>15, <1>16, <1>17, StutterKeeps DEF KeepsEntries

LEMMA CopyUnmapKeeps ==
  ASSUME CowInv, NEW e \in Env, CopyUnmap(e)
  PROVE  Implements
<1>1. PICK c \in Env, a \in VA, i \in DOMAIN Order : c = Child(e) /\ a = At(e) /\ i = frame[e].i
  BY AtPageOf DEF CopyUnmap, InFork, Runs, AtPage, Forks
<1>2. /\ Runs(e) /\ frame[e].step = "unmap" /\ fault[e] = NoFault
      /\ mem' = PageRemove(mem, e, Utemp) /\ content' = content
      /\ upcall' = upcall /\ pgfault_handler' = pgfault_handler /\ kinds' = kinds
      /\ UNCHANGED forks /\ status' = status /\ refused' = refused
      /\ Stays(e, "read", i + 1) /\ fault' = fault
  BY <1>1, NextPaged DEF CopyUnmap, InFork, Runs, CowInv, library
<1>3. /\ Forks(e, c) /\ Order[i] = a /\ a \in Addr /\ a \notin {UxStack, Pftemp, Utemp}
      /\ \A j \in DOMAIN Order : Order[j] = a => j = i
      /\ Utemp \in VA /\ Utemp \notin Addr \cup {UxStack, Pftemp, Stack}
      /\ frame[e].kind \in {"fork_v0", "dumbfork"}
  BY <1>1, <1>2, AtPageOf, LayoutAssumption DEF AtPage, CowInv, KindInv, KindOf, Addr
<1>4. ClearsEntry(e, Utemp)
  BY <1>2, <1>3, RemoveClears DEF CowInv
<1>5. Concerns(e, c)
  BY <1>2, <1>3, <1>4 DEF Concerns, Quiet, ClearsEntry, Elsewhere, Stays, Forks, Finds, Kept
<1>6. TypeOK'
  BY <1>2, <1>4 DEF TypeOK, CowInv, Elsewhere, ClearsEntry, Sound, Stays
<1>7. FrameInv'
  BY <1>2, <1>3 DEF FrameInv, FrameOf, CowInv, Begun, Child, Stays, Forks, AtPage, Behind
<1>8. KindOf(e)'
  BY <1>1, <1>2, <1>3, OrderFacts DEF KindInv, KindOf, CowInv, Stays, Forks, AtPage, Behind
<1>9. SpaceOf(e)'
  BY <1>2, <1>3, <1>4, LayoutAssumption DEF SpaceInv, SpaceOf, CowInv, Begun, Elsewhere, ClearsEntry, Kept, Stays, Forks
<1>10. SpaceOf(c)'
  <2>1. SpaceOf(c) /\ status'[c] = "NOT_RUNNABLE" /\ fault'[c] = fault[c] /\ frame'[c] = frame[c]
    BY <1>2, <1>3 DEF CowInv, SpaceInv, Forks, Stays
  <2> QED
    BY <1>2, <1>3, <1>4, <2>1, LayoutAssumption DEF SpaceOf, Begun, Elsewhere, ClearsEntry, Kept, Forks
<1>11. FaultOf(e)'
  BY <1>2 DEF FaultOf, NoFault
<1>12. ShareInv'
  <2> SUFFICES ASSUME NEW x \in Env, NEW y \in Env, NEW m \in VA, NEW n \in VA
               PROVE  ShareOf(x, m, y, n)'
    BY DEF ShareInv
  <2>1. ShareOf(x, m, y, n)
    BY DEF CowInv, ShareInv
  <2>2. \A z \in Env \ {e} : frame'[z] = frame[z]
    BY <1>2 DEF Stays
  <2>3. CASE (x = e /\ m = Utemp) \/ (y = e /\ n = Utemp)
    BY <1>4, <2>3, EntriesAgree DEF ShareOf, ClearsEntry, Elsewhere
  <2>4. CASE ~((x = e /\ m = Utemp) \/ (y = e /\ n = Utemp))
    <3>1. Kept(x, m) /\ Kept(y, n)
      BY <1>4, <2>4 DEF ClearsEntry, Elsewhere
    <3> QED
      BY <1>2, <2>1, <2>2, <2>4, <3>1 DEF ShareOf, MayShare, Temp, Kept, Child, At, Stays, NoFault
  <2> QED
    BY <2>3, <2>4
<1>13. CopyOf(e)'
  <2>1. \A j \in DOMAIN Order : Order[j] \in Addr =>
          /\ Mapped(mem', c, Order[j]) <=> Mapped(mem, c, Order[j])
          /\ Same(e, c, Order[j]) => Same(e, c, Order[j])'
    BY <1>2, <1>3, <1>4, OrderFacts DEF ClearsEntry, Elsewhere, Kept, Same, Forks
  <2>2. CopyOf(e) /\ Child(e)' = c
    BY <1>2, <1>3 DEF CowInv, CopyInv, Stays, Forks, Child
  <2> QED
    BY <1>1, <1>2, <1>3, <2>1, <2>2, OrderFacts DEF CopyOf, Stays, Forks, At
<1>14. Calm' => Calm /\ CalmOf(e)' /\ CalmOf(c)'
  BY <1>2, <1>3, <1>4, LayoutAssumption DEF CalmInv, CalmOf, Calm, Ready, CowInv, Elsewhere, ClearsEntry, Kept, Stays, Forks, Addr
<1>15. Unseen(e, c)
  BY <1>2, <1>3, <1>4, LayoutAssumption DEF Unseen, Begun, Finds, Addr, ClearsEntry, Elsewhere, Kept, Forks
<1> QED
  BY <1>4, <1>5, <1>6, <1>7, <1>8, <1>9, <1>10, <1>11, <1>12, <1>13, <1>14, <1>15, StutterKeeps DEF ClearsEntry, Elsewhere

LEMMA ChildUpcallKeeps ==
  ASSUME CowInv, NEW e \in Env, ChildUpcall(e)
  PROVE  Implements
<1>1. /\ frame[e].step = "upcall" /\ status[e] = "RUNNABLE" /\ Runs(e) /\ fault[e] = NoFault
      /\ frame[e].kind = "fork" /\ frame[e].i = Len(Order) + 1
      /\ Child(e) # None
      /\ kinds' = kinds /\ refused' = refused /\ content' = content /\ UNCHANGED forks
      /\ pgfault_handler' = pgfault_handler
  BY DEF ChildUpcall, InFork, Runs, CowInv, FrameInv, FrameOf, KindInv, KindOf, Behind
<1>2. PICK c \in Env : c = Child(e)
  BY <1>1, Forking DEF Forks
<1>3. Forks(e, c) /\ PermOf(c, UxStack) = "w"
  BY <1>1, <1>2, Forking DEF CowInv, CopyInv, CopyOf
<1>4. CASE upcall[e]
  <2>1. /\ upcall' = [upcall EXCEPT ![c] = TRUE]
        /\ Stays(e, "start", frame[e].i) /\ fault' = fault
        /\ mem' = mem /\ status' = status
    BY <1>2, <1>4, Stepped DEF ChildUpcall, CowInv
  <2>2. /\ upcall'[c] /\ \A y \in Env \ {c} : upcall'[y] = upcall[y]
        /\ upcall' \in [Env -> BOOLEAN]
    BY <2>1, Zenon DEF CowInv, TypeOK
  <2>3. KeepsEntries
    BY <2>1, SameEntries DEF CowInv
  <2>4. Concerns(e, c)
    <3>1. \A y \in Env \ {e, c} : Quiet(y) /\ \A b \in VA : Finds(y, b)
      BY <1>1, <2>1, <2>2, <2>3 DEF Quiet, KeepsEntries, Stays, Finds
    <3> QED
      BY <1>1, <1>3, <2>1, <3>1 DEF Concerns, Forks, Stays
  <2>5. TypeOK'
    BY <1>1, <2>1, <2>2 DEF TypeOK, CowInv, Stays
  <2>6. FrameInv'
    BY <1>1, <1>3, <2>1, <2>2 DEF FrameInv, FrameOf, CowInv, Begun, Child, Stays, Forks, AtPage, Behind, NoFrame, FrameAt
  <2>7. KindOf(e)'
    BY <1>1, <1>3, <2>1 DEF KindInv, KindOf, CowInv, Stays, Forks, AtPage, Behind
  <2>8. SpaceOf(e)'
    BY <1>1, <1>3, <2>1, <2>3, LayoutAssumption DEF SpaceInv, SpaceOf, CowInv, Begun, KeepsEntries, Kept, Stays, Forks
  <2>9. SpaceOf(c)'
    <3>1. SpaceOf(c) /\ status'[c] = "NOT_RUNNABLE" /\ fault'[c] = fault[c] /\ frame'[c] = frame[c]
      BY <1>3, <2>1 DEF CowInv, SpaceInv, Forks, Stays
    <3> QED
      BY <1>1, <1>3, <2>3, <3>1, LayoutAssumption DEF SpaceOf, Begun, KeepsEntries, Kept
  <2>10. FaultOf(e)'
    BY <1>1, <2>1 DEF FaultOf, NoFault
  <2>11. ShareInv'
    <3> SUFFICES ASSUME NEW x \in Env, NEW y \in Env, NEW m \in VA, NEW n \in VA
                 PROVE  ShareOf(x, m, y, n)'
      BY DEF ShareInv
    <3>1. ShareOf(x, m, y, n) /\ Kept(x, m) /\ Kept(y, n)
      BY <2>3 DEF CowInv, ShareInv, KeepsEntries
    <3>2. \A z \in Env \ {e} : frame'[z] = frame[z]
      BY <2>1 DEF Stays
    <3> QED
      BY <1>1, <2>1, <3>1, <3>2 DEF ShareOf, MayShare, Temp, Kept, Child, At, Stays, NoFault
  <2>12. CopyOf(e)'
    <3>1. \A j \in DOMAIN Order : Order[j] \in Addr =>
            /\ Mapped(mem', c, Order[j]) <=> Mapped(mem, c, Order[j])
            /\ Same(e, c, Order[j]) => Same(e, c, Order[j])'
      BY <1>1, <1>3, <2>3, OrderFacts DEF KeepsEntries, Kept, Same, Forks
    <3>2. CopyOf(e) /\ Child(e)' = c /\ PermOf(c, UxStack)' = "w"
      BY <1>3, <2>1, <2>3, LayoutAssumption DEF CowInv, CopyInv, Stays, Forks, Child, KeepsEntries, Kept
    <3> QED
      BY <1>1, <1>3, <2>1, <2>2, <3>1, <3>2, OrderFacts DEF CopyOf, Stays, Forks
  <2>13. Calm' => Calm /\ CalmOf(e)' /\ CalmOf(c)'
    BY <1>1, <1>3, <2>1, <2>2, <2>3, LayoutAssumption DEF CalmInv, CalmOf, Calm, Ready, CowInv, KeepsEntries, Kept, Stays, Forks, Addr
  <2>14. Unseen(e, c)
    BY <1>1, <1>3, <2>1, <2>3, LayoutAssumption DEF Unseen, Begun, Finds, Addr, KeepsEntries, Kept, Forks
  <2> QED
    BY <2>3, <2>4, <2>5, <2>6, <2>7, <2>8, <2>9, <2>10, <2>11, <2>12, <2>13, <2>14, StutterKeeps DEF KeepsEntries
<1>5. CASE ~upcall[e]
  <2>1. /\ mem' = EnvFreePages(mem, c) /\ status' = [status EXCEPT ![c] = "KILLED"]
        /\ fault' = [fault EXCEPT ![c] = NoFault]
        /\ frame' = [frame EXCEPT ![e].step = "start", ![e].child = None]
        /\ upcall' = upcall
    BY <1>2, <1>5 DEF ChildUpcall, Kill
  <2>2. Frees(c)
    BY <2>1, EnvFrees DEF CowInv
  <2>3. ~Calm
    BY <1>1, <1>5 DEF CowInv, CalmInv, CalmOf, Ready
  <2>4. /\ fault' = fault
        /\ status' \in [Env -> {"FREE", "NOT_RUNNABLE", "RUNNABLE", "KILLED", "PANIC"}]
        /\ status'[c] = "KILLED" /\ \A y \in Env \ {c} : status'[y] = status[y]
    BY <1>3, <2>1 DEF CowInv, TypeOK, Forks
  <2>5. /\ frame'[e].step = "start" /\ frame'[e].child = None
        /\ frame'[e].i = frame[e].i /\ frame'[e].kind = "fork"
        /\ \A y \in Env \ {e} : frame'[y] = frame[y]
        /\ frame' \in [Env -> Frames]
    <3>1. frame \in [Env -> Frames]
      BY DEF CowInv, TypeOK
    <3>2. /\ frame'[e].step = "start" /\ frame'[e].child = None
          /\ frame'[e].i = frame[e].i /\ frame'[e].kind = frame[e].kind
      BY <2>1, <3>1 DEF Frames
    <3>3. frame'[e] \in Frames
      BY <2>1, <3>1 DEF Frames
    <3>4. frame' \in [Env -> Frames]  /\ \A y \in Env \ {e} : frame'[y] = frame[y]
      BY <2>1, <3>1, <3>3
    <3> QED
      BY <1>1, <3>2, <3>4
  <2>6. Concerns(e, c)
    <3>1. \A y \in Env \ {e, c} : Quiet(y) /\ \A b \in VA : Finds(y, b)
      BY <1>1, <2>1, <2>2, <2>4, <2>5 DEF Quiet, Frees, Finds
    <3> QED
      BY <1>1, <1>3, <2>4, <2>5, <3>1 DEF Concerns, Forks
  <2>7. TypeOK'
    BY <1>1, <2>1, <2>2, <2>4, <2>5 DEF TypeOK, CowInv, Frees, Sound
  <2>8. FrameInv'
    BY <1>1, <1>3, <1>5, <2>1, <2>4, <2>5 DEF FrameInv, FrameOf, CowInv, Begun, Child, Forks, AtPage, Behind
  <2>9. KindOf(e)'
    BY <1>1, <1>3, <2>5 DEF KindInv, KindOf, CowInv, Forks, AtPage, Behind
  <2>10. SpaceOf(e)'
    BY <1>1, <1>3, <2>2, <2>4, <2>5, LayoutAssumption DEF SpaceInv, SpaceOf, CowInv, Begun, Frees, Kept, Forks
  <2>11. SpaceOf(c)'
    BY <2>2, <2>4, LayoutAssumption DEF SpaceOf, Begun, Frees
  <2>12. FaultOf(e)' /\ CopyOf(e)'
    BY <1>1, <2>4, <2>5 DEF FaultOf, NoFault, CopyOf, Child
  <2>13. ShareInv'
    <3> SUFFICES ASSUME NEW x \in Env, NEW y \in Env, NEW m \in VA, NEW n \in VA
                 PROVE  ShareOf(x, m, y, n)'
      BY DEF ShareInv
    <3>1. ShareOf(x, m, y, n)
      BY DEF CowInv, ShareInv
    <3>2. CASE x = c \/ y = c
      BY <2>2, <3>2, EntriesAgree DEF ShareOf, Frees
    <3>3. CASE x # c /\ y # c
      BY <1>1, <2>2, <2>4, <2>5, <3>1, <3>3 DEF ShareOf, MayShare, Temp, Frees, Kept, Child, At
    <3> QED
      BY <3>2, <3>3
  <2>14. ~Calm'
    BY <1>1, <2>3 DEF Calm
  <2>15. Unseen(e, c)
    BY <1>1, <1>3, <2>2, <2>4, LayoutAssumption DEF Unseen, Begun, Finds, Addr, Frees, Kept, Forks
  <2> QED
    BY <2>2, <2>6, <2>7, <2>8, <2>9, <2>10, <2>11, <2>12, <2>13, <2>14, <2>15, StutterKeeps DEF Frees
<1> QED
  BY <1>4, <1>5

LEMMA StartChildKeeps ==
  ASSUME CowInv, NEW e \in Env, StartChild(e)
  PROVE  Implements
<1>1. /\ frame[e].step = "start" /\ status[e] = "RUNNABLE" /\ Runs(e) /\ fault[e] = NoFault
      /\ frame[e].i = Len(Order) + 1
      /\ kinds' = kinds /\ refused' = refused /\ content' = content /\ UNCHANGED forks
      /\ pgfault_handler' = pgfault_handler /\ upcall' = upcall /\ mem' = mem
  BY DEF StartChild, InFork, Runs, CowInv, KindInv, KindOf, Behind, library
<1>2. KeepsEntries
  BY <1>1, SameEntries DEF CowInv
<1>3. CASE Child(e) = None
  <2>1. ~Calm /\ ~Calm'
    BY <1>1, <1>3 DEF CowInv, FrameInv, FrameOf, CalmInv, CalmOf, Ready, Calm
  <2>2. content' \in [Page -> Value] /\ (\A y \in Env, b \in VA : Finds(y, b)) /\ refused' \in BOOLEAN
        /\ UNCHANGED library
    BY <1>1 DEF CowInv, TypeOK, Finds, library
  <2> QED
    BY <1>1, <1>2, <1>3, <2>1, <2>2, PanicKeeps DEF StartChild
<1>4. CASE Child(e) # None
  <2>1. PICK c \in Env : c = Child(e)
    BY <1>1, <1>4, Forking DEF Forks
  <2>2. Forks(e, c)
    BY <1>1, <1>4, <2>1, Forking
  <2>3. /\ status' = [status EXCEPT ![c] = "RUNNABLE"]
        /\ frame' = [frame EXCEPT ![e] = NoFrame] /\ fault' = fault
    BY <1>4, <2>1 DEF StartChild
  <2>4. NoFrame \in Frames
    BY OrderFacts DEF NoFrame, FrameAt, Frames
  <2>5. /\ frame'[e] = NoFrame /\ \A y \in Env \ {e} : frame'[y] = frame[y]
        /\ status'[c] = "RUNNABLE" /\ \A y \in Env \ {c} : status'[y] = status[y]
        /\ frame' \in [Env -> Frames]
        /\ status' \in [Env -> {"FREE", "NOT_RUNNABLE", "RUNNABLE", "KILLED", "PANIC"}]
    BY <2>3, <2>4 DEF CowInv, TypeOK
  <2>6. Concerns(e, c)
    BY <1>1, <1>2, <2>2, <2>3, <2>5 DEF Concerns, Quiet, KeepsEntries, Forks, Finds, Kept
  <2>7. TypeOK'
    BY <1>1, <2>3, <2>5 DEF TypeOK, CowInv
  <2>8. FrameInv'
    BY <1>1, <2>2, <2>3, <2>5 DEF FrameInv, FrameOf, CowInv, Begun, Child, Forks, NoFrame, FrameAt
  <2>9. KindOf(e)'
    BY <1>1, <2>5 DEF KindInv, KindOf, CowInv, NoFrame, FrameAt, AtPage, Behind
  <2>10. SpaceOf(e)'
    BY <1>1, <1>2, <2>2, <2>3, <2>5, LayoutAssumption DEF SpaceInv, SpaceOf, CowInv, Begun, KeepsEntries, Kept, Forks
  <2>11. SpaceOf(c)'
    <3>1. PICK j \in DOMAIN Order : Order[j] = Stack
      BY OrderAssumption, LayoutAssumption
    <3>2. Stack \in Addr /\ Stack \in VA /\ j < Len(Order) + 1
      BY <3>1, OrderFacts, LayoutAssumption DEF Addr
    <3>3. Mapped(mem, e, Stack)
      BY <1>1 DEF CowInv, SpaceInv, SpaceOf, Begun
    <3>4. Same(e, c, Stack)
      BY <1>1, <1>4, <2>1, <3>1, <3>2 DEF CowInv, CopyInv, CopyOf
    <3>5. Mapped(mem', c, Stack)
      BY <1>2, <3>2, <3>3, <3>4 DEF Same, KeepsEntries, Kept
    <3>6. SpaceOf(c) /\ fault'[c] = fault[c] /\ frame'[c] = frame[c]
      BY <2>2, <2>3, <2>5 DEF CowInv, SpaceInv, Forks
    <3> QED
      BY <1>1, <1>2, <2>5, <3>5, <3>6, LayoutAssumption DEF SpaceOf, Begun, KeepsEntries, Kept
  <2>12. FaultOf(e)' /\ CopyOf(e)'
    BY <1>1, <2>3, <2>5 DEF FaultOf, NoFault, CopyOf, Child, NoFrame, FrameAt
  <2>13. ShareInv'
    <3> SUFFICES ASSUME NEW x \in Env, NEW y \in Env, NEW m \in VA, NEW n \in VA
                 PROVE  ShareOf(x, m, y, n)'
      BY DEF ShareInv
    <3>1. ShareOf(x, m, y, n) /\ Kept(x, m) /\ Kept(y, n)
      BY <1>2 DEF CowInv, ShareInv, KeepsEntries
    <3> QED
      BY <1>1, <2>3, <2>5, <3>1 DEF ShareOf, MayShare, Temp, Kept, Child, At, NoFault
  <2>14. Calm' => Calm /\ CalmOf(e)' /\ CalmOf(c)'
    <3>1. Calm' => Calm /\ CalmOf(e)'
      BY <1>1, <1>2, <2>2, <2>5, LayoutAssumption DEF CalmInv, CalmOf, Calm, Ready, CowInv, KeepsEntries, Kept, Forks, Addr, NoFrame, FrameAt
    <3>2. frame[e].kind = "fork" => Ready(c)'
      BY <1>1, <1>2, <1>4, <2>1, <2>2, LayoutAssumption DEF CowInv, CopyInv, CopyOf, Ready, KeepsEntries, Kept
    <3>3. Calm' /\ frame[e].kind # "fork" => "fork" \notin kinds
      BY <1>1, <2>2 DEF Calm, Forks
    <3>4. /\ pgfault_handler'[c] => "fork" \in kinds
          /\ \A a \in Addr : PermOf(c, a)' = "cow" => "fork" \in kinds
      BY <1>1, <1>2, <2>2, LayoutAssumption DEF Forks, CowInv, SpaceInv, SpaceOf, KeepsEntries, Kept, Addr
    <3>5. frame'[c].kind # "fork"
      BY <2>2, <2>5 DEF Forks, NoFrame, FrameAt
    <3> QED
      BY <2>5, <3>1, <3>2, <3>3, <3>4, <3>5 DEF CalmOf
  <2> QED
    <3>1. CowInv'
      BY <1>2, <2>6, <2>7, <2>8, <2>9, <2>10, <2>11, <2>12, <2>13, <2>14, StepKeeps DEF KeepsEntries
    <3>2. \A a \in Addr : Same(e, c, a)
      <4> SUFFICES ASSUME NEW a \in Addr
                   PROVE  Same(e, c, a)
        OBVIOUS
      <4>1. PICK j \in DOMAIN Order : Order[j] = a
        BY OrderAssumption, LayoutAssumption DEF Addr
      <4> QED
        BY <1>1, <1>4, <2>1, <4>1, OrderFacts DEF CowInv, CopyInv, CopyOf
    <3>3. Stack \in Addr /\ Mapped(mem, e, Stack) /\ Mapped(mem, c, Stack)
      BY <1>1, <3>2 DEF CowInv, SpaceInv, SpaceOf, Begun, Addr, Same
    <3>4. PICK s \in Value : s = content[PageOf(c, Stack)]
      BY <3>3, EntryKinds, LayoutAssumption DEF CowInv, TypeOK
    <3>5. View[e] # None /\ View[c] = None
      BY <1>1, <2>2, ViewOf DEF Live, View, Forks, CowInv, TypeOK
    <3>6. View'[c] = [View[e] EXCEPT ![Stack] = s]
      <4>1. e \in Live /\ c \in Live'
        BY <1>1, <2>5 DEF Live
      <4> QED
        BY <1>1, <3>2, <3>3, <3>4, <4>1 DEF View, Same, PageOf
    <3>7. \A y \in Env \ {c} : View'[y] = View[y]
      BY <1>1, <2>5 DEF View, Live, PageOf
    <3>8. View' = [View EXCEPT ![c] = [View[e] EXCEPT ![Stack] = s]]
      BY <3>6, <3>7 DEF View
    <3> QED
      BY <3>1, <3>5, <3>8 DEF Implements, P!Next, P!Fork
<1> QED
  BY <1>3, <1>4

-----------------------------------------------------------------------------
(* The invariant                                                           *)

\* The tables of the first program: each part of it has a page of its own.
LEMMA InitSound ==
  ASSUME NEW e0 \in Env, NEW has \in SUBSET Addr, NEW where \in [Parts(has) -> Page],
         \A x, y \in Parts(has) : where[x] = where[y] => x = y,
         NEW free \in SUBSET (Page \ {where[x] : x \in Parts(has)}),
         InitAt(e0, has, where, free)
  PROVE  /\ Sound(mem)
         /\ \A va \in VA : PageOf(e0, va) = IF va \in has THEN where[va] ELSE None
         /\ \A e \in Env \ {e0}, va \in VA : ~Mapped(mem, e, va)
         /\ \A e \in Env \ {e0} : mem.pgdir[e] = None
         /\ \A va \in VA : /\ Mapped(mem, e0, va) <=> va \in has
                           /\ va \in has => HasTable(e0, va)
         /\ \A e \in Env, va \in VA :
              PermOf(e, va) = IF e # e0 \/ va \notin has THEN "r" ELSE IF va \in Text THEN "r" ELSE "w"
<1> DEFINE used == {where[x] : x \in Parts(has)}
           held(e, x) == IF e = e0 /\ x \in Parts(has) THEN where[x] ELSE None
<1>1. /\ has \subseteq VA /\ has \subseteq Parts(has) /\ None \in Parts(has)
      /\ \A va \in has : TableOf[va] \in Parts(has)
      /\ \A va \in VA : va \in Parts(has) <=> va \in has
      /\ Parts(has) \subseteq VA \cup Table \cup {None}
  BY SpaceAssumption, LayoutAssumption DEF Parts, Addr
<1>2. \A x \in Parts(has) : where[x] \in Page /\ where[x] # None
  BY PageAssumption
<1>3. \A e \in Env, x \in VA \cup Table \cup {None} : held(e, x) \in Page \cup {None}
  BY <1>2
<1>4. \A va \in has : where[va] # None
  BY <1>1, <1>2
<1>5. /\ mem.free = free
      /\ mem.ref = [p \in Page |-> IF p \in used THEN 1 ELSE 0]
      /\ mem.pgdir = [e \in Env |-> held(e, None)]
      /\ mem.pde = [e \in Env |-> [t \in Table |-> held(e, t)]]
      /\ mem.pte = [e \in Env |-> [v \in VA |->
                      IF held(e, v) = None THEN Unmapped
                      ELSE [page |-> where[v], perm |-> IF v \in Text THEN "r" ELSE "w"]]]
      /\ mem = [free |-> mem.free, ref |-> mem.ref, pgdir |-> mem.pgdir, pde |-> mem.pde,
                pte |-> mem.pte]
  BY DEF InitAt
<1>6. \A e \in Env, va \in VA :
        /\ mem.pte[e][va].page = held(e, va)
        /\ Mapped(mem, e, va) <=> e = e0 /\ va \in has
        /\ PermOf(e, va) = IF e # e0 \/ va \notin has THEN "r" ELSE IF va \in Text THEN "r" ELSE "w"
  <2> SUFFICES ASSUME NEW e \in Env, NEW va \in VA
               PROVE  /\ mem.pte[e][va].page = held(e, va)
                      /\ Mapped(mem, e, va) <=> e = e0 /\ va \in has
                      /\ PermOf(e, va) = IF e # e0 \/ va \notin has THEN "r" ELSE IF va \in Text THEN "r" ELSE "w"
    OBVIOUS
  <2>1. mem.pte[e][va] = IF held(e, va) = None THEN Unmapped
                         ELSE [page |-> where[va], perm |-> IF va \in Text THEN "r" ELSE "w"]
    BY <1>5
  <2>2. held(e, va) = IF e = e0 /\ va \in has THEN where[va] ELSE None
    BY <1>1
  <2> QED
    BY <1>4, <2>1, <2>2 DEF Unmapped, Mapped, PermOf
<1>7. mem \in Memories
  <2>1. mem.pte \in [Env -> [VA -> Mapping \cup {Unmapped}]]
    <3> SUFFICES ASSUME NEW e \in Env, NEW va \in VA
                 PROVE  (IF held(e, va) = None THEN Unmapped
                         ELSE [page |-> where[va], perm |-> IF va \in Text THEN "r" ELSE "w"])
                        \in Mapping \cup {Unmapped}
      BY <1>5
    <3> QED
      BY <1>2, PermAssumption DEF Mapping
  <2>2. /\ mem.pgdir \in [Env -> Page \cup {None}]
        /\ mem.pde \in [Env -> [Table -> Page \cup {None}]]
    BY <1>3, <1>5
  <2>3. mem.ref \in [Page -> Nat] /\ mem.free \in SUBSET Page
    BY <1>5
  <2> QED
    BY <1>5, <2>1, <2>2, <2>3 DEF Memories
<1>8. \A s \in Place : Held(mem, s) = held(s[1], s[2])
  <2> SUFFICES ASSUME NEW s \in Place
               PROVE  Held(mem, s) = held(s[1], s[2])
    OBVIOUS
  <2>1. \A e \in Env : /\ mem.pgdir[e] = held(e, None)
                       /\ \A t \in Table : mem.pde[e][t] = held(e, t)
    BY <1>5
  <2>2. \A e \in Env, va \in VA : mem.pte[e][va].page = held(e, va)
    BY <1>6
  <2> HIDE DEF held
  <2>3. s[1] \in Env /\ s[2] \in VA \cup Table \cup {None}
    BY DEF Place
  <2>4. CASE s[2] = None
    BY <2>1, <2>3, <2>4 DEF Held
  <2>5. CASE s[2] \in Table
    BY <2>1, <2>3, <2>5, SpaceAssumption DEF Held
  <2>6. CASE s[2] \in VA
    BY <2>2, <2>3, <2>6, SpaceAssumption DEF Held
  <2> QED
    BY <2>3, <2>4, <2>5, <2>6
<1>9. \A p \in Page : \A x \in Parts(has) : where[x] = p => Refs(mem, p) = {<<e0, x>>}
  <2> SUFFICES ASSUME NEW p \in Page, NEW x \in Parts(has), where[x] = p
               PROVE  Refs(mem, p) = {<<e0, x>>}
    OBVIOUS
  <2>1. <<e0, x>> \in Place /\ Held(mem, <<e0, x>>) = p
    BY <1>1, <1>8 DEF Place
  <2>2. \A s \in Place : Held(mem, s) = p => s = <<e0, x>>
    BY <1>2, <1>8, PageAssumption DEF Place
  <2> QED
    BY <2>1, <2>2 DEF Refs
<1>10. \A p \in Page : p \notin used => Refs(mem, p) = {}
  BY <1>8, PageAssumption DEF Refs
<1>11. Counted(mem)
  <2> SUFFICES ASSUME NEW p \in Page
               PROVE  mem.ref[p] = Cardinality(Refs(mem, p))
    BY DEF Counted
  <2>1. CASE p \in used
    <3>1. PICK x \in Parts(has) : where[x] = p
      BY <2>1
    <3>2. Refs(mem, p) = {<<e0, x>>} /\ mem.ref[p] = 1
      BY <1>5, <1>9, <2>1, <3>1
    <3>3. Cardinality({<<e0, x>>}) = 1
      BY FS_Singleton
    <3> QED
      BY <3>2, <3>3
  <2>2. CASE p \notin used
    BY <1>5, <1>10, <2>2, FS_EmptySet
  <2> QED
    BY <2>1, <2>2
<1>12. FreeUnused(mem)
  BY <1>5, <1>10 DEF FreeUnused
<1>13. Private(mem)
  BY <1>2, <1>8, <1>9 DEF Private, Place
<1>14. \A va \in has : HasTable(e0, va)
  BY <1>1, <1>2, <1>5, SpaceAssumption DEF HasTable
<1>15. \A e \in Env \ {e0} : mem.pgdir[e] = None
  BY <1>5
<1> QED
  BY <1>1, <1>6, <1>7, <1>11, <1>12, <1>13, <1>14, <1>15 DEF Sound, PageOf

LEMMA InitCowInv == Init => CowInv
<1> SUFFICES ASSUME Init
             PROVE  CowInv
  OBVIOUS
<1> DEFINE Distinct(has, where) == \A x, y \in Parts(has) : where[x] = where[y] => x = y
           Rest(has, where) == SUBSET (Page \ {where[x] : x \in Parts(has)})
<1>a. PICK e0 \in Env, has \in {h \in SUBSET Addr : Stack \in h} :
        \E where \in [Parts(has) -> Page] :
          Distinct(has, where) /\ \E free \in Rest(has, where) : InitAt(e0, has, where, free)
  BY Zenon DEF Init
<1>b. PICK where \in [Parts(has) -> Page] :
        Distinct(has, where) /\ \E free \in Rest(has, where) : InitAt(e0, has, where, free)
  BY Zenon, <1>a
<1>c. PICK free \in Rest(has, where) : InitAt(e0, has, where, free)
  BY Zenon, <1>b
<1>1. has \in SUBSET Addr /\ Stack \in has /\ Distinct(has, where)
  BY <1>b
<1>2. /\ Sound(mem)
      /\ \A va \in VA : PageOf(e0, va) = IF va \in has THEN where[va] ELSE None
      /\ \A e \in Env \ {e0}, va \in VA : ~Mapped(mem, e, va)
      /\ \A e \in Env \ {e0} : mem.pgdir[e] = None
      /\ \A va \in VA : /\ Mapped(mem, e0, va) <=> va \in has
                        /\ va \in has => HasTable(e0, va)
      /\ \A e \in Env, va \in VA :
           PermOf(e, va) = IF e # e0 \/ va \notin has THEN "r" ELSE IF va \in Text THEN "r" ELSE "w"
  BY <1>1, <1>c, InitSound
<1>3. /\ status = [e \in Env |-> IF e = e0 THEN "RUNNABLE" ELSE "FREE"]
      /\ upcall = [e \in Env |-> FALSE] /\ pgfault_handler = [e \in Env |-> FALSE]
      /\ frame = [e \in Env |-> NoFrame] /\ fault = [e \in Env |-> NoFault]
      /\ forks = 0 /\ refused = FALSE /\ content \in [Page -> Value] /\ kinds \in KindSets
  BY <1>c DEF Init, InitAt
<1>4. NoFrame \in Frames /\ NoFault \in Faults
  BY OrderFacts DEF NoFrame, FrameAt, Frames, NoFault, Faults
<1>5. TypeOK
  BY <1>2, <1>3, <1>4 DEF TypeOK, Sound
<1>6. FrameInv /\ KindInv /\ FaultInv /\ CopyInv
  BY <1>3 DEF FrameInv, FrameOf, KindInv, KindOf, FaultInv, FaultOf, CopyInv, CopyOf, NoFrame,
              FrameAt, NoFault, Begun, Child, AtPage, Behind
<1>7. SpaceInv
  BY <1>1, <1>2, <1>3, LayoutAssumption DEF SpaceInv, SpaceOf, Begun, NoFrame, FrameAt, NoFault, Addr
<1>8. ShareInv
  <2> SUFFICES ASSUME NEW e \in Env, NEW x \in Env, NEW a \in VA, NEW b \in VA,
                      e # x \/ a # b, Mapped(mem, e, a), PageOf(x, b) = PageOf(e, a)
               PROVE  FALSE
    BY DEF ShareInv, ShareOf
  <2>1. e = e0 /\ a \in has /\ PageOf(e, a) = where[a] /\ where[a] \in Page
    BY <1>2 DEF Parts
  <2>2. x = e0 /\ b \in has /\ PageOf(x, b) = where[b]
    BY <1>2, <2>1, EntryKinds, PageAssumption
  <2> QED
    BY <1>1, <2>1, <2>2 DEF Parts
<1>9. CalmInv
  BY <1>2, <1>3, LayoutAssumption DEF CalmInv, CalmOf, NoFrame, FrameAt, Addr
<1> QED
  BY <1>2, <1>5, <1>6, <1>7, <1>8, <1>9 DEF CowInv

LEMMA StepCowInv ==
  ASSUME CowInv, Next
  PROVE  Implements
<1>1. PICK e \in Env : Write(e) \/ Pgfault(e) \/ BeginFork(e) \/ Fork(e) \/ Exit(e)
  BY DEF Next
<1>2. CASE Write(e)
  BY <1>2, WriteKeeps
<1>3. CASE Pgfault(e)
  <2>1. CASE PgfaultAlloc(e)
    <3>1. CASE AllocFails(e, Pftemp)
      <4>1. /\ status[e] = "RUNNABLE" /\ mem' = Alloc(e, Pftemp) /\ content' = Zeroed
            /\ Panic(e) /\ refused' = TRUE /\ UNCHANGED library
        BY <2>1, <3>1 DEF PgfaultAlloc, SysPageAlloc, FaultAt
      <4> QED
        BY <3>1, <4>1, ChildAllocFails, LayoutAssumption
    <3> QED
      BY <2>1, <3>1, PgfaultAllocKeeps
  <2> QED
    BY <1>3, <2>1, PgfaultCopyKeeps, PgfaultMapKeeps, PgfaultUnmapKeeps, RetryKeeps DEF Pgfault
<1>4. CASE BeginFork(e)
  BY <1>4, BeginForkKeeps
<1>5. CASE Fork(e)
  <2>1. CASE ReadEntry(e) \/ LoopEnd(e) \/ SetPgfaultHandler(e) \/ Exofork(e)
    BY <2>1, ReadEntryKeeps, LoopEndKeeps, SetPgfaultHandlerKeeps, ExoforkKeeps
  <2>2. CASE MapInChild(e) \/ MapInSelf(e)
    BY <2>2, MapInChildKeeps, MapInSelfKeeps
  <2>3. CASE CopyAlloc(e) \/ CopyMap(e) \/ CopyMove(e) \/ CopyUnmap(e)
    BY <2>3, CopyAllocKeeps, CopyMapKeeps, CopyMoveKeeps, CopyUnmapKeeps
  <2>4. CASE ChildUxStack(e) \/ ChildUpcall(e) \/ StartChild(e)
    BY <2>4, ChildUxStackKeeps, ChildUpcallKeeps, StartChildKeeps
  <2> QED
    BY <1>5, <2>1, <2>2, <2>3, <2>4 DEF Fork
<1>6. CASE Exit(e)
  BY <1>6, ExitKeeps
<1> QED
  BY <1>1, <1>2, <1>3, <1>4, <1>5, <1>6

LEMMA StutterCowInv ==
  ASSUME CowInv, UNCHANGED vars
  PROVE  CowInv' /\ View' = View
<1>1. /\ mem' = mem /\ content' = content /\ status' = status /\ upcall' = upcall
      /\ pgfault_handler' = pgfault_handler /\ frame' = frame /\ fault' = fault
      /\ forks' = forks /\ kinds' = kinds /\ refused' = refused
  BY DEF vars
<1>2. TypeOK' /\ Sound(mem)' /\ FrameInv' /\ KindInv' /\ SpaceInv'
  BY <1>1 DEF CowInv, TypeOK, Sound, FrameInv, FrameOf, Begun, Child, KindInv, KindOf, At,
              SpaceInv, SpaceOf, HasTable, PermOf
<1>3. FaultInv' /\ ShareInv'
  BY <1>1 DEF CowInv, FaultInv, FaultOf, Ready, ShareInv, ShareOf, MayShare, Temp, Child, At,
              PageOf, PermOf
<1>4. CopyInv' /\ CalmInv'
  BY <1>1 DEF CowInv, CopyInv, CopyOf, Same, CalmInv, CalmOf, Calm, Ready, Child, At, PageOf, PermOf
<1>5. View' = View
  BY <1>1 DEF View, Live, PageOf
<1> QED
  BY <1>2, <1>3, <1>4, <1>5 DEF CowInv

-----------------------------------------------------------------------------
(* What follows from it                                                    *)

\* In every state of fork and of its faults, the invariant holds: where an
\* environment may have pages, who else may have the same ones, and how far its copy is.
THEOREM CowInvariant == Spec => []CowInv
<1>1. CowInv /\ [Next]_vars => CowInv'
  BY StepCowInv, StutterCowInv DEF Implements
<1> QED
  BY <1>1, InitCowInv, PTL DEF Spec

\* The first program is alone.
LEMMA InitView ==
  ASSUME Init
  PROVE  P!Init
<1>1. CowInv
  BY InitCowInv
<1>2. PICK e0 \in Env : status = [e \in Env |-> IF e = e0 THEN "RUNNABLE" ELSE "FREE"]
  BY DEF Init, InitAt
<1>3. e0 \in Live /\ \A e \in Env \ {e0} : e \notin Live
  BY <1>2 DEF Live
<1>4. View[e0] \in [Addr -> Value \cup {None}]
  BY <1>1, <1>3, ViewOf DEF CowInv, TypeOK
<1>5. View = [x \in Env |-> IF x = e0 THEN View[e0] ELSE None]
  BY <1>3 DEF View
<1> QED
  BY <1>4, <1>5 DEF P!Init

\* However their pages are shared, each process finds in its memory what it wrote there
\* itself, or its parent before the fork, for any programs, forks and pages (lib/fork.c,
\* user/dumbfork.c).
THEOREM CowMemoriesArePrivate == Spec => MemoriesArePrivate
<1>1. CowInv /\ [Next]_vars => [P!Next]_View
  BY StepCowInv, StutterCowInv DEF Implements
<1>2. Init => P!Init
  BY InitView
<1> QED
  BY <1>1, <1>2, CowInvariant, PTL DEF Spec, MemoriesArePrivate, P!Spec

LEMMA UxStackIsOwn ==
  ASSUME CowInv, NEW e \in Env, PermOf(e, UxStack) = "w"
  PROVE  Refs(mem, PageOf(e, UxStack)) = {<<e, UxStack>>}
<1> DEFINE p == PageOf(e, UxStack)
<1>1. UxStack \in VA /\ UxStack \notin Addr \cup {Utemp, Pftemp} /\ Sound(mem)
  BY LayoutAssumption DEF CowInv, Addr
<1>2. Mapped(mem, e, UxStack) /\ p \in Page
  BY <1>1, EntryKinds
<1>3. Mappable(mem, p)
  BY <1>1, <1>2, MappedIsMappable DEF PageOf
<1>4. <<e, UxStack>> \in Refs(mem, p)
  BY <1>1, SpaceAssumption DEF Refs, Place, Held, PageOf
<1>5. ASSUME NEW s \in Refs(mem, p)
      PROVE  s = <<e, UxStack>>
  <2>1. s \in Place /\ Held(mem, s) = p /\ s[2] \in VA
    BY <1>3 DEF Refs, Mappable
  <2>2. PICK x \in Env, b \in VA : s = <<x, b>>
    BY <2>1 DEF Place
  <2>3. PageOf(x, b) = p
    BY <2>1, <2>2, SpaceAssumption DEF Held, PageOf
  <2>4. ShareOf(e, UxStack, x, b) /\ KindOf(x) /\ FaultOf(e)
    BY <1>1 DEF CowInv, ShareInv, KindInv, FaultInv
  <2>5. ~MayShare(e, UxStack, x, b)
    BY <1>1, <2>4, LayoutAssumption DEF MayShare, Temp, KindOf, FaultOf, AtPage, NoFault, Addr
  <2> QED
    BY <1>2, <2>2, <2>3, <2>4, <2>5 DEF ShareOf
<1> QED
  BY <1>4, <1>5

\* What is shared cannot be written in, but for two moments of a fork in which only its
\* maker can; and with memory enough, and no forks that copy after forks that do not,
\* every program that has such a page takes its fault, and nobody dies (duppage,
\* pgfault, page_fault_handler).
THEOREM CowSharingIsSafe == Spec => []SharingIsSafe
<1>1. CowInv => SharedIsReadOnly
  <2> SUFFICES ASSUME CowInv, NEW e \in Env, NEW x \in Env, NEW a \in Addr, NEW b \in VA,
                      e # x, Mapped(mem, e, a), PermOf(e, a) = "w",
                      PageOf(x, b) = PageOf(e, a)
               PROVE  \/ frame[e].step = "self" /\ Child(e) = x /\ At(e) = a /\ a = b
                      \/ frame[x].step \in {"copy", "unmap"} /\ Child(x) = e /\ At(x) = a
                         /\ b = Utemp
    BY DEF SharedIsReadOnly
  <2>1. a \in VA /\ a # Utemp
    BY LayoutAssumption DEF Addr
  <2>2. MayShare(e, a, x, b)
    BY <2>1 DEF CowInv, ShareInv, ShareOf
  <2> QED
    BY <2>1, <2>2 DEF MayShare, Temp
<1>2. CowInv /\ Calm => NobodyDies
  BY DEF CowInv, CalmInv, CalmOf, NobodyDies
<1>3. CowInv /\ Calm => FaultsCanBeTaken
  BY UxStackIsOwn DEF CowInv, CalmInv, CalmOf, FaultsCanBeTaken, Ready
<1>4. CowInv => SharingIsSafe
  BY <1>1, <1>2, <1>3 DEF SharingIsSafe, Calm
<1> QED
  BY <1>4, CowInvariant, PTL

\* Every variable keeps its type.
THEOREM CowTypeOK == Spec => []TypeOK
<1>1. CowInv => TypeOK
  BY DEF CowInv
<1> QED
  BY <1>1, CowInvariant, PTL
=============================================================================
