---------------------------- MODULE MemoryProofs ----------------------------
(***************************************************************************)
(* The address spaces of JOS for any number of pages, environments and     *)
(* CPUs: an inductive invariant, and from it what module Memory states;    *)
(* then mem_init, which made the first of them (module BootMemory).        *)
(***************************************************************************)
EXTENDS Memory, PageTablesProofs, SequenceTheorems

\* A CPU's environment is executing, and on no other CPU.
CpuInv ==
  /\ \A c \in CPU : curenv[c] # None => status[curenv[c]] \in {"RUNNING", "DYING"}
  /\ \A c, d \in CPU : curenv[c] # None /\ curenv[c] = curenv[d] => c = d

\* Who waits for a message is not executing.
WaitInv == \A e \in Env : recving[e] /\ status[e] # "FREE" => status[e] = "NOT_RUNNABLE"

MemInv ==
  /\ TypeOK /\ Sound(mem) /\ SpacesLive
  /\ CpuInv /\ WaitInv
  /\ LIBRARY => TlbsCoherent

\* What the three parts of the statements in Memory amount to
LEMMA SoundParts ==
  ASSUME Sound(mem)
  PROVE  RefsCounted /\ FreePagesUnused /\ TablesArePrivate
  BY DEF Sound, Counted, FreeUnused, Private, RefsCounted, FreePagesUnused, TablesArePrivate

-----------------------------------------------------------------------------
(* Initial states                                                          *)

\* Every page of the first environment is referred to from one place.
LEMMA MemInvInit ==
  ASSUME Init
  PROVE  MemInv
<1> DEFINE D == {None} \cup Image \cup {TableOf[v] : v \in Image}
<1>1. PICK e0 \in Env, where \in [D -> Page], kept \in SUBSET Page :
        /\ \A x, y \in DOMAIN where : where[x] = where[y] => x = y
        /\ mem = [free |-> Page \ ({where[x] : x \in DOMAIN where} \cup kept),
                  ref |-> [p \in Page |-> IF p \in {where[x] : x \in DOMAIN where} THEN 1 ELSE 0],
                  pgdir |-> [e \in Env |-> IF e = e0 /\ None \in DOMAIN where THEN where[None] ELSE None],
                  pde |-> [e \in Env |-> [t \in Table |->
                             IF e = e0 /\ t \in DOMAIN where THEN where[t] ELSE None]],
                  pte |-> [e \in Env |-> [v \in VA |->
                             IF (IF e = e0 /\ v \in DOMAIN where THEN where[v] ELSE None) = None
                             THEN Unmapped
                             ELSE [page |-> IF e = e0 /\ v \in DOMAIN where THEN where[v] ELSE None,
                                   perm |-> "w"]]]]
        /\ status = [e \in Env |-> IF e = e0 THEN "RUNNABLE" ELSE "FREE"]
        /\ parent = [e \in Env |-> None]
        /\ recving = [e \in Env |-> FALSE]
        /\ dstva = [e \in Env |-> NoVA]
        /\ ipc_perm = [e \in Env |-> "0"]
        /\ curenv = [c \in CPU |-> None]
        /\ tlb = [c \in CPU |-> {}]
  BY Zenon DEF Init
<1>2. DOMAIN where = D
  OBVIOUS
<1> DEFINE used == {where[x] : x \in D}
           held(e, x) == IF e = e0 /\ x \in D THEN where[x] ELSE None
<1>3. D \subseteq VA \cup Table \cup {None}
  BY ImageAssumption, SpaceAssumption
<1>4. \A e \in Env, x \in VA \cup Table \cup {None} : held(e, x) \in Page \cup {None}
  BY <1>1
<1>5. /\ mem.free = Page \ (used \cup kept)
      /\ mem.ref = [p \in Page |-> IF p \in used THEN 1 ELSE 0]
      /\ mem.pgdir = [e \in Env |-> held(e, None)]
      /\ mem.pde = [e \in Env |-> [t \in Table |-> held(e, t)]]
      /\ mem.pte = [e \in Env |-> [v \in VA |-> IF held(e, v) = None THEN Unmapped
                                                ELSE [page |-> held(e, v), perm |-> "w"]]]
      /\ mem = [free |-> mem.free, ref |-> mem.ref, pgdir |-> mem.pgdir,
                pde |-> mem.pde, pte |-> mem.pte]
  BY <1>2, <1>1
<1>6. \A x, y \in D : where[x] = where[y] => x = y
  BY <1>2, <1>1
<1>7. mem \in Memories
  <2> HIDE DEF held
  <2>1. mem.ref \in [Page -> Nat] /\ mem.free \subseteq Page
    BY <1>5
  <2>2. mem.pgdir \in [Env -> Page \cup {None}] /\ mem.pde \in [Env -> [Table -> Page \cup {None}]]
    BY <1>4, <1>5
  <2>3. mem.pte \in [Env -> [VA -> Mapping \cup {Unmapped}]]
    BY <1>4, <1>5, PermAssumption DEF Mapping
  <2> QED
    BY <1>5, <2>1, <2>2, <2>3 DEF Memories
<1>8. \A s \in Place : Held(mem, s) = held(s[1], s[2])
  <2> HIDE DEF held
  <2> QED
    BY <1>5, SpaceAssumption DEF Place, Held, Unmapped
<1>9. ASSUME NEW x \in D PROVE Refs(mem, where[x]) = {<<e0, x>>}
  <2>1. where[x] \in Page /\ where[x] # None
    BY <1>1, PageAssumption
  <2>2. <<e0, x>> \in Place /\ Held(mem, <<e0, x>>) = where[x]
    BY <1>3, <1>8 DEF Place
  <2>3. ASSUME NEW s \in Place, Held(mem, s) = where[x] PROVE s = <<e0, x>>
    <3>1. held(s[1], s[2]) = where[x]
      BY <1>8, <2>3
    <3>2. s[1] = e0 /\ s[2] \in D /\ where[s[2]] = where[x]
      BY <2>1, <3>1
    <3>3. s[2] = x
      BY <1>6, <3>2
    <3>4. s = <<s[1], s[2]>>
      BY <2>3 DEF Place
    <3> QED
      BY <3>2, <3>3, <3>4
  <2> QED
    BY <2>2, <2>3 DEF Refs
<1>10. ASSUME NEW p \in Page, p \notin used PROVE Refs(mem, p) = {}
  BY <1>8, <1>10, PageAssumption DEF Refs
<1>11. Sound(mem)
  <2>1. Counted(mem)
    <3> SUFFICES ASSUME NEW p \in Page PROVE mem.ref[p] = Cardinality(Refs(mem, p))
      BY DEF Counted
    <3>1. CASE p \in used
      <4>1. PICK x \in D : p = where[x]
        BY <3>1
      <4>2. Refs(mem, p) = {<<e0, x>>}
        BY <1>9, <4>1
      <4>3. Cardinality({<<e0, x>>}) = 1
        BY FS_Singleton
      <4> HIDE DEF used
      <4> QED
        BY <1>5, <3>1, <4>2, <4>3
    <3>2. CASE p \notin used
      <4>1. Refs(mem, p) = {}
        BY <1>10, <3>2
      <4> HIDE DEF used
      <4> QED
        BY <1>5, <3>2, <4>1, FS_EmptySet
    <3> QED
      BY <3>1, <3>2
  <2>2. FreeUnused(mem)
    BY <1>5, <1>10 DEF FreeUnused
  <2>3. Private(mem)
    <3> SUFFICES ASSUME NEW s \in Place, Held(mem, s) # None PROVE Refs(mem, Held(mem, s)) = {s}
      BY DEF Private
    <3>1. s[2] \in D /\ s = <<e0, s[2]>> /\ Held(mem, s) = where[s[2]]
      BY <1>8 DEF Place
    <3> QED
      BY <1>9, <3>1
  <2> QED
    BY <1>7, <2>1, <2>2, <2>3 DEF Sound
<1>12. SpacesLive
  <2>1. mem.pgdir[e0] # None
    BY <1>1, <1>5, PageAssumption
  <2> QED
    BY <1>1, <1>8, <2>1 DEF SpacesLive
<1>13. TypeOK
  BY <1>1, <1>7 DEF TypeOK, Statuses
<1>14. CpuInv /\ WaitInv /\ TlbsCoherent
  BY <1>1 DEF CpuInv, WaitInv, TlbsCoherent
<1> QED
  BY <1>11, <1>12, <1>13, <1>14 DEF MemInv

-----------------------------------------------------------------------------
(* Leaving the kernel                                                      *)

\* The same entries are the same translations.
LEMMA SameTranslations ==
  ASSUME NEW m, NEW n, NEW e, n.pte[e] = m.pte[e]
  PROVE  Translations(n, e) = Translations(m, e)
<1>1. \A va \in VA : Mapped(n, e, va) <=> Mapped(m, e, va)
  BY DEF Mapped
<1>2. Translations(n, e) \subseteq Translations(m, e)
  BY <1>1 DEF Translations
<1>3. Translations(m, e) \subseteq Translations(n, e)
  BY <1>1 DEF Translations
<1> QED
  BY <1>2, <1>3

\* The TLBs hold what they may when nobody's tables but those of the CPU's own
\* environment, before and after, have changed.
LEMMA FlushCoherent ==
  ASSUME NEW c \in CPU, Flush(c), TlbsCoherent,
         \A d \in CPU \ {c} : /\ curenv'[d] = curenv[d]
                              /\ curenv[d] # None => mem'.pte[curenv[d]] = mem.pte[curenv[d]]
  PROVE  TlbsCoherent'
<1>1. \A d \in CPU : tlb'[d] = IF d = c THEN Cached(curenv'[c])
                                ELSE tlb[d] \cup Cached(curenv'[d])
  BY DEF Flush
<1> SUFFICES ASSUME NEW d \in CPU PROVE tlb'[d] \subseteq Cached(curenv'[d])
  BY DEF TlbsCoherent, Cached
<1>2. CASE d = c
  BY <1>1, <1>2
<1>3. CASE d # c
  <2> DEFINE e == curenv[d]
  <2>1. curenv'[d] = e /\ (e # None => mem'.pte[e] = mem.pte[e])
    BY <1>3
  <2>2. e # None => Translations(mem', e) = Translations(mem, e)
    BY <2>1, SameTranslations
  <2>3. tlb[d] \subseteq IF e = None THEN {} ELSE Translations(mem, e)
    BY DEF TlbsCoherent
  <2>4. tlb[d] \subseteq Cached(curenv'[d])
    BY <2>1, <2>2, <2>3 DEF Cached
  <2> QED
    BY <1>1, <1>3, <2>4
<1> QED
  BY <1>2, <1>3

\* They hold translations.
LEMMA FlushTyped ==
  ASSUME TypeOK, NEW c \in CPU, Flush(c), mem' \in Memories,
         curenv' \in [CPU -> Env \cup {None}]
  PROVE  tlb' \in [CPU -> SUBSET (VA \X Mapping)]
<1>1. ASSUME NEW d \in CPU PROVE Cached(curenv'[d]) \subseteq VA \X Mapping
  <2>1. CASE curenv'[d] = None
    BY <2>1 DEF Cached
  <2>2. CASE curenv'[d] # None
    <3>1. curenv'[d] \in Env
      BY <2>2
    <3>2. mem'.pte[curenv'[d]] \in [VA -> Mapping \cup {Unmapped}]
      BY <3>1, MemoryParts
    <3>3. \A va \in VA : Mapped(mem', curenv'[d], va) => mem'.pte[curenv'[d]][va] \in Mapping
      BY <3>2 DEF Mapped
    <3> QED
      BY <2>2, <3>3 DEF Cached, Translations
  <2> QED
    BY <2>1, <2>2
<1>2. tlb' = [d \in CPU |-> IF d = c THEN Cached(curenv'[c]) ELSE tlb[d] \cup Cached(curenv'[d])]
  BY DEF Flush
<1>3. tlb \in [CPU -> SUBSET (VA \X Mapping)]
  BY DEF TypeOK
<1> QED
  BY <1>1, <1>2, <1>3

\* A CPU that yields takes an environment that may run, and its own may be taken
\* elsewhere afterwards; what the call has decided of the others stays.
LEMMA SchedYieldStep ==
  ASSUME TypeOK, CpuInv, NEW c \in CPU, NEW st \in [Env -> Statuses], SchedYield(c, st),
         \A d \in CPU \ {c} : curenv[d] # None => st[curenv[d]] = status[curenv[d]]
  PROVE  /\ status' \in [Env -> Statuses] /\ curenv' \in [CPU -> Env \cup {None}]
         /\ CpuInv' /\ Flush(c)
         /\ \A d \in CPU \ {c} : curenv'[d] = curenv[d]
         /\ \A x \in Env : \A s \in {"FREE", "NOT_RUNNABLE", "DYING"} :
              status'[x] = s <=> st[x] = s
<1> DEFINE e == curenv[c]
           may == {x \in Env : st[x] = "RUNNABLE"} \cup {x \in {e} \ {None} : st[x] = "RUNNING"}
           left == [x \in Env |-> IF x = e /\ st[x] = "RUNNING" THEN "RUNNABLE" ELSE st[x]]
<1>1. curenv \in [CPU -> Env \cup {None}] /\ may \subseteq Env
  BY DEF TypeOK
<1>2. \A d \in CPU \ {c} : curenv[d] # None =>
        curenv[d] # e /\ st[curenv[d]] \in {"RUNNING", "DYING"}
  BY DEF CpuInv
<1>3. left \in [Env -> Statuses] /\ \A x \in Env : \A s \in {"FREE", "NOT_RUNNABLE", "DYING"} :
        left[x] = s <=> st[x] = s
  BY DEF Statuses
<1>4. /\ Flush(c)
      /\ \/ \E n \in may : /\ curenv' = [curenv EXCEPT ![c] = n]
                           /\ status' = [left EXCEPT ![n] = "RUNNING"]
         \/ may = {} /\ curenv' = [curenv EXCEPT ![c] = None] /\ status' = st
  BY Zenon DEF SchedYield
<1>5. CASE may = {} /\ curenv' = [curenv EXCEPT ![c] = None] /\ status' = st
  BY <1>1, <1>2, <1>4, <1>5 DEF CpuInv
<1>6. ASSUME NEW n \in may, curenv' = [curenv EXCEPT ![c] = n], status' = [left EXCEPT ![n] = "RUNNING"]
      PROVE  /\ status' \in [Env -> Statuses] /\ curenv' \in [CPU -> Env \cup {None}]
             /\ CpuInv'
             /\ \A d \in CPU \ {c} : curenv'[d] = curenv[d]
             /\ \A x \in Env : \A s \in {"FREE", "NOT_RUNNABLE", "DYING"} :
                  status'[x] = s <=> st[x] = s
  <2>1. n \in Env /\ left[n] = "RUNNABLE" /\ n # None
    BY <1>1, SpaceAssumption DEF Statuses
  <2>2. \A d \in CPU \ {c} : curenv[d] # None =>
          curenv[d] # n /\ left[curenv[d]] \in {"RUNNING", "DYING"}
    BY <1>1, <1>2, <2>1
  <2> HIDE DEF left, may, e
  <2>3. status' \in [Env -> Statuses] /\ curenv' \in [CPU -> Env \cup {None}]
    BY <1>1, <1>3, <1>6, <2>1 DEF Statuses
  <2>4. \A d \in CPU \ {c} : curenv'[d] = curenv[d]
    BY <1>1, <1>6
  <2>5. curenv'[c] = n /\ status'[n] = "RUNNING" /\ \A x \in Env \ {n} : status'[x] = left[x]
    BY <1>1, <1>3, <1>6, <2>1
  <2>6. CpuInv'
    BY <1>1, <2>1, <2>2, <2>4, <2>5 DEF CpuInv
  <2> QED
    BY <1>3, <2>1, <2>3, <2>4, <2>5, <2>6
<1> QED
  BY <1>4, <1>5, <1>6

\* The types of what a program's calls write besides memory and status
FieldsTyped ==
  /\ parent \in [Env -> Env \cup {None}]
  /\ recving \in [Env -> BOOLEAN]
  /\ dstva \in [Env -> VA \cup {NoVA}]
  /\ ipc_perm \in [Env -> Perm \cup {"0"}]

\* SpacesLive for a memory m and statuses st
Live(m, st) ==
  \A e \in Env :
    IF st[e] = "FREE" THEN \A s \in Place : s[1] = e => Held(m, s) = None
    ELSE m.pgdir[e] # None

\* A call that returns to its caller keeps the invariant.
LEMMA ReturnKeepsInv ==
  ASSUME MemInv, NEW c \in CPU, Return(c), Sound(mem'), Live(mem', status'),
         status' \in [Env -> Statuses], FieldsTyped', WaitInv',
         \A d \in CPU : curenv[d] # None => status'[curenv[d]] \in {"RUNNING", "DYING"},
         LIBRARY => \A d \in CPU \ {c} :
                      curenv[d] # None => mem'.pte[curenv[d]] = mem.pte[curenv[d]]
  PROVE  MemInv'
<1>1. curenv' = curenv /\ Flush(c) /\ TypeOK /\ CpuInv
  BY DEF Return, MemInv
<1>2. CpuInv'
  BY <1>1 DEF CpuInv
<1>3. tlb' \in [CPU -> SUBSET (VA \X Mapping)]
  BY <1>1, FlushTyped DEF TypeOK, Sound
<1>4. TypeOK'
  BY <1>1, <1>3 DEF TypeOK, FieldsTyped, Sound
<1>5. LIBRARY => TlbsCoherent'
  BY <1>1, FlushCoherent DEF MemInv
<1>6. SpacesLive'
  BY DEF Live, SpacesLive
<1> QED
  BY <1>2, <1>4, <1>5, <1>6 DEF MemInv

\* So does one that ends in sched_yield.
LEMMA YieldKeepsInv ==
  ASSUME MemInv, NEW c \in CPU, NEW st \in [Env -> Statuses], SchedYield(c, st),
         Sound(mem'), Live(mem', st), FieldsTyped',
         \A e \in Env : recving'[e] /\ st[e] # "FREE" => st[e] = "NOT_RUNNABLE",
         \A d \in CPU \ {c} : curenv[d] # None => st[curenv[d]] = status[curenv[d]],
         \A d \in CPU \ {c} : curenv[d] # None => mem'.pte[curenv[d]] = mem.pte[curenv[d]]
  PROVE  /\ MemInv'
         /\ \A x \in Env : status'[x] = "FREE" <=> st[x] = "FREE"
<1>1. TypeOK /\ CpuInv
  BY DEF MemInv
<1>2. /\ status' \in [Env -> Statuses] /\ curenv' \in [CPU -> Env \cup {None}]
      /\ CpuInv' /\ Flush(c)
      /\ \A d \in CPU \ {c} : curenv'[d] = curenv[d]
      /\ \A x \in Env : \A s \in {"FREE", "NOT_RUNNABLE", "DYING"} : status'[x] = s <=> st[x] = s
  BY <1>1, SchedYieldStep
<1>3. tlb' \in [CPU -> SUBSET (VA \X Mapping)]
  BY <1>1, <1>2, FlushTyped DEF Sound
<1>4. TypeOK'
  BY <1>2, <1>3 DEF TypeOK, FieldsTyped, Sound
<1>5. LIBRARY => TlbsCoherent'
  BY <1>2, FlushCoherent DEF MemInv
<1>6. SpacesLive'
  BY <1>2 DEF Live, SpacesLive
<1>7. WaitInv'
  BY <1>2 DEF WaitInv
<1> QED
  BY <1>2, <1>4, <1>5, <1>6, <1>7 DEF MemInv

\* Who has an address space keeps it when only the tables of somebody who has one change.
LEMMA LiveKept ==
  ASSUME MemInv, NEW x \in Env, NEW st, NEW n, st[x] # "FREE", status[x] # "FREE",
         n.pgdir = mem.pgdir,
         \A y \in Env \ {x} : n.pde[y] = mem.pde[y] /\ n.pte[y] = mem.pte[y],
         \A y \in Env : st[y] = "FREE" <=> status[y] = "FREE"
  PROVE  Live(n, st)
<1> SUFFICES ASSUME NEW e \in Env
             PROVE  IF st[e] = "FREE" THEN \A s \in Place : s[1] = e => Held(n, s) = None
                    ELSE n.pgdir[e] # None
  BY DEF Live
<1>1. CASE st[e] = "FREE"
  <2>1. \A s \in Place : s[1] = e => Held(n, s) = Held(mem, s)
    BY <1>1 DEF Held
  <2>2. \A s \in Place : s[1] = e => Held(mem, s) = None
    BY <1>1 DEF MemInv, SpacesLive
  <2> QED
    BY <1>1, <2>1, <2>2
<1>2. CASE st[e] # "FREE"
  BY <1>2 DEF MemInv, SpacesLive
<1> QED
  BY <1>1, <1>2

\* Who calls is executing, here and nowhere else.
LEMMA CallerFacts ==
  ASSUME MemInv, NEW c \in CPU, NEW e \in Env, Calls(c, e)
  PROVE  /\ curenv[c] = e /\ e # None /\ status[e] = "RUNNING" /\ ~recving[e]
         /\ \A d \in CPU \ {c} : curenv[d] # e
         /\ \A d \in CPU : curenv[d] # None =>
              curenv[d] \in Env /\ status[curenv[d]] \in {"RUNNING", "DYING"}
<1>1. TypeOK /\ CpuInv /\ WaitInv
  BY DEF MemInv
<1>2. curenv[c] = e /\ e # None /\ status[e] = "RUNNING"
  BY SpaceAssumption DEF Calls
<1>3. recving[e] \in BOOLEAN /\ ~recving[e]
  BY <1>1, <1>2 DEF TypeOK, WaitInv
<1>4. \A d \in CPU : curenv[d] # None => curenv[d] \in Env /\ status[curenv[d]] \in {"RUNNING", "DYING"}
  BY <1>1 DEF TypeOK, CpuInv
<1> QED
  BY <1>1, <1>2, <1>3, <1>4 DEF CpuInv

-----------------------------------------------------------------------------
(* Calls on pages                                                          *)

\* What MemoryComesBack says of a step
Freed ==
  \A e \in Env : status[e] # "FREE" /\ status'[e] = "FREE" =>
    \A p \in Page : Refs(mem, p) # {} /\ (\A s \in Refs(mem, p) : s[1] = e) => p \in mem'.free

\* What the step does, besides keeping the invariant
Steps == WriteNeverGained /\ SpaceIsPrivate /\ Freed

\* A call of e that changes tables of x, and wakes some at most, keeps the invariant.
LEMMA CallKeepsInv ==
  ASSUME MemInv, NEW c \in CPU, NEW e \in Env, NEW x \in Env, Calls(c, e), Return(c),
         status[x] # "FREE", LIBRARY => x = e \/ status[x] = "NOT_RUNNABLE",
         Sound(mem'), mem'.pgdir = mem.pgdir,
         \A y \in Env \ {x} : mem'.pde[y] = mem.pde[y] /\ mem'.pte[y] = mem.pte[y],
         FieldsTyped', status' \in [Env -> Statuses],
         \A y \in Env :
           \/ status'[y] = status[y] /\ recving'[y] = recving[y]
           \/ status[y] = "NOT_RUNNABLE" /\ status'[y] = "RUNNABLE" /\ ~recving'[y]
  PROVE  MemInv' /\ Freed
<1>1. \A y \in Env : status'[y] = "FREE" <=> status[y] = "FREE"
  OBVIOUS
<1>2. Live(mem', status')
  BY <1>1, LiveKept
<1>3. WaitInv'
  BY DEF WaitInv, MemInv
<1>4. \A d \in CPU : curenv[d] # None => status'[curenv[d]] \in {"RUNNING", "DYING"}
  BY CallerFacts
<1>5. LIBRARY => \A d \in CPU \ {c} : curenv[d] # None =>
                   mem'.pte[curenv[d]] = mem.pte[curenv[d]]
  BY CallerFacts
<1>6. MemInv'
  BY <1>2, <1>3, <1>4, <1>5, ReturnKeepsInv
<1>7. Freed
  BY <1>1 DEF Freed
<1> QED
  BY <1>6, <1>7

\* Whose space a call may change is that of its caller or of a child.
LEMMA MayChangeFacts ==
  ASSUME MemInv, NEW c \in CPU, NEW e \in Env, NEW x \in Env, Calls(c, e)
  PROVE  /\ Envid2env(e, x) => status[x] # "FREE" /\ (x = e \/ parent[x] = e)
         /\ MayChange(e, x) /\ LIBRARY => x = e \/ status[x] = "NOT_RUNNABLE"
  BY DEF Calls, MayChange, Envid2env, Embryo

\* A change in the space of x is private when x is the caller or its child, or asked
\* for a page there.
LEMMA PrivateStep ==
  ASSUME NEW c \in CPU, NEW e \in Env, NEW x \in Env, curenv[c] = e,
         \A y \in Env \ {x} : mem'.pte[y] = mem.pte[y],
         \/ x = e \/ parent[x] = e
         \/ recving[x] /\ \A va \in VA \ {dstva[x]} : mem'.pte[x][va] = mem.pte[x][va]
  PROVE  SpaceIsPrivate
  BY SpaceAssumption DEF SpaceIsPrivate

\* One more mapping makes one page writable at most.
LEMMA WritableInserted ==
  ASSUME NEW m \in Memories, NEW n, NEW e \in Env, NEW va \in VA, NEW p, NEW perm,
         n.pte = [m.pte EXCEPT ![e][va] = [page |-> p, perm |-> perm]]
  PROVE  \A r \in Page : Writable(n, r) => Writable(m, r) \/ (r = p /\ perm = "w")
<1> DEFINE new == [page |-> p, perm |-> perm]
<1>1. \A x \in Env, v \in VA : n.pte[x][v] = IF x = e /\ v = va THEN new ELSE m.pte[x][v]
  BY MemoryParts
<1> SUFFICES ASSUME NEW r \in Page, NEW x \in Env, NEW v \in VA,
                    n.pte[x][v] = [page |-> r, perm |-> "w"]
             PROVE  Writable(m, r) \/ (r = p /\ perm = "w")
  BY DEF Writable
<1>2. CASE x = e /\ v = va
  BY <1>1, <1>2
<1>3. CASE ~(x = e /\ v = va)
  BY <1>1, <1>3 DEF Writable
<1> QED
  BY <1>2, <1>3

\* One less makes none so.
LEMMA WritableRemoved ==
  ASSUME NEW m \in Memories, NEW n, NEW e \in Env, NEW va \in VA,
         n.pte = [m.pte EXCEPT ![e][va] = Unmapped]
  PROVE  \A r \in Page : Writable(n, r) => Writable(m, r)
  BY WritableInserted DEF Unmapped

\* env_page_alloc: a page from the list is mapped, or lost.
LEMMA EnvPageAllocSound ==
  ASSUME NEW m, Sound(m), NEW x \in Env, NEW va \in VA, NEW perm \in Perm, NEW p \in m.free,
         NEW q \in SecondPage(m, p)
  PROVE  LET n == EnvPageAlloc(m, x, va, perm, p, q)
         IN  /\ Sound(n) /\ n.pgdir = m.pgdir
             /\ \A y \in Env \ {x} : n.pde[y] = m.pde[y]
             /\ IF Inserts(m, x, va, q)
                THEN /\ n.pde[x][TableOf[va]] # None
                     /\ n.pte = [m.pte EXCEPT ![x][va] = [page |-> p, perm |-> perm]]
                ELSE n.pde = m.pde /\ n.pte = m.pte
<1> DEFINE k == PageAlloc(m, p)
           n == EnvPageAlloc(m, x, va, perm, p, q)
<1>1. Sound(k) /\ Mappable(k, p)
  BY PageAllocSound
<1>2. k.pgdir = m.pgdir /\ k.pde = m.pde /\ k.pte = m.pte
  BY DEF PageAlloc, Sound, Memories
<1>3. q \in FreePages(k)
  BY DEF SecondPage
<1>4. Inserts(k, x, va, q) <=> Inserts(m, x, va, q)
  BY <1>2 DEF Inserts
<1>5. n = PageInsert(k, x, p, va, perm, q)
  BY DEF EnvPageAlloc
<1> HIDE DEF k, n
<1>6. /\ Sound(n) /\ n.pgdir = k.pgdir
      /\ \A y \in Env \ {x} : n.pde[y] = k.pde[y]
      /\ IF Inserts(k, x, va, q)
         THEN /\ n.pde[x][TableOf[va]] # None
              /\ n.pte = [k.pte EXCEPT ![x][va] = [page |-> p, perm |-> perm]]
         ELSE n = k
  BY <1>1, <1>3, <1>5, PageInsertSound
<1>7. /\ Sound(n) /\ n.pgdir = m.pgdir
      /\ \A y \in Env \ {x} : n.pde[y] = m.pde[y]
      /\ IF Inserts(m, x, va, q)
         THEN /\ n.pde[x][TableOf[va]] # None
              /\ n.pte = [m.pte EXCEPT ![x][va] = [page |-> p, perm |-> perm]]
         ELSE n.pde = m.pde /\ n.pte = m.pte
  BY <1>2, <1>4, <1>6
<1> QED
  BY <1>7 DEF n

\* env_page_alloc writes in no other space and makes one fresh page writable.
LEMMA SysPageAllocKeeps ==
  ASSUME MemInv, NEW c \in CPU, SysPageAlloc(c)
  PROVE  MemInv' /\ Steps
<1>1. PICK e \in Env, x \in Env, va \in VA, perm \in Perm, p \in mem.free :
        /\ Calls(c, e) /\ MayChange(e, x)
        /\ \E q \in SecondPage(mem, p) : mem' = EnvPageAlloc(mem, x, va, perm, p, q)
        /\ Return(c)
        /\ UNCHANGED <<status, parent, ipcVars>>
  BY DEF SysPageAlloc
<1>2. PICK q \in SecondPage(mem, p) : mem' = EnvPageAlloc(mem, x, va, perm, p, q)
  BY <1>1
<1>3. Sound(mem) /\ mem \in Memories /\ TypeOK
  BY DEF MemInv, Sound
<1>4. /\ Sound(mem') /\ mem'.pgdir = mem.pgdir
      /\ \A y \in Env \ {x} : mem'.pde[y] = mem.pde[y]
      /\ \/ mem'.pte = [mem.pte EXCEPT ![x][va] = [page |-> p, perm |-> perm]]
         \/ mem'.pte = mem.pte
  BY <1>2, <1>3, EnvPageAllocSound
<1>5. \A y \in Env \ {x} : mem'.pte[y] = mem.pte[y]
  BY <1>3, <1>4, MemoryParts
<1>6. status[x] # "FREE" /\ (x = e \/ parent[x] = e) /\ curenv[c] = e
  BY <1>1, MayChangeFacts DEF MayChange, Calls
<1>7. MemInv' /\ Freed
  <2>1. FieldsTyped' /\ status' \in [Env -> Statuses]
    BY <1>1, <1>3 DEF TypeOK, FieldsTyped, ipcVars
  <2>2. \A y \in Env : status'[y] = status[y] /\ recving'[y] = recving[y]
    BY <1>1 DEF ipcVars
  <2>3. LIBRARY => x = e \/ status[x] = "NOT_RUNNABLE"
    BY <1>1, MayChangeFacts
  <2> QED
    BY <1>1, <1>4, <1>5, <1>6, <2>1, <2>2, <2>3, CallKeepsInv
<1>8. WriteNeverGained
  <2>1. CASE mem'.pte = mem.pte
    BY <2>1 DEF WriteNeverGained, Writable
  <2>2. CASE mem'.pte = [mem.pte EXCEPT ![x][va] = [page |-> p, perm |-> perm]]
    BY <1>3, <2>2, WritableInserted DEF WriteNeverGained
  <2> QED
    BY <1>4, <2>1, <2>2
<1>9. SpaceIsPrivate
  BY <1>5, <1>6, PrivateStep
<1> QED
  BY <1>7, <1>8, <1>9 DEF Steps

\* env_page_map passes on no more rights than the source has.
LEMMA SysPageMapKeeps ==
  ASSUME MemInv, NEW c \in CPU, SysPageMap(c)
  PROVE  MemInv' /\ Steps
<1>1. PICK e \in Env, src \in Env, dst \in Env, srcva \in VA, va \in VA, perm \in Perm,
           q \in FreePages(mem) :
        /\ Calls(c, e)
        /\ Envid2env(e, src) /\ MayChange(e, dst)
        /\ MayMap(mem, src, srcva, perm)
        /\ mem' = PageInsert(mem, dst, mem.pte[src][srcva].page, va, perm, q)
        /\ Return(c)
        /\ UNCHANGED <<status, parent, ipcVars>>
  BY DEF SysPageMap
<1> DEFINE p == mem.pte[src][srcva].page
<1>2. Sound(mem) /\ mem \in Memories /\ TypeOK
  BY DEF MemInv, Sound
<1>3. Mappable(mem, p)
  BY <1>1, <1>2, MappedIsMappable DEF MayMap
<1>4. /\ Sound(mem') /\ mem'.pgdir = mem.pgdir
      /\ \A y \in Env \ {dst} : mem'.pde[y] = mem.pde[y]
      /\ \/ mem'.pte = [mem.pte EXCEPT ![dst][va] = [page |-> p, perm |-> perm]]
         \/ mem' = mem
  <2>1. mem' = PageInsert(mem, dst, p, va, perm, q) /\ q \in FreePages(mem) \cup {None}
    BY <1>1
  <2> HIDE DEF p
  <2> QED
    BY <1>2, <1>3, <2>1, PageInsertSound
<1>5. \A y \in Env \ {dst} : mem'.pte[y] = mem.pte[y]
  BY <1>2, <1>4, MemoryParts
<1>6. status[dst] # "FREE" /\ (dst = e \/ parent[dst] = e) /\ curenv[c] = e
  BY <1>1, MayChangeFacts DEF MayChange, Calls
<1>7. MemInv' /\ Freed
  <2>1. FieldsTyped' /\ status' \in [Env -> Statuses]
    BY <1>1, <1>2 DEF TypeOK, FieldsTyped, ipcVars
  <2>2. \A y \in Env : status'[y] = status[y] /\ recving'[y] = recving[y]
    BY <1>1 DEF ipcVars
  <2>3. LIBRARY => dst = e \/ status[dst] = "NOT_RUNNABLE"
    BY <1>1, MayChangeFacts
  <2> QED
    BY <1>1, <1>4, <1>5, <1>6, <2>1, <2>2, <2>3, CallKeepsInv
<1>8. WriteNeverGained
  <2>1. CASE mem' = mem
    BY <2>1 DEF WriteNeverGained
  <2>2. CASE mem'.pte = [mem.pte EXCEPT ![dst][va] = [page |-> p, perm |-> perm]]
    <3>1. perm = "w" => Writable(mem, p)
      <4>1. mem.pte[src][srcva] \in Mapping
        BY <1>1, <1>2, MemoryParts DEF MayMap, Mapped
      <4> QED
        BY <1>1, <4>1 DEF MayMap, Writable, Mapping
    <3> QED
      BY <1>2, <2>2, <3>1, WritableInserted DEF WriteNeverGained
  <2> QED
    BY <1>4, <2>1, <2>2
<1>9. SpaceIsPrivate
  BY <1>5, <1>6, PrivateStep
<1> QED
  BY <1>7, <1>8, <1>9 DEF Steps

\* sys_page_unmap takes away.
LEMMA SysPageUnmapKeeps ==
  ASSUME MemInv, NEW c \in CPU, SysPageUnmap(c)
  PROVE  MemInv' /\ Steps
<1>1. PICK e \in Env, x \in Env, va \in VA :
        /\ Calls(c, e)
        /\ MayChange(e, x) /\ Mapped(mem, x, va)
        /\ mem' = PageRemove(mem, x, va)
        /\ Return(c)
        /\ UNCHANGED <<status, parent, ipcVars>>
  BY DEF SysPageUnmap
<1>2. Sound(mem) /\ mem \in Memories /\ TypeOK
  BY DEF MemInv, Sound
<1>3. /\ Sound(mem') /\ mem'.pgdir = mem.pgdir /\ mem'.pde = mem.pde
      /\ mem'.pte = [mem.pte EXCEPT ![x][va] = Unmapped]
  BY <1>1, <1>2, PageRemoveSound
<1>4. \A y \in Env \ {x} : mem'.pte[y] = mem.pte[y]
  BY <1>2, <1>3, MemoryParts
<1>5. status[x] # "FREE" /\ (x = e \/ parent[x] = e) /\ curenv[c] = e
  BY <1>1, MayChangeFacts DEF MayChange, Calls
<1>6. MemInv' /\ Freed
  <2>1. FieldsTyped' /\ status' \in [Env -> Statuses]
    BY <1>1, <1>2 DEF TypeOK, FieldsTyped, ipcVars
  <2>2. \A y \in Env : status'[y] = status[y] /\ recving'[y] = recving[y]
    BY <1>1 DEF ipcVars
  <2>3. LIBRARY => x = e \/ status[x] = "NOT_RUNNABLE"
    BY <1>1, MayChangeFacts
  <2> QED
    BY <1>1, <1>3, <1>4, <1>5, <2>1, <2>2, <2>3, CallKeepsInv
<1>7. WriteNeverGained
  BY <1>2, <1>3, WritableRemoved DEF WriteNeverGained
<1>8. SpaceIsPrivate
  BY <1>4, <1>5, PrivateStep
<1> QED
  BY <1>6, <1>7, <1>8 DEF Steps

-----------------------------------------------------------------------------
(* Messages                                                                *)

\* Waking the receiver is all that the label bail does.
LEMMA DeliverFacts ==
  ASSUME MemInv, NEW c \in CPU, NEW e \in Env, NEW x \in Env, Calls(c, e),
         status[x] # "FREE", recving[x], Deliver(c, x), ipc_perm' \in [Env -> Perm \cup {"0"}]
  PROVE  /\ status[x] = "NOT_RUNNABLE" /\ x # e
         /\ Return(c) /\ FieldsTyped' /\ status' \in [Env -> Statuses]
         /\ \A y \in Env :
              \/ status'[y] = status[y] /\ recving'[y] = recving[y]
              \/ status[y] = "NOT_RUNNABLE" /\ status'[y] = "RUNNABLE" /\ ~recving'[y]
<1>1. TypeOK /\ status[x] = "NOT_RUNNABLE" /\ x # e
  BY CallerFacts DEF MemInv, WaitInv
<1>2. /\ recving' = [recving EXCEPT ![x] = FALSE]
      /\ status' = [status EXCEPT ![x] = "RUNNABLE"]
      /\ Return(c) /\ parent' = parent /\ dstva' = dstva
  BY DEF Deliver
<1>3. FieldsTyped' /\ status' \in [Env -> Statuses]
  BY <1>1, <1>2 DEF TypeOK, FieldsTyped, Statuses
<1> QED
  BY <1>1, <1>2, <1>3 DEF TypeOK

\* A message without a page touches no tables.
LEMMA DeliveredKeeps ==
  ASSUME MemInv, NEW c \in CPU, NEW e \in Env, NEW x \in Env, Calls(c, e),
         status[x] # "FREE", recving[x], Deliver(c, x), mem' = mem,
         ipc_perm' \in [Env -> Perm \cup {"0"}]
  PROVE  MemInv' /\ Steps
<1>1. /\ status[x] = "NOT_RUNNABLE" /\ x # e
      /\ Return(c) /\ FieldsTyped' /\ status' \in [Env -> Statuses]
      /\ \A y \in Env :
           \/ status'[y] = status[y] /\ recving'[y] = recving[y]
           \/ status[y] = "NOT_RUNNABLE" /\ status'[y] = "RUNNABLE" /\ ~recving'[y]
  BY DeliverFacts
<1>2. Sound(mem')
  BY DEF MemInv
<1>3. MemInv' /\ Freed
  BY <1>1, <1>2, CallKeepsInv
<1>4. WriteNeverGained /\ SpaceIsPrivate
  BY DEF WriteNeverGained, SpaceIsPrivate
<1> QED
  BY <1>3, <1>4 DEF Steps

\* Of the receiver's space a page changes what it asked for, and with no more rights
\* than the sender has, also when the second half fails.
LEMMA SendPageKeeps ==
  ASSUME MemInv, NEW c \in CPU, SendPage(c)
  PROVE  MemInv' /\ Steps
<1>1. PICK e \in Env, x \in Env, srcva \in VA, perm \in Perm, p \in mem.free :
        /\ Calls(c, e) /\ status[x] # "FREE" /\ recving[x]
        /\ dstva[x] # NoVA
        /\ \E q \in SecondPage(mem, p) :
             LET va == dstva[x]
                 m == EnvPageAlloc(mem, x, va, perm, p, q)
                 sent == Inserts(mem, x, va, q) /\ MayMap(m, e, srcva, perm)
             IN IF sent
                THEN /\ mem' = PageInsert(m, x, m.pte[e][srcva].page, va, perm, None)
                     /\ ipc_perm' = [ipc_perm EXCEPT ![x] = perm]
                     /\ Deliver(c, x)
                ELSE /\ mem' = m
                     /\ Return(c)
                     /\ UNCHANGED <<status, parent, ipcVars>>
  BY DEF SendPage
<1>2. PICK q \in SecondPage(mem, p) :
        LET va == dstva[x]
            m == EnvPageAlloc(mem, x, va, perm, p, q)
            sent == Inserts(mem, x, va, q) /\ MayMap(m, e, srcva, perm)
        IN IF sent
           THEN /\ mem' = PageInsert(m, x, m.pte[e][srcva].page, va, perm, None)
                /\ ipc_perm' = [ipc_perm EXCEPT ![x] = perm]
                /\ Deliver(c, x)
           ELSE /\ mem' = m
                /\ Return(c)
                /\ UNCHANGED <<status, parent, ipcVars>>
  BY <1>1
<1> DEFINE va == dstva[x]
           m == EnvPageAlloc(mem, x, va, perm, p, q)
           r == m.pte[e][srcva].page
<1>3. Sound(mem) /\ mem \in Memories /\ TypeOK
  BY DEF MemInv, Sound
<1>4. va \in VA
  BY <1>1, <1>3 DEF TypeOK
<1>5. /\ Sound(m) /\ m.pgdir = mem.pgdir
      /\ \A y \in Env \ {x} : m.pde[y] = mem.pde[y]
      /\ IF Inserts(mem, x, va, q)
         THEN /\ m.pde[x][TableOf[va]] # None
              /\ m.pte = [mem.pte EXCEPT ![x][va] = [page |-> p, perm |-> perm]]
         ELSE m.pde = mem.pde /\ m.pte = mem.pte
  <2> HIDE DEF va
  <2> QED
    BY <1>3, <1>4, EnvPageAllocSound
<1>6. \/ /\ Inserts(mem, x, va, q) /\ MayMap(m, e, srcva, perm)
         /\ mem' = PageInsert(m, x, r, va, perm, None)
         /\ ipc_perm' = [ipc_perm EXCEPT ![x] = perm]
         /\ Deliver(c, x)
      \/ mem' = m /\ Return(c) /\ UNCHANGED <<status, parent, ipcVars>>
  BY <1>2
<1> HIDE DEF va, m
<1>7. \A w \in Page : Writable(m, w) => Writable(mem, w) \/ w \in mem.free
  <2>1. CASE m.pte = mem.pte
    BY <2>1 DEF Writable
  <2>2. CASE m.pte = [mem.pte EXCEPT ![x][va] = [page |-> p, perm |-> perm]]
    <3>1. \A w \in Page : Writable(m, w) => Writable(mem, w) \/ (w = p /\ perm = "w")
      BY <1>3, <1>4, <2>2, WritableInserted
    <3> QED
      BY <3>1
  <2> QED
    BY <1>5, <2>1, <2>2
<1>8. \A y \in Env, v \in VA : y # x \/ v # va => m.pte[y][v] = mem.pte[y][v]
  BY <1>3, <1>4, <1>5, MemoryParts
<1>9. \A y \in Env \ {x} : m.pte[y] = mem.pte[y]
  BY <1>3, <1>4, <1>5, MemoryParts
<1>10. status[x] = "NOT_RUNNABLE" /\ curenv[c] = e
  BY <1>1, <1>3 DEF MemInv, WaitInv, Calls
<1>11. CASE /\ Inserts(mem, x, va, q) /\ MayMap(m, e, srcva, perm)
            /\ mem' = PageInsert(m, x, r, va, perm, None)
            /\ ipc_perm' = [ipc_perm EXCEPT ![x] = perm]
            /\ Deliver(c, x)
  <2>1. m \in Memories /\ Mappable(m, r)
    BY <1>5, <1>11, MappedIsMappable DEF MayMap, Sound
  <2>2. perm = "w" => Writable(m, r)
    <3>1. m.pte[e][srcva] \in Mapping
      BY <1>11, <2>1, MemoryParts DEF MayMap, Mapped
    <3> QED
      BY <1>11, <3>1 DEF MayMap, Writable, Mapping
  <2> HIDE DEF r
  <2>3. /\ Sound(mem') /\ mem'.pgdir = m.pgdir /\ mem'.pde = m.pde
        /\ mem'.pte = [m.pte EXCEPT ![x][va] = [page |-> r, perm |-> perm]]
    BY <1>4, <1>5, <1>11, <2>1, PageInserted
  <2>4. \A y \in Env, v \in VA : y # x \/ v # va => mem'.pte[y][v] = m.pte[y][v]
    BY <2>1, <2>3, MemoryParts
  <2>5. \A y \in Env \ {x} : mem'.pte[y] = mem.pte[y] /\ mem'.pde[y] = mem.pde[y]
    BY <1>5, <1>9, <2>1, <2>3, MemoryParts
  <2>6. mem'.pgdir = mem.pgdir
    BY <1>5, <2>3
  <2>7. ipc_perm' \in [Env -> Perm \cup {"0"}]
    BY <1>3, <1>11 DEF TypeOK
  <2>8. /\ Return(c) /\ FieldsTyped' /\ status' \in [Env -> Statuses]
        /\ \A y \in Env :
             \/ status'[y] = status[y] /\ recving'[y] = recving[y]
             \/ status[y] = "NOT_RUNNABLE" /\ status'[y] = "RUNNABLE" /\ ~recving'[y]
    BY <1>1, <1>11, <2>7, DeliverFacts
  <2>9. MemInv' /\ Freed
    BY <1>1, <1>10, <2>3, <2>5, <2>6, <2>8, CallKeepsInv
  <2>10. WriteNeverGained
    BY <1>4, <1>7, <2>1, <2>2, <2>3, WritableInserted DEF WriteNeverGained
  <2>11. SpaceIsPrivate
    BY <1>1, <1>8, <1>10, <2>4, <2>5, PrivateStep DEF va
  <2> QED
    BY <2>9, <2>10, <2>11 DEF Steps
<1>12. CASE mem' = m /\ Return(c) /\ UNCHANGED <<status, parent, ipcVars>>
  <2>1. FieldsTyped' /\ status' \in [Env -> Statuses]
    BY <1>3, <1>12 DEF TypeOK, FieldsTyped, ipcVars
  <2>2. \A y \in Env : status'[y] = status[y] /\ recving'[y] = recving[y]
    BY <1>12 DEF ipcVars
  <2>3. MemInv' /\ Freed
    BY <1>1, <1>5, <1>9, <1>10, <1>12, <2>1, <2>2, CallKeepsInv
  <2>4. WriteNeverGained
    BY <1>7, <1>12 DEF WriteNeverGained
  <2>5. SpaceIsPrivate
    BY <1>1, <1>8, <1>9, <1>10, <1>12, PrivateStep DEF va
  <2> QED
    BY <2>3, <2>4, <2>5 DEF Steps
<1> QED
  BY <1>6, <1>11, <1>12

\* sys_ipc_try_send, with a page, without one, or with one nobody asked for
LEMMA SysIpcTrySendKeeps ==
  ASSUME MemInv, NEW c \in CPU, SysIpcTrySend(c)
  PROVE  MemInv' /\ Steps
<1>1. TypeOK
  BY DEF MemInv
<1>2. CASE SendValue(c)
  <2>1. PICK e \in Env, x \in Env :
          /\ Calls(c, e) /\ status[x] # "FREE" /\ recving[x]
          /\ ipc_perm' = [ipc_perm EXCEPT ![x] = "0"]
          /\ mem' = mem /\ Deliver(c, x)
    BY <1>2 DEF SendValue
  <2>2. ipc_perm' \in [Env -> Perm \cup {"0"}]
    BY <1>1, <2>1 DEF TypeOK
  <2> QED
    BY <2>1, <2>2, DeliveredKeeps
<1>3. CASE SendPageUnwanted(c)
  <2>1. PICK e \in Env, x \in Env :
          /\ Calls(c, e) /\ status[x] # "FREE" /\ recving[x]
          /\ mem' = mem /\ ipc_perm' = ipc_perm /\ Deliver(c, x)
    BY <1>3 DEF SendPageUnwanted
  <2> QED
    BY <1>1, <2>1, DeliveredKeeps DEF TypeOK
<1>4. CASE SendPage(c)
  BY <1>4, SendPageKeeps
<1> QED
  BY <1>2, <1>3, <1>4 DEF SysIpcTrySend

\* sys_ipc_recv stops its caller.
LEMMA SysIpcRecvKeeps ==
  ASSUME MemInv, NEW c \in CPU, SysIpcRecv(c)
  PROVE  MemInv' /\ Steps
<1>1. PICK e \in Env, va \in VA \cup {NoVA} :
        /\ Calls(c, e)
        /\ recving' = [recving EXCEPT ![e] = TRUE]
        /\ dstva' = [dstva EXCEPT ![e] = va]
        /\ UNCHANGED <<mem, parent, ipc_perm>>
        /\ SchedYield(c, [status EXCEPT ![e] = "NOT_RUNNABLE"])
  BY DEF SysIpcRecv
<1> DEFINE st == [status EXCEPT ![e] = "NOT_RUNNABLE"]
<1>2. TypeOK /\ Sound(mem') /\ st \in [Env -> Statuses] /\ FieldsTyped'
  BY <1>1 DEF MemInv, TypeOK, Statuses, FieldsTyped
<1>3. \A y \in Env : st[y] = IF y = e THEN "NOT_RUNNABLE" ELSE status[y]
  BY <1>2 DEF TypeOK
<1> HIDE DEF st
<1>4. Live(mem', st)
  <2>1. st[e] # "FREE" /\ status[e] # "FREE" /\ \A y \in Env : st[y] = "FREE" <=> status[y] = "FREE"
    BY <1>1, <1>3, CallerFacts
  <2> QED
    BY <1>1, <2>1, LiveKept
<1>5. \A y \in Env : recving'[y] /\ st[y] # "FREE" => st[y] = "NOT_RUNNABLE"
  BY <1>1, <1>2, <1>3 DEF MemInv, WaitInv, TypeOK
<1>6. \A d \in CPU \ {c} : curenv[d] # None => st[curenv[d]] = status[curenv[d]]
  BY <1>1, <1>3, CallerFacts
<1>7. MemInv' /\ \A y \in Env : status'[y] = "FREE" <=> st[y] = "FREE"
  BY <1>1, <1>2, <1>4, <1>5, <1>6, YieldKeepsInv DEF st
<1>8. Steps
  <2>1. WriteNeverGained /\ SpaceIsPrivate
    BY <1>1 DEF WriteNeverGained, SpaceIsPrivate
  <2>2. Freed
    BY <1>1, <1>3, <1>7, CallerFacts DEF Freed
  <2> QED
    BY <2>1, <2>2 DEF Steps
<1> QED
  BY <1>7, <1>8

-----------------------------------------------------------------------------
(* The life of an environment                                              *)

\* A clock interrupt changes no memory.
LEMMA TimerKeeps ==
  ASSUME MemInv, NEW c \in CPU, Timer(c)
  PROVE  MemInv' /\ Steps
<1>1. /\ mem' = mem /\ parent' = parent /\ UNCHANGED ipcVars
      /\ SchedYield(c, status)
  BY DEF Timer
<1>2. TypeOK /\ Sound(mem') /\ FieldsTyped' /\ status \in [Env -> Statuses]
  BY <1>1 DEF MemInv, TypeOK, FieldsTyped, ipcVars
<1>3. Live(mem', status)
  BY <1>1 DEF MemInv, SpacesLive, Live
<1>4. \A y \in Env : recving'[y] /\ status[y] # "FREE" => status[y] = "NOT_RUNNABLE"
  BY <1>1 DEF MemInv, WaitInv, ipcVars
<1>5. MemInv' /\ \A y \in Env : status'[y] = "FREE" <=> status[y] = "FREE"
  BY <1>1, <1>2, <1>3, <1>4, YieldKeepsInv
<1>6. Steps
  BY <1>1, <1>5 DEF Steps, WriteNeverGained, SpaceIsPrivate, Freed
<1> QED
  BY <1>5, <1>6

\* Starting a child changes no memory.
LEMMA SysEnvSetStatusKeeps ==
  ASSUME MemInv, NEW c \in CPU, SysEnvSetStatus(c)
  PROVE  MemInv' /\ Steps
<1>1. PICK e \in Env, x \in Env :
        /\ Calls(c, e) /\ Embryo(x)
        /\ status' = [status EXCEPT ![x] = "RUNNABLE"]
        /\ mem' = mem /\ parent' = parent /\ UNCHANGED ipcVars
        /\ Return(c)
  BY DEF SysEnvSetStatus
<1>2. TypeOK /\ Sound(mem') /\ FieldsTyped' /\ status' \in [Env -> Statuses]
  BY <1>1 DEF MemInv, TypeOK, FieldsTyped, ipcVars, Statuses
<1>3. status[x] = "NOT_RUNNABLE" /\ ~recving[x]
  BY <1>1 DEF Embryo
<1>4. \A y \in Env :
        \/ status'[y] = status[y] /\ recving'[y] = recving[y]
        \/ status[y] = "NOT_RUNNABLE" /\ status'[y] = "RUNNABLE" /\ ~recving'[y]
  BY <1>1, <1>2, <1>3 DEF TypeOK, ipcVars
<1>5. MemInv' /\ Freed
  BY <1>1, <1>2, <1>3, <1>4, CallKeepsInv
<1>6. WriteNeverGained /\ SpaceIsPrivate
  BY <1>1 DEF WriteNeverGained, SpaceIsPrivate
<1> QED
  BY <1>5, <1>6 DEF Steps

\* sys_exofork gives a free slot a directory and nothing else.
LEMMA SysExoforkKeeps ==
  ASSUME MemInv, NEW c \in CPU, SysExofork(c)
  PROVE  MemInv' /\ Steps
<1>1. PICK e \in Env, n \in Env, d \in mem.free :
        /\ Calls(c, e)
        /\ status[n] = "FREE"
        /\ mem' = EnvSetupVm(mem, n, d)
        /\ status' = [status EXCEPT ![n] = "NOT_RUNNABLE"]
        /\ parent' = [x \in Env |-> IF x = n THEN e
                                    ELSE IF parent[x] = n THEN None ELSE parent[x]]
        /\ recving' = [recving EXCEPT ![n] = FALSE]
        /\ Return(c)
        /\ UNCHANGED <<dstva, ipc_perm>>
  BY DEF SysExofork
<1>2. TypeOK /\ Sound(mem) /\ mem \in Memories
  BY DEF MemInv, Sound
<1>3. mem.pgdir[n] = None
  <2>1. <<n, None>> \in Place /\ Held(mem, <<n, None>>) = mem.pgdir[n]
    BY HeldAt DEF Place
  <2> QED
    BY <1>1, <2>1 DEF MemInv, SpacesLive
<1>4. /\ Sound(mem') /\ mem'.pgdir = [mem.pgdir EXCEPT ![n] = d] /\ d # None
      /\ mem'.pde = mem.pde /\ mem'.pte = mem.pte
  BY <1>1, <1>2, <1>3, EnvSetupVmSound
<1>5. FieldsTyped' /\ status' \in [Env -> Statuses]
  BY <1>1, <1>2 DEF TypeOK, FieldsTyped, Statuses
<1>6. \A y \in Env : /\ status'[y] = IF y = n THEN "NOT_RUNNABLE" ELSE status[y]
                     /\ mem'.pgdir[y] = IF y = n THEN d ELSE mem.pgdir[y]
                     /\ recving'[y] = IF y = n THEN FALSE ELSE recving[y]
  BY <1>1, <1>2, <1>4, MemoryParts DEF TypeOK
<1>7. Live(mem', status')
  <2> SUFFICES ASSUME NEW y \in Env
               PROVE  IF status'[y] = "FREE"
                      THEN \A s \in Place : s[1] = y => Held(mem', s) = None
                      ELSE mem'.pgdir[y] # None
    BY DEF Live
  <2>1. CASE y = n
    BY <1>4, <1>6, <2>1
  <2>2. CASE y # n /\ status[y] = "FREE"
    <3>1. \A s \in Place : s[1] = y => Held(mem', s) = Held(mem, s)
      BY <1>4, <1>6, <2>2 DEF Held
    <3> QED
      BY <1>6, <2>2, <3>1 DEF MemInv, SpacesLive
  <2>3. CASE y # n /\ status[y] # "FREE"
    BY <1>6, <2>3 DEF MemInv, SpacesLive
  <2> QED
    BY <2>1, <2>2, <2>3
<1>8. WaitInv'
  BY <1>6 DEF MemInv, WaitInv
<1>9. \A d1 \in CPU : curenv[d1] # None => status'[curenv[d1]] \in {"RUNNING", "DYING"}
  BY <1>1, <1>6, CallerFacts
<1>10. MemInv'
  BY <1>1, <1>4, <1>5, <1>7, <1>8, <1>9, ReturnKeepsInv
<1>11. Steps
  <2>1. WriteNeverGained /\ SpaceIsPrivate
    BY <1>4 DEF WriteNeverGained, Writable, SpaceIsPrivate
  <2>2. Freed
    BY <1>6 DEF Freed
  <2> QED
    BY <2>1, <2>2 DEF Steps
<1> QED
  BY <1>10, <1>11

\* What is left of x when its address space is gone, and of the others
LEMMA GoneFacts ==
  ASSUME MemInv, NEW x \in Env, status[x] # "FREE", mem' = EnvFreePages(mem, x),
         NEW st \in [Env -> Statuses],
         \A y \in Env : st[y] = IF y = x THEN "FREE" ELSE status[y]
  PROVE  /\ Sound(mem') /\ Live(mem', st)
         /\ \A y \in Env \ {x} : mem'.pte[y] = mem.pte[y]
         /\ WriteNeverGained
         /\ (\A y \in Env : status'[y] = "FREE" <=> st[y] = "FREE") => Freed
<1>1. Sound(mem) /\ mem \in Memories
  BY DEF MemInv, Sound
<1>2. /\ Sound(mem')
      /\ \A s \in Place : Held(mem', s) = IF s[1] = x THEN None ELSE Held(mem, s)
      /\ mem'.pgdir = [mem.pgdir EXCEPT ![x] = None]
      /\ \A y \in Env \ {x} : mem'.pde[y] = mem.pde[y] /\ mem'.pte[y] = mem.pte[y]
      /\ \A va \in VA : mem'.pte[x][va] = Unmapped
      /\ \A p \in Page :
           Refs(mem, p) # {} /\ (\A s \in Refs(mem, p) : s[1] = x) => p \in mem'.free
  BY <1>1, EnvFreeSound
<1>3. \A y \in Env \ {x} : mem'.pgdir[y] = mem.pgdir[y]
  BY <1>1, <1>2, MemoryParts
<1>4. Live(mem', st)
  <2> SUFFICES ASSUME NEW y \in Env
               PROVE  IF st[y] = "FREE"
                      THEN \A s \in Place : s[1] = y => Held(mem', s) = None
                      ELSE mem'.pgdir[y] # None
    BY DEF Live
  <2>1. CASE y = x
    BY <1>2, <2>1
  <2>2. CASE y # x
    BY <1>2, <1>3, <2>2 DEF MemInv, SpacesLive
  <2> QED
    BY <2>1, <2>2
<1>5. WriteNeverGained
  <2> SUFFICES ASSUME NEW p \in Page, NEW y \in Env, NEW va \in VA,
                      mem'.pte[y][va] = [page |-> p, perm |-> "w"]
               PROVE  Writable(mem, p)
    BY DEF WriteNeverGained, Writable
  <2>1. y # x
    BY <1>2 DEF Unmapped
  <2> QED
    BY <1>2, <2>1 DEF Writable
<1>6. ASSUME \A y \in Env : status'[y] = "FREE" <=> st[y] = "FREE" PROVE Freed
  BY <1>2, <1>6 DEF Freed
<1> QED
  BY <1>2, <1>4, <1>5, <1>6

\* trap() of a zombie frees it and takes somebody else.
LEMMA TrapOfZombieKeeps ==
  ASSUME MemInv, NEW c \in CPU, TrapOfZombie(c)
  PROVE  MemInv' /\ Steps
<1>1. PICK e \in Env :
        /\ curenv[c] = e /\ status[e] = "DYING"
        /\ mem' = EnvFreePages(mem, e)
        /\ SchedYield(c, [status EXCEPT ![e] = "FREE"])
        /\ UNCHANGED <<parent, ipcVars>>
  BY DEF TrapOfZombie
<1> DEFINE st == [status EXCEPT ![e] = "FREE"]
<1>2. TypeOK /\ CpuInv /\ st \in [Env -> Statuses] /\ FieldsTyped'
  BY <1>1 DEF MemInv, TypeOK, Statuses, FieldsTyped, ipcVars
<1>3. \A y \in Env : st[y] = IF y = e THEN "FREE" ELSE status[y]
  BY <1>2 DEF TypeOK
<1>4. SchedYield(c, st)
  BY <1>1
<1> HIDE DEF st
<1>5. /\ Sound(mem') /\ Live(mem', st)
      /\ \A y \in Env \ {e} : mem'.pte[y] = mem.pte[y]
      /\ WriteNeverGained
      /\ (\A y \in Env : status'[y] = "FREE" <=> st[y] = "FREE") => Freed
  BY <1>1, <1>2, <1>3, GoneFacts
<1>6. \A y \in Env : recving'[y] /\ st[y] # "FREE" => st[y] = "NOT_RUNNABLE"
  BY <1>1, <1>3 DEF MemInv, WaitInv, ipcVars
<1>7. \A d \in CPU \ {c} : curenv[d] # None =>
        /\ st[curenv[d]] = status[curenv[d]]
        /\ mem'.pte[curenv[d]] = mem.pte[curenv[d]]
  <2>1. \A d \in CPU \ {c} : curenv[d] # None => curenv[d] \in Env \ {e}
    BY <1>1, <1>2 DEF TypeOK, CpuInv
  <2> QED
    BY <1>3, <1>5, <2>1
<1>8. MemInv' /\ \A y \in Env : status'[y] = "FREE" <=> st[y] = "FREE"
  BY <1>2, <1>4, <1>5, <1>6, <1>7, YieldKeepsInv
<1>9. SpaceIsPrivate
  BY <1>1, <1>5, PrivateStep
<1> QED
  BY <1>5, <1>8, <1>9 DEF Steps

\* sys_env_destroy frees a child at once, unless it is executing, or its caller.
LEMMA SysEnvDestroyKeeps ==
  ASSUME MemInv, NEW c \in CPU, SysEnvDestroy(c)
  PROVE  MemInv' /\ Steps
<1>1. PICK e \in Env, x \in Env :
        /\ Calls(c, e)
        /\ Envid2env(e, x) /\ status[x] # "DYING"
        /\ IF status[x] = "RUNNING" /\ x # e
           THEN /\ status' = [status EXCEPT ![x] = "DYING"]
                /\ UNCHANGED mem
                /\ Return(c)
           ELSE /\ mem' = EnvFreePages(mem, x)
                /\ IF x = e THEN SchedYield(c, [status EXCEPT ![x] = "FREE"])
                   ELSE status' = [status EXCEPT ![x] = "FREE"] /\ Return(c)
        /\ UNCHANGED <<parent, ipcVars>>
  BY DEF SysEnvDestroy
<1>2. TypeOK /\ CpuInv /\ WaitInv /\ FieldsTyped'
  BY <1>1 DEF MemInv, TypeOK, FieldsTyped, ipcVars
<1>3. status[x] # "FREE" /\ (x = e \/ parent[x] = e) /\ curenv[c] = e /\ status \in [Env -> Statuses]
  BY <1>1, <1>2, MayChangeFacts DEF Calls, TypeOK
<1>4. CASE status[x] = "RUNNING" /\ x # e
  <2>1. /\ mem' = mem /\ Return(c)
        /\ \A y \in Env : status'[y] = IF y = x THEN "DYING" ELSE status[y]
        /\ status' \in [Env -> Statuses]
    BY <1>1, <1>3, <1>4 DEF Statuses
  <2>2. Sound(mem') /\ Live(mem', status') /\ WaitInv'
    BY <1>1, <1>4, <2>1 DEF MemInv, SpacesLive, Live, WaitInv, ipcVars
  <2>3. \A d \in CPU : curenv[d] # None => status'[curenv[d]] \in {"RUNNING", "DYING"}
    BY <1>1, <2>1, CallerFacts
  <2>4. MemInv'
    BY <1>2, <2>1, <2>2, <2>3, ReturnKeepsInv
  <2> QED
    BY <2>1, <2>4 DEF Steps, WriteNeverGained, SpaceIsPrivate, Freed
<1>5. CASE ~(status[x] = "RUNNING" /\ x # e)
  <2> DEFINE st == [status EXCEPT ![x] = "FREE"]
  <2>1. st \in [Env -> Statuses] /\ \A y \in Env : st[y] = IF y = x THEN "FREE" ELSE status[y]
    BY <1>3 DEF Statuses
  <2>2. /\ mem' = EnvFreePages(mem, x)
        /\ IF x = e THEN SchedYield(c, st) ELSE status' = st /\ Return(c)
    BY <1>1, <1>5
  <2> HIDE DEF st
  <2>3. /\ Sound(mem') /\ Live(mem', st)
        /\ \A y \in Env \ {x} : mem'.pte[y] = mem.pte[y]
        /\ WriteNeverGained
        /\ (\A y \in Env : status'[y] = "FREE" <=> st[y] = "FREE") => Freed
    BY <1>3, <2>1, <2>2, GoneFacts
  <2>4. \A y \in Env : recving'[y] /\ st[y] # "FREE" => st[y] = "NOT_RUNNABLE"
    BY <1>1, <1>2, <2>1 DEF WaitInv, ipcVars
  <2>5. SpaceIsPrivate
    BY <1>3, <2>3, PrivateStep
  <2>6. \A d \in CPU \ {c} : curenv[d] # None => curenv[d] \in Env \ {e}
    BY <1>1, CallerFacts
  <2>7. CASE x = e
    <3>1. \A d \in CPU \ {c} : curenv[d] # None =>
            /\ st[curenv[d]] = status[curenv[d]]
            /\ mem'.pte[curenv[d]] = mem.pte[curenv[d]]
      BY <2>1, <2>3, <2>6, <2>7
    <3>2. MemInv' /\ \A y \in Env : status'[y] = "FREE" <=> st[y] = "FREE"
      BY <1>2, <2>1, <2>2, <2>3, <2>4, <2>7, <3>1, YieldKeepsInv
    <3> QED
      BY <2>3, <2>5, <3>2 DEF Steps
  <2>8. CASE x # e
    <3>1. status' = st /\ Return(c)
      BY <2>2, <2>8
    <3>2. \A d \in CPU : curenv[d] # None => curenv[d] \in Env \ {x}
      BY <1>1, <1>5, <2>8, CallerFacts
    <3>3. \A d \in CPU : curenv[d] # None => status'[curenv[d]] \in {"RUNNING", "DYING"}
      BY <1>1, <2>1, <3>1, <3>2, CallerFacts
    <3>4. \A d \in CPU : curenv[d] # None => mem'.pte[curenv[d]] = mem.pte[curenv[d]]
      BY <2>3, <3>2
    <3>5. WaitInv'
      BY <2>4, <3>1 DEF WaitInv
    <3>6. MemInv'
      BY <1>2, <2>1, <2>3, <3>1, <3>3, <3>4, <3>5, ReturnKeepsInv
    <3> QED
      BY <2>3, <2>5, <3>1, <3>6 DEF Steps
  <2> QED
    BY <2>7, <2>8
<1> QED
  BY <1>4, <1>5

-----------------------------------------------------------------------------
(* Theorems                                                                *)

\* One step for each action of Next.
LEMMA MemInvStep ==
  ASSUME MemInv, Next
  PROVE  MemInv' /\ Steps
<1> SUFFICES ASSUME NEW c \in CPU,
                    \/ Timer(c) \/ TrapOfZombie(c)
                    \/ SysExofork(c) \/ SysEnvSetStatus(c) \/ SysEnvDestroy(c)
                    \/ SysPageAlloc(c) \/ SysPageMap(c) \/ SysPageUnmap(c)
                    \/ SysIpcRecv(c) \/ SysIpcTrySend(c)
             PROVE  MemInv' /\ Steps
  BY DEF Next
<1>1. CASE Timer(c)
  BY <1>1, TimerKeeps
<1>2. CASE TrapOfZombie(c)
  BY <1>2, TrapOfZombieKeeps
<1>3. CASE SysExofork(c)
  BY <1>3, SysExoforkKeeps
<1>4. CASE SysEnvSetStatus(c)
  BY <1>4, SysEnvSetStatusKeeps
<1>5. CASE SysEnvDestroy(c)
  BY <1>5, SysEnvDestroyKeeps
<1>6. CASE SysPageAlloc(c)
  BY <1>6, SysPageAllocKeeps
<1>7. CASE SysPageMap(c)
  BY <1>7, SysPageMapKeeps
<1>8. CASE SysPageUnmap(c)
  BY <1>8, SysPageUnmapKeeps
<1>9. CASE SysIpcRecv(c)
  BY <1>9, SysIpcRecvKeeps
<1>10. CASE SysIpcTrySend(c)
  BY <1>10, SysIpcTrySendKeeps
<1> QED
  BY <1>1, <1>2, <1>3, <1>4, <1>5, <1>6, <1>7, <1>8, <1>9, <1>10

\* The invariant holds in every reachable state.
THEOREM MemoryInvariant == Spec => []MemInv
<1>1. Init => MemInv
  BY MemInvInit
<1>2. MemInv /\ [Next]_vars => MemInv'
  <2>1. ASSUME MemInv, UNCHANGED vars PROVE MemInv'
    <3>1. /\ mem' = mem /\ status' = status /\ parent' = parent /\ recving' = recving
          /\ dstva' = dstva /\ ipc_perm' = ipc_perm /\ curenv' = curenv /\ tlb' = tlb
      BY <2>1 DEF vars, ipcVars
    <3> QED
      BY <2>1, <3>1 DEF MemInv, TypeOK, SpacesLive, CpuInv, WaitInv, TlbsCoherent
  <2> QED
    BY <2>1, MemInvStep
<1> QED
  BY <1>1, <1>2, PTL DEF Spec

\* pp_ref counts, for any machine, what refers to a page, and nothing on
\* page_free_list is in use (kern/pmap.c), however programs call.
THEOREM MemoryPagesCounted == Spec => []PagesCounted
<1>1. MemInv => PagesCounted
  BY SoundParts DEF MemInv, PagesCounted
<1> QED
  BY <1>1, MemoryInvariant, PTL

\* Directories and tables are private to one environment, and an address space exists
\* as long as its environment does, for any machine (kern/env.c).
THEOREM MemorySpacesSound == Spec => []SpacesSound
<1>1. MemInv => SpacesSound
  BY SoundParts DEF MemInv, SpacesSound
<1> QED
  BY <1>1, MemoryInvariant, PTL

\* With programs that change a child only before they start it, no TLB is stale on any
\* number of CPUs (tlb_invalidate).
THEOREM MemoryTlbsCoherent == LIBRARY => (Spec => []TlbsCoherent)
<1> SUFFICES ASSUME LIBRARY PROVE Spec => []TlbsCoherent
  OBVIOUS
<1>1. MemInv => TlbsCoherent
  BY DEF MemInv
<1> QED
  BY <1>1, MemoryInvariant, PTL

\* Maps and messages add no right to write, and reach no space but those of the caller,
\* of its children and of who waits for a page (env_page_map, sys_ipc_try_send).
THEOREM MemoryPrivate == Spec => MemoryIsPrivate
<1>1. MemInv /\ [Next]_vars => [WriteNeverGained /\ SpaceIsPrivate]_vars
  BY MemInvStep DEF Steps
<1> QED
  BY <1>1, MemoryInvariant, PTL DEF Spec, MemoryIsPrivate

\* A page that only a dead environment referred to is free again (env_free).
THEOREM MemoryFreed == Spec => MemoryComesBack
<1>1. MemInv /\ [Next]_vars =>
        [\A e \in Env : status[e] # "FREE" /\ status'[e] = "FREE" =>
           \A p \in Page : Refs(mem, p) # {} /\ (\A s \in Refs(mem, p) : s[1] = e) =>
             p \in mem'.free]_vars
  BY MemInvStep DEF Steps, Freed
<1> QED
  BY <1>1, MemoryInvariant, PTL DEF Spec, MemoryComesBack
-----------------------------------------------------------------------------
(* mem_init: its boot allocator, its list of free pages and its map of the   *)
(* kernel's half of the address space, for any machine and any kernel        *)

CONSTANTS PGSIZE, NPTENTRIES, KERNBASE, KERNSPAN, KB, EXTSTART, EXT16START, IOPHYSMEM,
  MPENTRY_PADDR, KSTKSIZE, KSTKGAP, NCPU, PAGEINFO, ENVSIZE, NVRAM, Ends, MmioSizes
VARIABLES pc, npages, nextfree, chunks, page_free_list, tables, kern_map, base, regions

Boot == INSTANCE BootMemory

\* Whole parts and multiples
\* Division as it is defined
LEMMA Quotient ==
  ASSUME NEW d \in Nat \ {0}, NEW n \in Int
  PROVE  /\ n \div d \in Int /\ (n % d) \in 0 .. d - 1
         /\ n = d * (n \div d) + (n % d)
  OBVIOUS

\* Multiples are in the order of their factors.
LEMMA Less ==
  ASSUME NEW d \in Nat \ {0}, NEW x \in Int, NEW y \in Int, d * x < d * y + d
  PROVE  x =< y
<1> SUFFICES ASSUME x >= y + 1 PROVE FALSE
  OBVIOUS
<1>1. x = y + 1 + (x - y - 1) /\ x - y - 1 \in Nat
  OBVIOUS
<1>2. d * x = d * (y + 1) + d * (x - y - 1)
  BY <1>1
<1>3. d * (x - y - 1) >= 0
  BY <1>1
<1> QED
  BY <1>2, <1>3

\* The quotient of a multiple and a remainder
LEMMA QuotientOf ==
  ASSUME NEW d \in Nat \ {0}, NEW q \in Int, NEW r \in 0 .. d - 1
  PROVE  (d * q + r) \div d = q
<1> DEFINE n == d * q + r
<1>1. n \in Int
  OBVIOUS
<1>2. n \div d \in Int /\ (n % d) \in 0 .. d - 1 /\ n = d * (n \div d) + (n % d)
  BY <1>1, Quotient
<1>3. d * (n \div d) < d * q + d /\ d * q < d * (n \div d) + d
  BY <1>2
<1>4. n \div d =< q
  <2> HIDE DEF n
  <2> QED BY <1>2, <1>3, Less
<1>5. q =< n \div d
  <2> HIDE DEF n
  <2> QED BY <1>2, <1>3, Less
<1> HIDE DEF n
<1>6. n \div d \in Int
  BY <1>2
<1>7. n \div d = q
  BY <1>4, <1>5, <1>6
<1> QED
  BY <1>7 DEF n

\* Division keeps the order.
LEMMA QuotientGrows ==
  ASSUME NEW d \in Nat \ {0}, NEW m \in Int, NEW n \in Int, m =< n
  PROVE  m \div d =< n \div d
<1>1. m \div d \in Int /\ m = d * (m \div d) + (m % d) /\ (m % d) \in 0 .. d - 1
  BY Quotient
<1>2. n \div d \in Int /\ n = d * (n \div d) + (n % d) /\ (n % d) \in 0 .. d - 1
  BY Quotient
<1>3. d * (m \div d) < d * (n \div d) + d
  BY <1>1, <1>2
<1> QED
  BY <1>1, <1>2, <1>3, Less

-----------------------------------------------------------------------------
\* The list that Descending makes of a set has each member once.
LEMMA DescendingLists ==
  ASSUME NEW S, S \subseteq Int, IsFiniteSet(S)
  PROVE  /\ Boot!Descending(S) \in Seq(S)
         /\ Len(Boot!Descending(S)) = Cardinality(S)
         /\ \A i, j \in DOMAIN Boot!Descending(S) :
              Boot!Descending(S)[i] = Boot!Descending(S)[j] => i = j
         /\ \A p \in S : \E i \in DOMAIN Boot!Descending(S) : Boot!Descending(S)[i] = p
<1> DEFINE rank(p) == Cardinality({q \in S : q > p})
           n == Cardinality(S)
           L == Boot!Descending(S)
<1>1. n \in Nat
  BY FS_CardinalityType
<1>2. ASSUME NEW p \in S PROVE rank(p) \in 0 .. n - 1
  <2> DEFINE T == {q \in S : q > p}
  <2>1. T \subseteq S /\ p \notin T
    OBVIOUS
  <2>2. IsFiniteSet(T) /\ Cardinality(T) =< n /\ Cardinality(T) # n
    BY <2>1, FS_Subset
  <2>3. Cardinality(T) \in Nat
    BY <2>2, FS_CardinalityType
  <2> QED
    BY <1>1, <2>2, <2>3
<1>3. ASSUME NEW p \in S, NEW r \in S, p < r PROVE rank(p) # rank(r)
  <2> DEFINE T == {q \in S : q > p}
             U == {q \in S : q > r}
  <2>1. p \in Int /\ r \in Int /\ p < r /\ \A q \in S : q \in Int
    BY <1>3
  <2>2. ASSUME NEW q \in U PROVE q \in T
    BY <2>1
  <2>3. r \in T /\ r \notin U
    BY <2>1
  <2>4. IsFiniteSet(T)
    BY FS_Subset
  <2>5. Cardinality(T) # Cardinality(U)
    <3> HIDE DEF T, U
    <3> QED
      BY <2>2, <2>4, <2>3, FS_Subset
  <2> QED
    BY <2>5
<1>4. L = [i \in 1 .. n |-> CHOOSE p \in S : rank(p) = i - 1]
  BY Zenon DEF Boot!Descending, Boot!Cardinality, Cardinality
<1> HIDE DEF rank, L, n
<1>5. \A p, r \in S : rank(p) = rank(r) => p = r
  BY <1>3
<1>6. ASSUME NEW i \in 1 .. n PROVE \E p \in S : rank(p) = i - 1
  <2> DEFINE f == [p \in S |-> rank(p)]
  <2>1. f \in [S -> 0 .. n - 1]
    BY <1>2
  <2>2. f \in Injection(S, 0 .. n - 1)
    BY <1>5, <2>1 DEF Injection, IsInjective
  <2>3. IsFiniteSet(0 .. n - 1) /\ Cardinality(0 .. n - 1) = n
    BY <1>1, FS_Interval
  <2>4. f \in Surjection(S, 0 .. n - 1)
    <3> HIDE DEF f
    <3> QED
      BY <2>2, <2>3, FS_Injection DEF n
  <2>5. i - 1 \in 0 .. n - 1
    BY <1>1
  <2>6. \E p \in S : f[p] = i - 1
    BY <2>4, <2>5 DEF Surjection
  <2> QED
    BY <2>6
<1>7. ASSUME NEW i \in 1 .. n PROVE L[i] \in S /\ rank(L[i]) = i - 1
  BY <1>4, <1>6
<1>8. L \in Seq(S) /\ Len(L) = n
  <2>1. L \in [1 .. n -> S]
    BY <1>4, <1>7
  <2> QED
    BY <1>1, <2>1
<1>9. \A i, j \in DOMAIN L : L[i] = L[j] => i = j
  BY <1>1, <1>4, <1>7
<1>10. ASSUME NEW p \in S PROVE \E i \in DOMAIN L : L[i] = p
  <2>1. rank(p) \in 0 .. n - 1
    BY <1>2
  <2>2. PICK i \in 1 .. n : i - 1 = rank(p)
    BY <1>1, <2>1
  <2>3. rank(L[i]) = rank(p) /\ L[i] \in S
    BY <1>7, <2>2
  <2> QED
    BY <1>4, <1>5, <2>3
<1> QED
  BY <1>8, <1>9, <1>10 DEF L, n
-----------------------------------------------------------------------------
\* A list of pages, none twice
IsList(list) ==
  /\ list \in Seq(Nat)
  /\ \A i, j \in DOMAIN list : list[i] = list[j] => i = j

\* What check_page_free_list makes of the list is the list in another order.
LEMMA LowFirstLists ==
  ASSUME NEW list, IsList(list)
  PROVE  /\ IsList(Boot!LowFirst(list))
         /\ \A i \in DOMAIN Boot!LowFirst(list) :
              \E j \in DOMAIN list : Boot!LowFirst(list)[i] = list[j]
         /\ \A j \in DOMAIN list : \E i \in DOMAIN Boot!LowFirst(list) :
              Boot!LowFirst(list)[i] = list[j]
<1> DEFINE all == Boot!Range(list)
           low == {p \in all : Boot!EntryMapped(p)}
           high == all \ low
           A == Boot!Descending(low)
           B == Boot!Descending(high)
           C == Boot!LowFirst(list)
<1>1. all = {list[i] : i \in DOMAIN list}
  BY DEF Boot!Range
<1>2. DOMAIN list = 1 .. Len(list) /\ Len(list) \in Nat
  BY LenProperties DEF IsList
<1>3. all \subseteq Nat /\ all \subseteq Int
  BY <1>1 DEF IsList
<1>4. IsFiniteSet(all)
  <2>1. IsFiniteSet(1 .. Len(list))
    BY <1>2, FS_Interval
  <2>2. list \in Surjection(1 .. Len(list), all)
    BY <1>1, <1>2 DEF Surjection, IsList
  <2> HIDE DEF all
  <2> QED
    BY <2>1, <2>2, FS_Surjection
<1>5. C = A \o B
  BY DEF Boot!LowFirst
<1> HIDE DEF all, A, B, C
<1>6. low \subseteq all /\ high \subseteq all /\ low \cap high = {} /\ all = low \cup high
  OBVIOUS
<1> HIDE DEF low, high
<1>7. IsFiniteSet(low) /\ IsFiniteSet(high) /\ low \subseteq Int /\ high \subseteq Int
  BY <1>3, <1>4, <1>6, FS_Subset
<1>8. /\ A \in Seq(low) /\ \A i, j \in DOMAIN A : A[i] = A[j] => i = j
      /\ \A p \in low : \E i \in DOMAIN A : A[i] = p
  BY <1>7, DescendingLists DEF A
<1>9. /\ B \in Seq(high) /\ \A i, j \in DOMAIN B : B[i] = B[j] => i = j
      /\ \A p \in high : \E i \in DOMAIN B : B[i] = p
  BY <1>7, DescendingLists DEF B
<1>10. A \in Seq(Nat) /\ B \in Seq(Nat)
  <2>1. low \subseteq Nat /\ high \subseteq Nat
    BY <1>3, <1>6
  <2> QED
    BY <1>8, <1>9, <2>1, SeqMonotonic
<1>11. /\ DOMAIN A = 1 .. Len(A) /\ Len(A) \in Nat /\ \A i \in 1 .. Len(A) : A[i] \in low
       /\ DOMAIN B = 1 .. Len(B) /\ Len(B) \in Nat /\ \A i \in 1 .. Len(B) : B[i] \in high
  BY <1>8, <1>9, LenProperties
<1>12. /\ C \in Seq(Nat) /\ Len(C) = Len(A) + Len(B)
       /\ \A i \in 1 .. Len(A) + Len(B) : C[i] = IF i =< Len(A) THEN A[i] ELSE B[i - Len(A)]
  BY <1>5, <1>10, ConcatProperties
<1>13. DOMAIN C = 1 .. Len(A) + Len(B)
  BY <1>12, LenProperties
<1>14. ASSUME NEW i \in DOMAIN C PROVE C[i] \in all /\ (i =< Len(A) <=> C[i] \in low)
  <2>1. CASE i =< Len(A)
    BY <2>1, <1>6, <1>11, <1>12, <1>13
  <2>2. CASE i > Len(A)
    <3>1. i - Len(A) \in 1 .. Len(B) /\ C[i] = B[i - Len(A)]
      BY <2>2, <1>11, <1>12, <1>13
    <3> QED
      BY <2>2, <3>1, <1>6, <1>11
  <2> QED
    BY <2>1, <2>2, <1>11, <1>13
<1>15. ASSUME NEW i \in DOMAIN C, i > Len(A)
       PROVE  i - Len(A) \in DOMAIN B /\ C[i] = B[i - Len(A)]
  BY <1>11, <1>12, <1>13, <1>15
<1>16. ASSUME NEW i \in DOMAIN C, NEW j \in DOMAIN C, C[i] = C[j] PROVE i = j
  <2>1. CASE i =< Len(A)
    <3>1. j =< Len(A)
      BY <1>14, <1>16, <2>1
    <3> QED
      BY <1>8, <1>11, <1>12, <1>13, <1>16, <2>1, <3>1
  <2>2. CASE i > Len(A)
    <3>1. j > Len(A)
      BY <1>11, <1>13, <1>14, <1>16, <2>2
    <3>2. i - Len(A) \in DOMAIN B /\ C[i] = B[i - Len(A)]
      BY <1>15, <2>2
    <3>3. j - Len(A) \in DOMAIN B /\ C[j] = B[j - Len(A)]
      BY <1>15, <3>1
    <3>4. B[i - Len(A)] = B[j - Len(A)]
      BY <1>16, <3>2, <3>3
    <3>5. i - Len(A) = j - Len(A)
      BY <1>9, <3>4, <3>2, <3>3
    <3> QED
      BY <1>11, <1>13, <3>5
  <2> QED
    BY <2>1, <2>2, <1>11, <1>13
<1>17. ASSUME NEW p \in all PROVE \E i \in DOMAIN C : C[i] = p
  <2>1. CASE p \in low
    <3>1. PICK i \in DOMAIN A : A[i] = p
      BY <1>8, <2>1
    <3>2. i \in 1 .. Len(A) + Len(B) /\ i =< Len(A)
      BY <1>11, <3>1
    <3>3. C[i] = p
      BY <1>12, <3>1, <3>2
    <3> QED
      BY <1>13, <3>2, <3>3
  <2>2. CASE p \in high
    <3>1. PICK i \in DOMAIN B : B[i] = p
      BY <1>9, <2>2
    <3>2. i + Len(A) \in 1 .. Len(A) + Len(B) /\ ~(i + Len(A) =< Len(A))
          /\ (i + Len(A)) - Len(A) = i
      BY <1>11, <3>1
    <3>3. C[i + Len(A)] = p
      BY <1>12, <3>1, <3>2
    <3> QED
      BY <1>13, <3>2, <3>3
  <2> QED
    BY <1>6, <2>1, <2>2
<1> QED
  BY <1>1, <1>12, <1>14, <1>16, <1>17 DEF IsList, C

-----------------------------------------------------------------------------
(* Pages and addresses                                                     *)

\* A size in whole pages is not less, and no more than the pages that hold it.
LEMMA WholePages ==
  ASSUME Boot!Geometry, NEW n \in Nat
  PROVE  /\ Boot!PagesOf(n) \in Nat /\ Boot!Roundup(n) \in Nat /\ Boot!Roundup(n) >= n
         /\ Boot!Roundup(n) = PGSIZE * Boot!PagesOf(n)
         /\ Boot!PGNUM(Boot!Roundup(n)) = Boot!PagesOf(n)
         /\ \A k \in Nat : n =< k * PGSIZE => Boot!PagesOf(n) =< k
<1> DEFINE q == (n + PGSIZE - 1) \div PGSIZE
<1>1. PGSIZE \in Nat \ {0}
  BY DEF Boot!Geometry
<1>2. /\ q \in Int /\ (n + PGSIZE - 1) % PGSIZE \in 0 .. PGSIZE - 1
      /\ n + PGSIZE - 1 = PGSIZE * q + ((n + PGSIZE - 1) % PGSIZE)
  BY <1>1, Quotient
<1>3. Boot!Roundup(n) = q * PGSIZE
  BY DEF Boot!Roundup
<1> HIDE DEF q
<1>4. q * PGSIZE = PGSIZE * q /\ PGSIZE * q \in Int
  BY <1>1, <1>2
<1>5. PGSIZE * q >= n /\ PGSIZE * 0 < PGSIZE * q + PGSIZE
  BY <1>1, <1>2, <1>4
<1>6. q >= 0
  BY <1>1, <1>2, <1>5, Less
<1>7. (PGSIZE * q) \div PGSIZE = q
  <2>1. (PGSIZE * q + 0) \div PGSIZE = q
    BY <1>1, <1>2, QuotientOf
  <2> QED
    BY <1>4, <2>1
<1>8. Boot!PagesOf(n) = q /\ Boot!PGNUM(Boot!Roundup(n)) = q
  BY <1>3, <1>4, <1>7 DEF Boot!PagesOf, Boot!PGNUM
<1>9. ASSUME NEW k \in Nat, n =< k * PGSIZE PROVE q =< k
  <2>1. k * PGSIZE = PGSIZE * k /\ PGSIZE * k \in Int
    BY <1>1
  <2>2. PGSIZE * q < PGSIZE * k + PGSIZE
    BY <1>1, <1>2, <1>4, <1>9, <2>1
  <2> QED
    BY <1>1, <1>2, <2>2, Less
<1> QED
  BY <1>2, <1>3, <1>4, <1>5, <1>6, <1>8, <1>9

\* Page numbers are in the order of addresses, and a page ends before the next one.
LEMMA PageNumbers ==
  ASSUME Boot!Geometry
  PROVE  /\ \A a \in Int : Boot!PGNUM(a) \in Int
         /\ \A a, b \in Int : a =< b => Boot!PGNUM(a) =< Boot!PGNUM(b)
         /\ \A a \in Nat : a = PGSIZE * Boot!PGNUM(a) => Boot!PGNUM(a - 1) < Boot!PGNUM(a)
<1>1. PGSIZE \in Nat \ {0}
  BY DEF Boot!Geometry
<1>2. \A a \in Int : Boot!PGNUM(a) \in Int
  BY <1>1, Quotient DEF Boot!PGNUM
<1>3. \A a, b \in Int : a =< b => Boot!PGNUM(a) =< Boot!PGNUM(b)
  BY <1>1, QuotientGrows DEF Boot!PGNUM
<1>4. ASSUME NEW a \in Nat, a = PGSIZE * Boot!PGNUM(a) PROVE Boot!PGNUM(a - 1) < Boot!PGNUM(a)
  <2> DEFINE q == Boot!PGNUM(a)
             p == Boot!PGNUM(a - 1)
  <2>1. p \in Int /\ q \in Int
    BY <1>2
  <2>2. (a - 1) % PGSIZE >= 0 /\ a - 1 = PGSIZE * p + ((a - 1) % PGSIZE) /\ (a - 1) % PGSIZE \in Int
    BY <1>1, Quotient DEF Boot!PGNUM
  <2>3. a = PGSIZE * q
    BY <1>4
  <2> HIDE DEF p, q
  <2>4. PGSIZE * p < PGSIZE * (q - 1) + PGSIZE
    BY <1>1, <2>1, <2>2, <2>3
  <2>5. p =< q - 1
    BY <1>1, <2>1, <2>4, Less
  <2> QED
    BY <2>1, <2>5 DEF p, q
<1> QED
  BY <1>2, <1>3, <1>4

-----------------------------------------------------------------------------
(* What boot_alloc and page_init hand out                                  *)

\* Before page_init
Early == {"kern_pgdir", "pages", "envs", "page_init"}

First == Boot!PGNUM(Boot!EXTPHYSMEM)
Last == Boot!PGNUM(nextfree)

\* boot_alloc has given out whole pages, one chunk after the other.
ChunksInv ==
  /\ nextfree \in Nat /\ nextfree = PGSIZE * Last /\ nextfree >= Boot!EXTPHYSMEM
  /\ chunks \in Seq(Int \X Int)
  /\ \A i \in DOMAIN chunks : chunks[i][1] >= First /\ chunks[i][2] < Last
  /\ \A i, j \in DOMAIN chunks : i < j => chunks[i][2] < chunks[j][1]

\* What page_init passes over stays off the list, and what becomes a table leaves it.
ListInv ==
  /\ npages \in Nat
  /\ tables = [d \in DOMAIN tables |-> tables[d]] /\ \A d \in DOMAIN tables : tables[d] \in Nat
  /\ IsList(page_free_list)
  /\ pc \in Early =>
       /\ page_free_list = <<>>
       /\ \A d \in DOMAIN tables : Boot!InUse(tables[d])
  /\ \A i \in DOMAIN page_free_list :
       /\ page_free_list[i] < npages /\ ~Boot!InUse(page_free_list[i])
       /\ \A d \in DOMAIN tables : tables[d] # page_free_list[i]

PagesInv == ChunksInv /\ ListInv

\* The sizes are numbers.
LEMMA BootSizes ==
  ASSUME Boot!Geometry
  PROVE  /\ PGSIZE \in Nat \ {0} /\ Boot!EXTPHYSMEM \in Nat
         /\ PAGEINFO \in Nat /\ ENVSIZE \in Nat /\ First \in Int
<1>1. PGSIZE \in Nat \ {0} /\ KB \in Nat /\ EXTSTART \in Nat /\ PAGEINFO \in Nat /\ ENVSIZE \in Nat
  BY DEF Boot!Geometry
<1>2. Boot!EXTPHYSMEM \in Nat
  BY <1>1 DEF Boot!EXTPHYSMEM
<1> QED
  BY <1>1, <1>2, PageNumbers DEF First

\* The NVRAM counts some whole number of pages; the kernel ends on one.
LEMMA PagesInit ==
  ASSUME Boot!Geometry, Boot!Init
  PROVE  PagesInv
<1>1. PICK nv \in NVRAM : npages = Boot!TotalMem(nv) \div (PGSIZE \div KB)
  BY DEF Boot!Init
<1>2. npages \in Nat
  <2> DEFINE t == Boot!TotalMem(nv)
             d == PGSIZE \div KB
  <2>1. nv \in [1 .. 6 -> Nat] /\ EXTSTART \in Nat /\ EXT16START \in Nat
    BY DEF Boot!Geometry
  <2>2. nv[1] \in Nat /\ nv[2] \in Nat /\ nv[3] \in Nat /\ nv[4] \in Nat /\ nv[5] \in Nat /\ nv[6] \in Nat
    BY <2>1
  <2>3. t \in Nat
    BY <2>1, <2>2 DEF Boot!TotalMem, Boot!NvramRead
  <2>4. PGSIZE \in Nat \ {0} /\ KB \in Nat \ {0} /\ PGSIZE >= KB
    BY DEF Boot!Geometry
  <2>5. d \in Int /\ PGSIZE % KB \in 0 .. KB - 1 /\ PGSIZE = KB * d + (PGSIZE % KB)
    BY <2>4, Quotient
  <2>6. KB * 1 < KB * d + KB
    BY <2>4, <2>5
  <2>7. d >= 1
    BY <2>4, <2>5, <2>6, Less
  <2> HIDE DEF t, d
  <2>8. t \div d \in Int /\ t % d \in 0 .. d - 1 /\ t = d * (t \div d) + (t % d)
    BY <2>3, <2>5, <2>7, Quotient
  <2>9. d * 0 < d * (t \div d) + d
    BY <2>3, <2>5, <2>7, <2>8
  <2>10. t \div d >= 0
    BY <2>5, <2>7, <2>8, <2>9, Less
  <2> QED
    BY <1>1, <2>8, <2>10 DEF t, d
<1>3. PICK end \in Ends : nextfree = Boot!Roundup(end)
  BY DEF Boot!Init
<1>4. end \in Nat /\ end >= Boot!EXTPHYSMEM
  BY DEF Boot!Geometry
<1>5. nextfree \in Nat /\ nextfree >= end /\ nextfree = PGSIZE * Last
  BY <1>3, <1>4, WholePages DEF Last
<1>6. chunks = <<>> /\ page_free_list = <<>>
  BY DEF Boot!Init
<1>7. ChunksInv
  BY <1>4, <1>5, <1>6, BootSizes DEF ChunksInv
<1>8. /\ tables = [d \in DOMAIN tables |-> tables[d]]
      /\ \A d \in DOMAIN tables : tables[d] = 0
  BY DEF Boot!Init
<1>9. ListInv
  BY <1>2, <1>6, <1>8 DEF ListInv, IsList, Boot!InUse
<1> QED
  BY <1>7, <1>9 DEF PagesInv

\* boot_alloc: the next chunk.
LEMMA PagesAllocStep ==
  ASSUME Boot!Geometry, PagesInv, Boot!AllocStep
  PROVE  PagesInv'
<1> DEFINE n == Boot!AllocWanted
<1>1. /\ ChunksInv /\ ListInv
  BY DEF PagesInv
<1>2. /\ PGSIZE \in Nat \ {0} /\ Boot!EXTPHYSMEM \in Nat /\ First \in Int
      /\ npages' = npages /\ page_free_list' = page_free_list
      /\ pc \in Early /\ page_free_list = <<>> /\ npages \in Nat
  BY <1>1, BootSizes DEF ListInv, Early, Boot!AllocStep
<1>3. n \in Nat
  BY <1>2, BootSizes DEF Boot!AllocStep, Boot!AllocWanted
<1>4. nextfree \in Nat /\ Last \in Int /\ nextfree >= Boot!EXTPHYSMEM /\ First =< Last
  BY <1>1, <1>2, PageNumbers DEF ChunksInv, Last, First
<1> HIDE DEF n
<1>5. CASE pc' = "panic" /\ UNCHANGED <<nextfree, chunks, tables>>
  <2>1. UNCHANGED <<nextfree, chunks, tables, page_free_list, npages>> /\ pc' \notin Early
    BY <1>2, <1>5 DEF Early
  <2>2. ChunksInv'
    BY <1>1, <2>1 DEF ChunksInv, First, Last, Boot!PGNUM
  <2>3. ListInv'
    BY <1>1, <2>1 DEF ListInv, IsList, Boot!InUse, Boot!PGNUM
  <2> QED
    BY <2>2, <2>3 DEF PagesInv
<1>6. CASE Boot!BootAlloc(n) /\ tables' = IF pc = "kern_pgdir"
                       THEN [tables EXCEPT ![Boot!PDX(Boot!UVPT)] = Last] ELSE tables
  <2>1. /\ nextfree' = Boot!Roundup(nextfree + n)
        /\ chunks' = Append(chunks, <<Last, Boot!PGNUM(nextfree' - 1)>>)
    BY <1>6 DEF Boot!BootAlloc, Last
  <2>2. /\ nextfree' \in Nat /\ nextfree' >= nextfree + n /\ nextfree' = PGSIZE * Last'
    <3>1. nextfree + n \in Nat
      BY <1>3, <1>4
    <3>2. /\ nextfree' \in Nat /\ nextfree' >= nextfree + n
          /\ nextfree' = PGSIZE * Boot!PagesOf(nextfree + n)
          /\ Boot!PGNUM(nextfree') = Boot!PagesOf(nextfree + n)
      BY <2>1, <3>1, WholePages
    <3>3. Last' = Boot!PGNUM(nextfree')
      BY DEF Last, Boot!PGNUM
    <3> QED
      BY <3>2, <3>3
  <2>3. /\ Last' \in Int /\ Last =< Last' /\ Boot!PGNUM(nextfree' - 1) < Last'
        /\ Boot!PGNUM(nextfree' - 1) \in Int
    <3>1. Last' = Boot!PGNUM(nextfree')
      BY DEF Last, Boot!PGNUM
    <3> QED
      BY <1>3, <1>4, <2>2, <3>1, PageNumbers DEF Last
  <2>4. First' = First /\ Boot!EXTPHYSMEM' = Boot!EXTPHYSMEM
    BY DEF First, Boot!EXTPHYSMEM, Boot!PGNUM
  <2>5. ChunksInv'
    <3> DEFINE c == <<Last, Boot!PGNUM(nextfree' - 1)>>
    <3>1. c \in Int \X Int /\ c[1] = Last /\ c[2] < Last'
      BY <1>4, <2>3
    <3> HIDE DEF c
    <3>2. /\ chunks \in Seq(Int \X Int) /\ Len(chunks) \in Nat /\ DOMAIN chunks = 1 .. Len(chunks)
          /\ \A i \in 1 .. Len(chunks) : chunks[i] \in Int \X Int
      BY <1>1, LenProperties DEF ChunksInv
    <3>3. /\ chunks' \in Seq(Int \X Int) /\ DOMAIN chunks' = 1 .. Len(chunks) + 1
          /\ chunks'[Len(chunks) + 1] = c
          /\ \A i \in 1 .. Len(chunks) : chunks'[i] = chunks[i]
      BY <2>1, <3>1, <3>2 DEF c
    <3>4. ASSUME NEW i \in DOMAIN chunks' PROVE chunks'[i][1] >= First /\ chunks'[i][2] < Last'
      <4>1. CASE i \in 1 .. Len(chunks)
        <5>1. chunks[i][1] >= First /\ chunks[i][2] < Last /\ chunks'[i] = chunks[i] /\ chunks[i][2] \in Int
          BY <1>1, <3>2, <3>3, <4>1 DEF ChunksInv
        <5> QED
          BY <1>4, <2>3, <5>1
      <4>2. CASE i = Len(chunks) + 1
        BY <1>4, <3>1, <3>3, <4>2
      <4> QED
        BY <3>2, <3>3, <4>1, <4>2
    <3>5. ASSUME NEW i \in DOMAIN chunks', NEW j \in DOMAIN chunks', i < j
          PROVE  chunks'[i][2] < chunks'[j][1]
      <4>4. i \in 1 .. Len(chunks)
        BY <3>2, <3>3, <3>5
      <4>1. chunks'[i] = chunks[i] /\ chunks[i][2] < Last
        BY <1>1, <3>2, <3>3, <4>4 DEF ChunksInv
      <4>2. CASE j \in 1 .. Len(chunks)
        BY <1>1, <3>2, <3>3, <3>5, <4>1, <4>2, <4>4 DEF ChunksInv
      <4>3. CASE j = Len(chunks) + 1
        BY <3>1, <3>3, <4>1, <4>3
      <4> QED
        BY <3>2, <3>3, <4>2, <4>3
    <3> QED
      BY <1>3, <1>4, <2>2, <2>3, <2>4, <3>3, <3>4, <3>5, <1>2 DEF ChunksInv
  <2>6. \A p \in Nat : Boot!InUse(p) => Boot!InUse(p)'
    <3>1. \A p \in Nat : p < Last => p < Last'
      BY <1>4, <2>3
    <3> QED
      BY <3>1 DEF Boot!InUse, Last, Boot!PGNUM
  <2>7. Last \in Nat
    <3>1. PGSIZE * 0 < PGSIZE * Last + PGSIZE
      BY <1>1, <1>2, <1>4 DEF ChunksInv
    <3> QED
      BY <1>2, <1>4, <3>1, Less
  <2>8. ASSUME pc = "kern_pgdir", NEW p \in Nat, p = Last PROVE Boot!InUse(p)'
    <3>1. n = PGSIZE
      BY <2>8 DEF n, Boot!AllocWanted
    <3>2. /\ nextfree = PGSIZE * Last /\ nextfree' = PGSIZE * Last'
          /\ nextfree' >= nextfree + PGSIZE
      BY <1>1, <2>2, <3>1 DEF ChunksInv
    <3>4. Last # Last'
      BY <1>2, <1>4, <3>2
    <3>5. Last < Last'
      BY <1>4, <2>3, <3>4
    <3>6. p >= First /\ p < Boot!PGNUM(nextfree)'
      BY <1>2, <1>4, <2>8, <3>5 DEF Last
    <3> QED
      BY <3>6 DEF Boot!InUse, First, Boot!PGNUM, Boot!EXTPHYSMEM
  <2>9. ListInv'
    <3>1. /\ tables = [d \in DOMAIN tables |-> tables[d]] /\ \A d \in DOMAIN tables : tables[d] \in Nat
          /\ IsList(page_free_list)
          /\ \A d \in DOMAIN tables : Boot!InUse(tables[d])
      BY <1>1, <1>2 DEF ListInv
    <3>2. /\ DOMAIN tables' = DOMAIN tables /\ tables' = [d \in DOMAIN tables' |-> tables'[d]]
          /\ \A d \in DOMAIN tables : tables'[d] = tables[d] \/ (tables'[d] = Last /\ pc = "kern_pgdir")
      BY <1>6, <3>1
    <3>3. ASSUME NEW d \in DOMAIN tables' PROVE tables'[d] \in Nat /\ Boot!InUse(tables[d])'
      <4>1. d \in DOMAIN tables
        BY <3>2
      <4>2. CASE tables'[d] = tables[d]
        <5>1. tables[d] \in Nat /\ Boot!InUse(tables[d])
          BY <3>1, <4>1
        <5>2. ASSUME NEW p \in Nat, p = tables'[d], Boot!InUse(p) PROVE Boot!InUse(tables[d])'
          <6>1. Boot!InUse(p)'
            BY <2>6, <5>2
          <6> QED
            BY <6>1, <5>2 DEF Boot!InUse, Boot!PGNUM
        <5> QED
          BY <4>2, <5>1, <5>2
      <4>3. CASE tables'[d] = Last /\ pc = "kern_pgdir"
        <5>1. ASSUME NEW p \in Nat, p = Last PROVE Boot!InUse(tables[d])'
          <6>1. Boot!InUse(p)'
            BY <2>8, <4>3, <5>1
          <6> QED
            BY <6>1, <5>1, <4>3 DEF Boot!InUse, Boot!PGNUM
        <5> QED
          BY <2>7, <4>3, <5>1
      <4> QED
        BY <3>2, <4>1, <4>2, <4>3
    <3>4. npages' \in Nat /\ IsList(page_free_list)' /\ page_free_list' = <<>>
      BY <1>2, <3>1 DEF IsList
    <3> QED
      BY <3>2, <3>3, <3>4 DEF ListInv
  <2> QED
    BY <2>5, <2>9 DEF PagesInv
<1> QED
  BY <1>5, <1>6 DEF Boot!AllocStep, Last, n


\* page_init: what is not in use, each page once.
LEMMA PagesPageInit ==
  ASSUME Boot!Geometry, PagesInv, Boot!PageInit
  PROVE  PagesInv'
<1> DEFINE free == {i \in 0 .. npages - 1 : ~Boot!InUse(i)}
           list == Boot!Descending(free)
<1>1. ChunksInv /\ ListInv /\ npages \in Nat /\ pc \in Early
  BY DEF PagesInv, ListInv, Boot!PageInit, Early
<1>2. /\ UNCHANGED <<npages, nextfree, chunks, tables>> /\ pc' \notin Early
      /\ page_free_list' = page_free_list \/ page_free_list' = list
  BY DEF Boot!PageInit, Early
<1>3. ChunksInv'
  BY <1>1, <1>2 DEF ChunksInv, Last, First, Boot!PGNUM
<1>4. free \subseteq Int /\ free \subseteq Nat /\ IsFiniteSet(free)
      /\ \A p \in free : p < npages /\ ~Boot!InUse(p)
  <2>1. IsFiniteSet(0 .. npages - 1)
    BY <1>1, FS_Interval
  <2>2. free \subseteq 0 .. npages - 1
    OBVIOUS
  <2>3. IsFiniteSet(free)
    <3> HIDE DEF free
    <3> QED
      BY <2>1, <2>2, FS_Subset
  <2> QED
    BY <1>1, <2>2, <2>3
<1>5. \A d \in DOMAIN tables : Boot!InUse(tables[d])
  BY <1>1 DEF ListInv
<1> HIDE DEF free
<1>6. /\ list \in Seq(free) /\ \A i, j \in DOMAIN list : list[i] = list[j] => i = j
  BY <1>4, DescendingLists
<1>7. ListInv'
  <2>1. CASE page_free_list' = page_free_list
    BY <1>1, <1>2, <2>1 DEF ListInv, IsList, Boot!InUse, Boot!PGNUM
  <2>2. CASE page_free_list' = list
    <3> HIDE DEF list
    <3>1. page_free_list' \in Seq(Nat)
      BY <1>4, <1>6, <2>2, SeqMonotonic
    <3>2. \A i \in DOMAIN list : list[i] \in free
      BY <1>6, LenProperties
    <3>3. IsList(page_free_list)'
      BY <1>6, <2>2, <3>1 DEF IsList
    <3>4. \A p : Boot!InUse(p)' <=> Boot!InUse(p)
      BY <1>2 DEF Boot!InUse, Boot!PGNUM
    <3>5. ASSUME NEW i \in DOMAIN page_free_list'
          PROVE  /\ (page_free_list[i] < npages)' /\ ~Boot!InUse(page_free_list[i])'
                 /\ \A d \in DOMAIN tables' : (tables[d] # page_free_list[i])'
      <4>1. list[i] \in free /\ page_free_list'[i] = list[i]
        BY <2>2, <3>2
      <4>2. ~Boot!InUse(page_free_list[i])'
        <5>1. ~Boot!InUse(list[i])
          BY <1>4, <4>1
        <5> QED
          BY <1>2, <4>1, <5>1 DEF Boot!InUse, Boot!PGNUM
      <4>3. \A d \in DOMAIN tables : tables[d] # list[i]
        BY <1>4, <1>5, <4>1
      <4> QED
        BY <1>2, <1>4, <4>1, <4>2, <4>3
    <3> QED
      BY <1>1, <1>2, <3>3, <3>5 DEF ListInv
  <2> QED
    BY <1>2, <2>1, <2>2
<1> QED
  BY <1>3, <1>7 DEF PagesInv

\* A step that takes pages from the list keeps it sound when tables change to pages
\* that were on the list and are not any more.
LEMMA PagesTaken ==
  ASSUME PagesInv, UNCHANGED <<npages, nextfree, chunks>>,
         pc \notin Early, pc' \notin Early, IsList(page_free_list)',
         \A i \in DOMAIN page_free_list' :
           \E j \in DOMAIN page_free_list : page_free_list'[i] = page_free_list[j],
         DOMAIN tables' = DOMAIN tables, tables' = [d \in DOMAIN tables' |-> tables'[d]],
         \A d \in DOMAIN tables :
           \/ tables'[d] = tables[d]
           \/ /\ \E j \in DOMAIN page_free_list : tables'[d] = page_free_list[j]
              /\ \A i \in DOMAIN page_free_list' : tables'[d] # page_free_list'[i]
  PROVE  PagesInv'
<1>1. ChunksInv /\ ListInv
  BY DEF PagesInv
<1>2. ChunksInv'
  BY <1>1 DEF ChunksInv, Last, First, Boot!PGNUM
<1>3. \A d \in DOMAIN tables' : tables'[d] \in Nat
  <2>1. \A j \in DOMAIN page_free_list : page_free_list[j] \in Nat
    BY <1>1, LenProperties DEF ListInv, IsList
  <2> QED
    BY <1>1, <2>1 DEF ListInv
<1>4. ASSUME NEW i \in DOMAIN page_free_list'
      PROVE  /\ (page_free_list[i] < npages)' /\ ~Boot!InUse(page_free_list[i])'
             /\ \A d \in DOMAIN tables' : (tables[d] # page_free_list[i])'
  <2>1. PICK j \in DOMAIN page_free_list : page_free_list'[i] = page_free_list[j]
    OBVIOUS
  <2>2. page_free_list[j] < npages /\ ~Boot!InUse(page_free_list[j])
        /\ \A d \in DOMAIN tables : tables[d] # page_free_list[j]
    BY <1>1 DEF ListInv
  <2>3. ~Boot!InUse(page_free_list[i])'
    BY <2>1, <2>2 DEF Boot!InUse, Boot!PGNUM
  <2> QED
    BY <2>1, <2>2, <2>3
<1>5. ListInv'
  BY <1>1, <1>3, <1>4 DEF ListInv
<1> QED
  BY <1>2, <1>5 DEF PagesInv

\* check_page: the table of MMIOBASE takes the first page of the reordered list.
LEMMA PagesCheckPages ==
  ASSUME Boot!Geometry, PagesInv, Boot!CheckPages
  PROVE  PagesInv'
<1> DEFINE list == Boot!LowFirst(page_free_list)
<1>1. /\ ChunksInv /\ ListInv /\ IsList(page_free_list)
      /\ tables = [d \in DOMAIN tables |-> tables[d]]
  BY DEF PagesInv, ListInv
<1>2. UNCHANGED <<npages, nextfree, chunks>> /\ pc \notin Early /\ pc' \notin Early
  BY DEF Boot!CheckPages, Early
<1>3. CASE UNCHANGED <<tables, page_free_list>>
  BY <1>1, <1>2, <1>3, PagesTaken DEF IsList
<1>4. CASE /\ \E p \in Boot!Range(page_free_list) : TRUE
           /\ tables' = [tables EXCEPT ![Boot!PDX(Boot!MMIOBASE)] = Head(list)]
           /\ page_free_list' = Tail(list)
  <2>1. /\ IsList(list)
        /\ \A i \in DOMAIN list : \E j \in DOMAIN page_free_list : list[i] = page_free_list[j]
        /\ \A j \in DOMAIN page_free_list : \E i \in DOMAIN list : list[i] = page_free_list[j]
    BY <1>1, LowFirstLists
  <2>2. PICK j \in DOMAIN page_free_list : TRUE
    BY <1>4 DEF Boot!Range
  <2> HIDE DEF list
  <2>3. list # <<>> /\ list \in Seq(Nat) /\ Len(list) \in Nat /\ DOMAIN list = 1 .. Len(list)
    <3>1. list \in Seq(Nat)
      BY <2>1 DEF IsList
    <3> QED
      BY <2>1, <2>2, <3>1, LenProperties
  <2>4. /\ Tail(list) \in Seq(Nat) /\ Len(Tail(list)) = Len(list) - 1 /\ Head(list) = list[1]
        /\ DOMAIN Tail(list) = 1 .. Len(list) - 1
        /\ \A i \in 1 .. Len(list) - 1 : Tail(list)[i] = list[i + 1]
    BY <2>3, HeadTailProperties, LenProperties
  <2>5. Len(list) >= 1
    BY <2>3, EmptySeq
  <2>6. \A i \in 1 .. Len(list) - 1 : i + 1 \in DOMAIN list /\ i + 1 # 1
    BY <2>3
  <2>7. IsList(Tail(list))
    <3>1. ASSUME NEW i \in DOMAIN Tail(list), NEW k \in DOMAIN Tail(list), Tail(list)[i] = Tail(list)[k]
          PROVE  i = k
      <4>1. i + 1 = k + 1
        BY <2>1, <2>4, <2>6, <3>1 DEF IsList
      <4> QED
        BY <2>3, <2>4, <4>1
    <3> QED
      BY <2>4, <3>1 DEF IsList
  <2>8. \A i \in DOMAIN Tail(list) : Head(list) # Tail(list)[i]
    <3>1. 1 \in DOMAIN list
      BY <2>3, <2>5
    <3>2. ASSUME NEW i \in DOMAIN Tail(list) PROVE list[1] # list[i + 1]
      BY <2>1, <2>4, <2>6, <3>1 DEF IsList
    <3> QED
      BY <2>4, <3>2
  <2>9. ASSUME NEW i \in DOMAIN page_free_list'
        PROVE  \E k \in DOMAIN page_free_list : page_free_list'[i] = page_free_list[k]
    <3>1. i \in 1 .. Len(list) - 1 /\ page_free_list'[i] = list[i + 1]
      BY <1>4, <2>4
    <3> QED
      BY <2>1, <2>6, <3>1
  <2>10. \E k \in DOMAIN page_free_list : Head(list) = page_free_list[k]
    BY <2>1, <2>3, <2>4, <2>5
  <2>11. IsList(page_free_list)'
    BY <1>4, <2>7 DEF IsList
  <2>12. /\ DOMAIN tables' = DOMAIN tables /\ tables' = [d \in DOMAIN tables' |-> tables'[d]]
         /\ \A d \in DOMAIN tables : tables'[d] = tables[d] \/ tables'[d] = Head(list)
    BY <1>1, <1>4
  <2>13. \A d \in DOMAIN tables :
           \/ tables'[d] = tables[d]
           \/ /\ \E k \in DOMAIN page_free_list : tables'[d] = page_free_list[k]
              /\ \A i \in DOMAIN page_free_list' : tables'[d] # page_free_list'[i]
    BY <1>4, <2>8, <2>10, <2>12
  <2> QED
    BY <1>2, <2>9, <2>11, <2>12, <2>13, PagesTaken
<1> QED
  BY <1>3, <1>4 DEF Boot!CheckPages


\* BootMemory counts as this module does.
LEMMA BootCounts == \A S : Boot!Cardinality(S) = Cardinality(S)
  BY DEF Boot!Cardinality, Cardinality

\* boot_map_region: the tables it adds take the first pages of the list.
LEMMA PagesMapRegion ==
  ASSUME Boot!Geometry, PagesInv, NEW STATE va, NEW STATE n, va \in Int, n \in Int,
         UNCHANGED <<npages, nextfree, chunks>>, pc \notin Early, pc' \notin Early,
         \/ UNCHANGED <<tables, page_free_list>>
         \/ \E map : Boot!Mappable(n, va) /\ Boot!BootMapRegion(map, va, n)
  PROVE  PagesInv'
<1> DEFINE new == Boot!NewTables(n, va)
           k == Cardinality(new)
           rank(d) == Cardinality({e \in new : e =< d})
           list == page_free_list
<1>1. /\ ListInv /\ IsList(list) /\ tables = [d \in DOMAIN tables |-> tables[d]]
  BY DEF PagesInv, ListInv
<1>2. CASE UNCHANGED <<tables, page_free_list>>
  BY <1>1, <1>2, PagesTaken DEF IsList
<1>3. CASE /\ k =< Len(list)
           /\ tables' = [d \in DOMAIN tables |->
                           IF d \in new THEN list[rank(d)] ELSE tables[d]]
           /\ page_free_list' = SubSeq(list, k + 1, Len(list))
  <2>1. IsFiniteSet(new) /\ new \subseteq Int
    <3>1. NPTENTRIES \in Nat \ {0}
      BY DEF Boot!Geometry
    <3>2. Boot!PDX(va) \in Int /\ Boot!PDX(va + n - 1) \in Int
      BY <3>1, Quotient DEF Boot!PDX
    <3>3. IsFiniteSet(Boot!PDX(va) .. Boot!PDX(va + n - 1))
      BY <3>2, FS_Interval
    <3>4. new \subseteq Boot!PDX(va) .. Boot!PDX(va + n - 1)
      BY DEF Boot!NewTables
    <3> HIDE DEF new
    <3>5. IsFiniteSet(new)
      BY <3>3, <3>4, FS_Subset
    <3> QED
      BY <3>2, <3>4, <3>5
  <2> HIDE DEF new
  <2>2. k \in Nat
    BY <2>1, FS_CardinalityType
  <2>3. ASSUME NEW d \in new PROVE rank(d) \in 1 .. k
    <3> DEFINE T == {e \in new : e =< d}
    <3>1. T \subseteq new /\ d \in T
      BY <2>1
    <3>2. IsFiniteSet(T) /\ Cardinality(T) =< k
      BY <2>1, <3>1, FS_Subset
    <3>3. Cardinality(T) \in Nat /\ Cardinality(T) # 0
      BY <3>1, <3>2, FS_CardinalityType, FS_EmptySet
    <3> QED
      BY <2>2, <3>2, <3>3
  <2> HIDE DEF rank, k
  <2>4. /\ list \in Seq(Nat) /\ Len(list) \in Nat /\ DOMAIN list = 1 .. Len(list)
        /\ \A i \in 1 .. Len(list) : list[i] \in Nat
        /\ \A i, j \in 1 .. Len(list) : list[i] = list[j] => i = j
    BY <1>1, LenProperties DEF IsList
  <2>5. \A i \in k + 1 .. Len(list) : list[i] \in Nat
    BY <2>2, <2>4
  <2> DEFINE rest == SubSeq(list, k + 1, Len(list))
  <2>6. /\ rest \in Seq(Nat)
        /\ Len(rest) = IF k + 1 =< Len(list) THEN Len(list) - (k + 1) + 1 ELSE 0
        /\ \A i \in 1 .. Len(list) - (k + 1) + 1 : rest[i] = list[(k + 1) + i - 1]
    BY <2>2, <2>4, <2>5, SubSeqProperties
  <2>7. DOMAIN rest = 1 .. Len(list) - k
    <3>1. DOMAIN rest = 1 .. Len(rest)
      BY <2>6, LenProperties
    <3> HIDE DEF rest
    <3>2. Len(rest) = Len(list) - k
      BY <1>3, <2>2, <2>4, <2>6
    <3> QED
      BY <3>1, <3>2
  <2> HIDE DEF rest
  <2>8. ASSUME NEW i \in DOMAIN rest
        PROVE  i \in Int /\ i >= 1 /\ k + i \in 1 .. Len(list) /\ rest[i] = list[k + i]
    <3>1. i \in 1 .. Len(list) - (k + 1) + 1 /\ (k + 1) + i - 1 = k + i /\ k + i \in 1 .. Len(list)
      BY <2>2, <2>4, <2>7
    <3> QED
      BY <2>6, <3>1
  <2>9. IsList(rest)
    <3>1. ASSUME NEW i \in DOMAIN rest, NEW j \in DOMAIN rest, rest[i] = rest[j] PROVE i = j
      <4>1. k + i = k + j
        BY <2>4, <2>8, <3>1
      <4> QED
        BY <2>2, <2>8, <4>1
    <3> QED
      BY <2>6, <3>1 DEF IsList
  <2>10. ASSUME NEW d \in new PROVE rank(d) \in 1 .. Len(list) /\ \A i \in DOMAIN rest : list[rank(d)] # rest[i]
    <3>1. rank(d) \in 1 .. k /\ rank(d) \in 1 .. Len(list)
      BY <1>3, <2>2, <2>3, <2>4
    <3>2. ASSUME NEW i \in DOMAIN rest PROVE list[rank(d)] # rest[i]
      <4>1. rank(d) # k + i
        BY <2>2, <2>8, <3>1
      <4> QED
        BY <2>4, <2>8, <3>1, <4>1
    <3> QED
      BY <3>1, <3>2
  <2>11. page_free_list' = rest /\ IsList(page_free_list)'
    BY <1>3, <2>9 DEF rest, IsList
  <2>12. /\ DOMAIN tables' = DOMAIN tables /\ tables' = [d \in DOMAIN tables' |-> tables'[d]]
         /\ \A d \in DOMAIN tables : tables'[d] = IF d \in new THEN list[rank(d)] ELSE tables[d]
    BY <1>3
  <2>13. \A d \in DOMAIN tables :
           \/ tables'[d] = tables[d]
           \/ /\ \E j \in DOMAIN page_free_list : tables'[d] = page_free_list[j]
              /\ \A i \in DOMAIN page_free_list' : tables'[d] # page_free_list'[i]
    BY <2>4, <2>10, <2>11, <2>12
  <2>14. \A i \in DOMAIN page_free_list' :
           \E j \in DOMAIN page_free_list : page_free_list'[i] = page_free_list[j]
    BY <2>4, <2>8, <2>11
  <2> QED
    BY <2>11, <2>12, <2>13, <2>14, PagesTaken
<1> QED
  BY <1>2, <1>3, BootCounts DEF Boot!Mappable, Boot!BootMapRegion


\* The addresses of inc/memlayout.h
LEMMA Layout ==
  ASSUME Boot!Geometry
  PROVE  /\ KERNBASE \in Nat /\ KERNSPAN \in Nat /\ NPTENTRIES \in Nat \ {0}
         /\ NCPU \in Nat \ {0} /\ KSTKSIZE \in Nat \ {0} /\ KSTKGAP \in Nat
         /\ Boot!KSTACKTOP = KERNBASE /\ Boot!Top = KERNBASE + KERNSPAN
         /\ Boot!MMIOLIM = KERNBASE - NPTENTRIES /\ Boot!MMIOBASE = KERNBASE - 2 * NPTENTRIES
         /\ Boot!UVPT = KERNBASE - 3 * NPTENTRIES /\ Boot!UPAGES = KERNBASE - 4 * NPTENTRIES
         /\ Boot!UENVS = KERNBASE - 5 * NPTENTRIES /\ Boot!UTOP = KERNBASE - 5 * NPTENTRIES
<1>1. /\ KERNBASE \in Nat /\ KERNSPAN \in Nat /\ NPTENTRIES \in Nat \ {0}
      /\ NCPU \in Nat \ {0} /\ KSTKSIZE \in Nat \ {0} /\ KSTKGAP \in Nat
  BY DEF Boot!Geometry
<1> QED
  BY <1>1 DEF Boot!KSTACKTOP, Boot!Top, Boot!MMIOLIM, Boot!MMIOBASE, Boot!UVPT, Boot!UPAGES,
     Boot!UENVS, Boot!UTOP

\* Every step of mem_init keeps the pages apart.
LEMMA PagesNext ==
  ASSUME Boot!Geometry, PagesInv, [Boot!Next]_(Boot!vars)
  PROVE  PagesInv'
<1>1. CASE Boot!AllocStep
  BY <1>1, PagesAllocStep
<1>2. CASE Boot!PageInit
  BY <1>2, PagesPageInit
<1>3. CASE Boot!CheckPages
  BY <1>3, PagesCheckPages
<1>4. ASSUME NEW STATE va, NEW STATE n, va \in Int, n \in Int, NEW STATE map,
             NEW from, NEW to, from \notin Early, to \notin Early,
             Boot!MapStep(from, to, va, n, map)
      PROVE  PagesInv'
  <2>1. /\ UNCHANGED <<npages, nextfree, chunks>> /\ pc \notin Early /\ pc' \notin Early
        /\ \/ UNCHANGED <<tables, page_free_list>>
           \/ Boot!Mappable(n, va) /\ Boot!BootMapRegion(map, va, n)
    BY <1>4 DEF Boot!MapStep, Early
  <2> QED
    BY <1>4, <2>1, PagesMapRegion
<1>5. npages \in Nat
  BY DEF PagesInv, ListInv
<1>6. CASE Boot!MapPages
  <2>1. npages * PAGEINFO \in Nat
    BY <1>5, BootSizes
  <2>2. Boot!PagesOf(npages * PAGEINFO) \in Int /\ Boot!UPAGES \in Int
    BY <2>1, WholePages, Layout
  <2>3. Boot!MapStep("UPAGES", "UENVS", Boot!UPAGES, Boot!PagesOf(npages * PAGEINFO),
          Boot!Region(kern_map, Boot!UPAGES, Boot!PagesOf(npages * PAGEINFO), chunks[2][1], "user"))
    BY <1>6 DEF Boot!MapPages
  <2>4. "UPAGES" \notin Early /\ "UENVS" \notin Early
    BY DEF Early
  <2> QED
    BY <1>4, <2>2, <2>3, <2>4
<1>7. CASE Boot!MapEnvs
  <2>1. Boot!PagesOf(ENVSIZE) \in Int /\ Boot!UENVS \in Int
    BY BootSizes, WholePages, Layout
  <2>2. Boot!MapStep("UENVS", "KERNBASE", Boot!UENVS, Boot!PagesOf(ENVSIZE),
          Boot!Region(kern_map, Boot!UENVS, Boot!PagesOf(ENVSIZE), chunks[3][1], "user"))
    BY <1>7 DEF Boot!MapEnvs
  <2>3. "UENVS" \notin Early /\ "KERNBASE" \notin Early
    BY DEF Early
  <2> QED
    BY <1>4, <2>1, <2>2, <2>3
<1>8. CASE Boot!MapMemory
  BY <1>4, <1>8, Layout DEF Boot!MapMemory, Early
<1>9. CASE Boot!MemInitMp
  <2> DEFINE n == NCPU * (KSTKSIZE + KSTKGAP) - KSTKGAP
  <2>1. n \in Int /\ Boot!KSTACKTOP - n \in Int
    BY Layout
  <2> HIDE DEF n
  <2>2. Boot!MapStep("stacks", "running", Boot!KSTACKTOP - n, n, Boot!WithStacks(kern_map))
    BY <1>9 DEF Boot!MemInitMp, n
  <2>3. "stacks" \notin Early /\ "running" \notin Early
    BY DEF Early
  <2> QED
    BY <1>4, <2>1, <2>2, <2>3
<1>10. CASE Boot!MmioMapRegion
  <2>1. UNCHANGED <<npages, nextfree, chunks, tables, page_free_list>> /\ pc \notin Early /\ pc' \notin Early
    BY <1>10 DEF Boot!MmioMapRegion, Early
  <2> QED
    BY <2>1, PagesMapRegion
<1>11. CASE UNCHANGED Boot!vars
  BY <1>11 DEF Boot!vars, PagesInv, ChunksInv, ListInv, IsList, Last, First, Boot!InUse, Boot!PGNUM
<1> QED
  BY <1>1, <1>2, <1>3, <1>6, <1>7, <1>8, <1>9, <1>10, <1>11 DEF Boot!Next

\* From the invariant: no page of the list has a use, and no page was given out twice.
LEMMA PagesAreApart ==
  ASSUME Boot!Geometry, PagesInv
  PROVE  Boot!FreeListSound /\ Boot!ChunksDisjoint
<1>1. ChunksInv /\ ListInv /\ PGSIZE \in Nat \ {0} /\ First \in Int /\ Last \in Int
  BY BootSizes, PageNumbers DEF PagesInv, ChunksInv, Last
<1>2. Boot!ChunksDisjoint
  <2>1. nextfree % PGSIZE = 0
    <3>1. /\ nextfree % PGSIZE \in Int /\ nextfree = PGSIZE * Last + (nextfree % PGSIZE)
      BY <1>1, Quotient DEF ChunksInv, Last, Boot!PGNUM
    <3>2. nextfree = PGSIZE * Last /\ PGSIZE * Last \in Int
      BY <1>1 DEF ChunksInv
    <3> QED
      BY <3>1, <3>2
  <2> QED
    BY <1>1, <2>1 DEF Boot!ChunksDisjoint, ChunksInv
<1>3. Boot!Range(page_free_list) = {page_free_list[i] : i \in DOMAIN page_free_list}
  BY DEF Boot!Range
<1>4. Boot!Range(chunks) = {chunks[i] : i \in DOMAIN chunks}
  BY DEF Boot!Range
<1>5. ASSUME NEW p \in Boot!Range(page_free_list)
      PROVE  /\ p < npages /\ p \notin Boot!Reserved
             /\ ~(p \in Boot!PGNUM(Boot!EXTPHYSMEM) .. Boot!PGNUM(nextfree) - 1)
             /\ \A d \in DOMAIN tables : tables[d] # p
  <2>1. /\ p \in Nat /\ p < npages /\ ~Boot!InUse(p) /\ \A d \in DOMAIN tables : tables[d] # p
    BY <1>1, <1>3, LenProperties DEF ListInv, IsList
  <2>2. ~(p >= First /\ p < Last) /\ p # 0 /\ p # Boot!PGNUM(MPENTRY_PADDR)
        /\ ~(p >= Boot!PGNUM(IOPHYSMEM) /\ p < First)
    BY <2>1 DEF Boot!InUse, First, Last
  <2>3. ASSUME NEW c \in Boot!Range(chunks), p \in c[1] .. c[2] PROVE FALSE
    <3>1. c[1] >= First /\ c[2] < Last /\ c[1] \in Int /\ c[2] \in Int
      BY <1>1, <1>4, LenProperties DEF ChunksInv
    <3> QED
      BY <1>1, <2>1, <2>2, <2>3, <3>1
  <2>4. p \notin Boot!Reserved
    <3>1. ~(p \in Boot!PGNUM(IOPHYSMEM) .. Boot!PGNUM(Boot!EXTPHYSMEM) - 1)
      BY <1>1, <2>1, <2>2 DEF First
    <3> QED
      BY <2>2, <2>3, <3>1 DEF Boot!Reserved
  <2> QED
    BY <1>1, <2>1, <2>2, <2>4 DEF First, Last
<1> QED
  BY <1>1, <1>2, <1>5 DEF Boot!FreeListSound, ListInv, IsList

\* mem_init gives each page to one purpose, on any machine and for any kernel.
THEOREM BootPagesAreApart ==
  ASSUME Boot!Geometry
  PROVE  Boot!Spec => [](Boot!FreeListSound /\ Boot!ChunksDisjoint)
<1>1. Boot!Init => PagesInv
  BY PagesInit
<1>2. PagesInv /\ [Boot!Next]_(Boot!vars) => PagesInv'
  BY PagesNext
<1>3. PagesInv => Boot!FreeListSound /\ Boot!ChunksDisjoint
  BY PagesAreApart
<1> QED
  BY <1>1, <1>2, <1>3, PTL DEF Boot!Spec
-----------------------------------------------------------------------------
(* The kernel's half of the address space                                  *)

\* Regions for devices are handed out upwards.
DevicesInv ==
  /\ base \in Int /\ base >= Boot!MMIOBASE
  /\ regions \in Seq(Int \X Int)
  /\ \A i \in DOMAIN regions :
       regions[i][1] >= Boot!MMIOBASE /\ regions[i][2] < base /\ regions[i][2] < Boot!MMIOLIM
  /\ \A i, j \in DOMAIN regions : i < j => regions[i][2] < regions[j][1]

\* At first no device has a region.
LEMMA DevicesInit ==
  ASSUME Boot!Geometry, Boot!Init
  PROVE  DevicesInv
<1>1. base = Boot!MMIOBASE /\ regions = <<>>
  BY DEF Boot!Init
<1>2. Boot!MMIOBASE \in Int
  BY Layout
<1> QED
  BY <1>1, <1>2 DEF DevicesInv

\* mmio_map_region starts where the last region ended.
LEMMA DevicesNext ==
  ASSUME Boot!Geometry, DevicesInv, [Boot!Next]_(Boot!vars)
  PROVE  DevicesInv'
<1>1. Boot!MMIOBASE' = Boot!MMIOBASE /\ Boot!MMIOLIM' = Boot!MMIOLIM
      /\ Boot!MMIOBASE \in Int /\ Boot!MMIOLIM \in Int
  <2>1. Boot!MMIOBASE \in Int /\ Boot!MMIOLIM \in Int
    BY Layout
  <2> QED
    BY <2>1 DEF Boot!MMIOBASE, Boot!MMIOLIM, Boot!KSTACKTOP
<1>2. CASE UNCHANGED regions /\ base' \in {base, base + 3}
  <2>1. /\ base' \in Int /\ base' >= base
    BY <1>2 DEF DevicesInv
  <2>2. \A i \in DOMAIN regions : regions[i][2] \in Int
    BY LenProperties DEF DevicesInv
  <2> QED
    BY <1>1, <1>2, <2>1, <2>2 DEF DevicesInv
<1>3. CASE Boot!MmioMapRegion /\ ~UNCHANGED regions
  <2>1. PICK size \in MmioSizes : /\ Boot!MmioFits(size)
                                  /\ base' = Boot!MmioEnd(size)
                                  /\ regions' = Append(regions, <<base, base + Boot!PagesOf(size) - 1>>)
    BY <1>3 DEF Boot!MmioMapRegion
  <2> DEFINE n == Boot!PagesOf(size)
             r == <<base, base + n - 1>>
  <2>2. n \in Nat
    BY WholePages DEF Boot!Geometry
  <2>3. /\ base \in Int /\ base' = base + n /\ base + n < Boot!MMIOLIM
        /\ base >= Boot!MMIOBASE
    BY <2>1 DEF Boot!MmioFits, Boot!MmioEnd, DevicesInv
  <2> HIDE DEF n
  <2>4. r \in Int \X Int /\ r[1] = base /\ r[2] = base' - 1
    BY <2>2, <2>3
  <2>5. regions' = Append(regions, r)
    BY <2>1 DEF n
  <2> HIDE DEF r
  <2>6. /\ Len(regions) \in Nat /\ DOMAIN regions = 1 .. Len(regions)
        /\ regions \in Seq(Int \X Int)
        /\ \A i \in 1 .. Len(regions) : regions[i] \in Int \X Int
    BY LenProperties DEF DevicesInv
  <2>7. /\ regions' \in Seq(Int \X Int) /\ DOMAIN regions' = 1 .. Len(regions) + 1
        /\ regions'[Len(regions) + 1] = r
        /\ \A i \in 1 .. Len(regions) : regions'[i] = regions[i]
    BY <2>4, <2>5, <2>6
  <2>8. \A i \in 1 .. Len(regions) :
          /\ regions'[i][1] >= Boot!MMIOBASE /\ regions'[i][2] < base
          /\ regions'[i][2] < Boot!MMIOLIM /\ regions'[i][2] \in Int
    BY <2>6, <2>7 DEF DevicesInv
  <2>9. ASSUME NEW i \in DOMAIN regions'
        PROVE  regions'[i][1] >= Boot!MMIOBASE /\ regions'[i][2] < base' /\ regions'[i][2] < Boot!MMIOLIM
    <3>1. CASE i \in 1 .. Len(regions)
      BY <2>2, <2>3, <2>8, <3>1
    <3>2. CASE i = Len(regions) + 1
      BY <1>1, <2>2, <2>3, <2>4, <2>7, <3>2
    <3> QED
      BY <2>6, <2>7, <3>1, <3>2
  <2>10. ASSUME NEW i \in DOMAIN regions', NEW j \in DOMAIN regions', i < j
         PROVE  regions'[i][2] < regions'[j][1]
    <3>1. i \in 1 .. Len(regions)
      BY <2>6, <2>7, <2>10
    <3>2. CASE j \in 1 .. Len(regions)
      BY <2>6, <2>7, <2>10, <3>1, <3>2 DEF DevicesInv
    <3>3. CASE j = Len(regions) + 1
      BY <2>4, <2>7, <2>8, <3>1, <3>3
    <3> QED
      BY <2>6, <2>7, <3>2, <3>3
  <2> QED
    BY <1>1, <2>2, <2>3, <2>7, <2>9, <2>10 DEF DevicesInv
<1>4. CASE Boot!MmioMapRegion /\ UNCHANGED regions
  <2>1. CASE UNCHANGED base
    BY <1>2, <1>4, <2>1
  <2>2. CASE ~UNCHANGED base
    <3>1. \E x : regions' = Append(regions, x)
      BY <1>4, <2>2 DEF Boot!MmioMapRegion
    <3>2. Len(regions') = Len(regions) + 1 /\ Len(regions) \in Nat
      BY <3>1, LenProperties DEF DevicesInv
    <3> QED
      BY <1>4, <3>2
  <2> QED
    BY <2>1, <2>2
<1>5. CASE Boot!Next /\ ~Boot!MmioMapRegion
  <2>1. UNCHANGED regions /\ base' \in {base, base + 3}
    BY <1>5 DEF Boot!Next, Boot!AllocStep, Boot!PageInit, Boot!CheckPages, Boot!MapPages,
       Boot!MapEnvs, Boot!MapMemory, Boot!MemInitMp, Boot!MapStep
  <2> QED
    BY <1>2, <2>1
<1>6. CASE UNCHANGED Boot!vars
  BY <1>2, <1>6 DEF Boot!vars
<1> QED
  BY <1>3, <1>4, <1>5, <1>6

\* How many chunks boot_alloc has given out
CountInv ==
  \/ pc \in {"panic", "fault"}
  \/ Len(chunks) = IF pc = "kern_pgdir" THEN 0 ELSE IF pc = "pages" THEN 1
                   ELSE IF pc = "envs" THEN 2 ELSE 3

\* At first boot_alloc has given out nothing.
LEMMA CountInit == Boot!Init => CountInv
  BY DEF CountInv, Boot!Init

\* Each of the three calls of boot_alloc is one chunk.
LEMMA CountNext ==
  ASSUME ChunksInv, CountInv, [Boot!Next]_(Boot!vars)
  PROVE  CountInv'
<1>1. Len(chunks) \in Nat
  BY LenProperties DEF ChunksInv
<1>2. CASE Boot!AllocStep
  <2>1. CASE pc' = "panic"
    BY <2>1 DEF CountInv
  <2>2. CASE pc' # "panic"
    <3>1. \E x : chunks' = Append(chunks, x)
      BY <1>2, <2>2 DEF Boot!AllocStep, Boot!BootAlloc
    <3>2. Len(chunks') = Len(chunks) + 1
      BY <3>1 DEF ChunksInv
    <3>3. \/ pc = "kern_pgdir" /\ pc' = "pages"
          \/ pc = "pages" /\ pc' = "envs"
          \/ pc = "envs" /\ pc' = "page_init"
      BY <1>2, <2>2 DEF Boot!AllocStep
    <3>4. CASE pc = "kern_pgdir"
      <4>1. Len(chunks) = 0 /\ pc' = "pages"
        BY <3>3, <3>4 DEF CountInv
      <4> QED
        BY <3>2, <4>1 DEF CountInv
    <3>5. CASE pc = "pages"
      <4>1. Len(chunks) = 1 /\ pc' = "envs"
        BY <3>3, <3>5 DEF CountInv
      <4> QED
        BY <3>2, <4>1 DEF CountInv
    <3>6. CASE pc = "envs"
      <4>1. Len(chunks) = 2 /\ pc' = "page_init"
        BY <3>3, <3>6 DEF CountInv
      <4> QED
        BY <3>2, <4>1 DEF CountInv
    <3> QED
      BY <3>3, <3>4, <3>5, <3>6
  <2> QED
    BY <2>1, <2>2
<1>3. CASE Boot!Next /\ ~Boot!AllocStep
  <2>1. /\ chunks' = chunks
        /\ pc \in {"page_init", "check", "UPAGES", "UENVS", "KERNBASE", "stacks", "running"}
        /\ pc' \in {"check", "UPAGES", "UENVS", "KERNBASE", "stacks", "running", "panic", "fault"}
    BY <1>3 DEF Boot!Next, Boot!PageInit, Boot!CheckPages, Boot!MapPages, Boot!MapEnvs,
       Boot!MapMemory, Boot!MemInitMp, Boot!MapStep, Boot!MmioMapRegion
  <2> QED
    BY <2>1 DEF CountInv
<1>4. CASE UNCHANGED Boot!vars
  BY <1>4 DEF Boot!vars, CountInv
<1> QED
  BY <1>2, <1>3, <1>4

\* The arrays pages and envs start on a page.
LEMMA ArraysHavePages ==
  ASSUME ChunksInv, CountInv, pc \in {"UPAGES", "UENVS", "KERNBASE", "stacks", "running"}
  PROVE  chunks[2][1] \in Int /\ chunks[3][1] \in Int
<1>1. Len(chunks) = 3 /\ chunks \in Seq(Int \X Int)
  BY DEF ChunksInv, CountInv
<1>2. chunks[2] \in Int \X Int /\ chunks[3] \in Int \X Int
  BY <1>1, ElementOfSeq
<1> QED
  BY <1>2

NPages == Boot!PagesOf(npages * PAGEINFO)
NEnvs == Boot!PagesOf(ENVSIZE)
Unused(v) == kern_map[v] = Boot!Unmapped

\* What has been mapped so far
Drawn ==
  /\ pc \in Early \cup {"check", "UPAGES"} => \A v \in DOMAIN kern_map : Unused(v)
  /\ pc = "UENVS" =>
       \A v \in DOMAIN kern_map : Unused(v) \/ (v >= Boot!UPAGES /\ v < Boot!UVPT)
  /\ pc = "KERNBASE" => \A v \in DOMAIN kern_map : Unused(v) \/ v < Boot!UVPT
  /\ pc = "stacks" =>
       \A v \in DOMAIN kern_map : Unused(v) \/ v < Boot!UVPT \/ v >= KERNBASE
  /\ pc = "running" =>
       \A v \in DOMAIN kern_map : Unused(v) \/ v < base \/ v >= Boot!MMIOLIM

PagesAt == \A i \in 0 .. NPages - 1 : kern_map[Boot!UPAGES + i].pa = chunks[2][1] + i
EnvsAt == \A i \in 0 .. NEnvs - 1 : kern_map[Boot!UENVS + i].pa = chunks[3][1] + i
MemoryAt == \A p \in 0 .. npages - 1 : kern_map[KERNBASE + p].pa = p
StacksAt ==
  \A i \in 0 .. NCPU - 1, k \in 1 .. KSTKSIZE + KSTKGAP :
    kern_map[Boot!KSTACKTOP - i * (KSTKSIZE + KSTKGAP) - k] =
      IF k > KSTKSIZE THEN Boot!Unmapped
      ELSE [pa |-> Boot!KstackPage(i) + KSTKSIZE - k, perm |-> "kernel"]

\* The map grows by one region at a time, into what is not used.
MapInv ==
  /\ npages \in Nat /\ npages =< KERNSPAN
  /\ DOMAIN kern_map = Boot!UTOP .. Boot!Top - 1
  /\ Drawn
  /\ pc \in {"UENVS", "KERNBASE", "stacks", "running"} => PagesAt
  /\ pc \in {"KERNBASE", "stacks", "running"} => EnvsAt
  /\ pc \in {"stacks", "running"} => MemoryAt
  /\ pc = "running" => StacksAt

\* Each region fits in its page table's worth of addresses.
LEMMA RoomForAll ==
  ASSUME Boot!Geometry, Boot!Roomy, npages \in Nat, npages =< KERNSPAN
  PROVE  /\ NPages \in 0 .. NPTENTRIES /\ NEnvs \in 0 .. NPTENTRIES
         /\ KSTKSIZE + KSTKGAP \in Nat \ {0}
         /\ \A i \in 0 .. NCPU - 1 : /\ i * (KSTKSIZE + KSTKGAP) \in Nat
                                     /\ i * (KSTKSIZE + KSTKGAP) + KSTKSIZE + KSTKGAP =< NPTENTRIES
<1>1. /\ KERNSPAN * PAGEINFO =< NPTENTRIES * PGSIZE /\ ENVSIZE =< NPTENTRIES * PGSIZE
      /\ NCPU * (KSTKSIZE + KSTKGAP) =< NPTENTRIES
  BY DEF Boot!Roomy
<1>2. npages * PAGEINFO \in Nat /\ npages * PAGEINFO =< NPTENTRIES * PGSIZE
  <2>1. /\ KERNSPAN \in Nat /\ PAGEINFO \in Nat /\ NPTENTRIES \in Nat /\ PGSIZE \in Nat
    BY Layout, BootSizes
  <2>2. KERNSPAN - npages \in Nat /\ (KERNSPAN - npages) * PAGEINFO >= 0
    BY <2>1
  <2>3. KERNSPAN * PAGEINFO = npages * PAGEINFO + (KERNSPAN - npages) * PAGEINFO
    BY <2>1
  <2>4. npages * PAGEINFO \in Nat
    BY <2>1
  <2>5. NPTENTRIES * PGSIZE \in Int /\ KERNSPAN * PAGEINFO \in Int /\ (KERNSPAN - npages) * PAGEINFO \in Int
    BY <2>1
  <2> QED
    BY <1>1, <2>2, <2>3, <2>4, <2>5
<1>3. NPages \in Nat /\ NPages =< NPTENTRIES
  BY <1>2, WholePages, Layout DEF NPages
<1>4. NEnvs \in Nat /\ NEnvs =< NPTENTRIES
  BY <1>1, WholePages, Layout, BootSizes DEF NEnvs
<1>5. KSTKSIZE + KSTKGAP \in Nat \ {0} /\ NCPU \in Nat \ {0} /\ NPTENTRIES \in Nat
  BY Layout
<1>6. ASSUME NEW P \in Nat \ {0}, NCPU * P =< NPTENTRIES, NEW i \in 0 .. NCPU - 1
      PROVE  i * P \in Nat /\ i * P + P =< NPTENTRIES
  <2>1. NCPU - i - 1 \in Nat /\ (NCPU - i - 1) * P >= 0 /\ i * P \in Nat
    BY <1>5
  <2>2. NCPU * P = i * P + P + (NCPU - i - 1) * P
    BY <1>5
  <2>3. (NCPU - i - 1) * P \in Int /\ NCPU * P \in Int
    BY <1>5
  <2> QED
    BY <1>5, <1>6, <2>1, <2>2, <2>3
<1>7. \A i \in 0 .. NCPU - 1 : /\ i * (KSTKSIZE + KSTKGAP) \in Nat
                               /\ i * (KSTKSIZE + KSTKGAP) + (KSTKSIZE + KSTKGAP) =< NPTENTRIES
  BY <1>1, <1>5, <1>6
<1>8. KSTKSIZE \in Nat /\ KSTKGAP \in Nat
  BY Layout
<1> QED
  BY <1>3, <1>4, <1>5, <1>7, <1>8

\* At first nothing is mapped.
LEMMA MapInit ==
  ASSUME Boot!Geometry, Boot!Roomy, Boot!Init, PagesInv
  PROVE  MapInv
<1>1. PICK nv \in NVRAM : npages = Boot!TotalMem(nv) \div (PGSIZE \div KB)
  BY DEF Boot!Init
<1>2. npages \in Nat /\ npages =< KERNSPAN
  BY <1>1 DEF Boot!Roomy, PagesInv, ListInv
<1>3. pc = "kern_pgdir" /\ kern_map = [v \in Boot!UTOP .. Boot!Top - 1 |-> Boot!Unmapped]
  BY DEF Boot!Init
<1> QED
  BY <1>2, <1>3 DEF MapInv, Drawn, Unused, Early

\* A step of mem_init that maps nothing, or that gives up
LEMMA MapKept ==
  ASSUME MapInv, UNCHANGED <<npages, kern_map>>,
         \/ pc \in Early \cup {"check"} /\ pc' \in Early \cup {"check", "UPAGES"}
         \/ UNCHANGED <<pc, base, chunks>>
         \/ pc' \in {"panic", "fault"}
  PROVE  MapInv'
<1>1. CASE pc \in Early \cup {"check"} /\ pc' \in Early \cup {"check", "UPAGES"}
  <2>1. \A v \in DOMAIN kern_map : Unused(v)
    BY <1>1 DEF MapInv, Drawn
  <2>2. Drawn'
    BY <1>1, <2>1 DEF Drawn, Unused, Early, Boot!Unmapped
  <2> QED
    BY <1>1, <2>2 DEF MapInv, Early, Boot!UTOP, Boot!Top, Boot!UENVS, Boot!UPAGES, Boot!UVPT,
       Boot!MMIOBASE, Boot!MMIOLIM, Boot!KSTACKTOP
<1>2. CASE UNCHANGED <<pc, base, chunks>>
  BY <1>2 DEF MapInv, Drawn, Unused, PagesAt, EnvsAt, MemoryAt, StacksAt, NPages, NEnvs,
     Boot!Unmapped, Boot!PagesOf, Boot!Roundup, Boot!KstackPage, Boot!PGNUM, Boot!EXTPHYSMEM,
     Boot!UTOP, Boot!Top, Boot!UENVS, Boot!UPAGES, Boot!UVPT, Boot!MMIOBASE, Boot!MMIOLIM,
     Boot!KSTACKTOP
<1>3. CASE pc' \in {"panic", "fault"}
  BY <1>3 DEF MapInv, Drawn, Early, Boot!UTOP, Boot!Top, Boot!UENVS, Boot!UPAGES, Boot!UVPT,
     Boot!MMIOBASE, Boot!MMIOLIM, Boot!KSTACKTOP
<1> QED
  BY <1>1, <1>2, <1>3


\* What boot_map_region writes and what it leaves
LEMMA RegionAt ==
  ASSUME NEW STATE map, NEW STATE va, NEW STATE n, NEW STATE pa, NEW STATE perm
  PROVE  /\ DOMAIN Boot!Region(map, va, n, pa, perm) = DOMAIN map
         /\ \A v \in DOMAIN map :
              Boot!Region(map, va, n, pa, perm)[v] =
                IF v \in va .. va + n - 1 THEN [pa |-> pa + v - va, perm |-> perm] ELSE map[v]
  BY DEF Boot!Region

\* The addresses do not change.
LEMMA LayoutStays ==
  /\ Boot!UTOP' = Boot!UTOP /\ Boot!Top' = Boot!Top /\ Boot!UENVS' = Boot!UENVS
  /\ Boot!UPAGES' = Boot!UPAGES /\ Boot!UVPT' = Boot!UVPT /\ Boot!MMIOBASE' = Boot!MMIOBASE
  /\ Boot!MMIOLIM' = Boot!MMIOLIM /\ Boot!KSTACKTOP' = Boot!KSTACKTOP
  /\ Boot!Unmapped' = Boot!Unmapped /\ NEnvs' = NEnvs
  BY DEF Boot!UTOP, Boot!Top, Boot!UENVS, Boot!UPAGES, Boot!UVPT, Boot!MMIOBASE, Boot!MMIOLIM,
     Boot!KSTACKTOP, Boot!Unmapped, NEnvs, Boot!PagesOf, Boot!Roundup

\* The domain of the map, as far as it is used
LEMMA Addresses ==
  ASSUME Boot!Geometry, MapInv
  PROVE  /\ DOMAIN kern_map = KERNBASE - 5 * NPTENTRIES .. KERNBASE + KERNSPAN - 1
         /\ npages \in Nat /\ npages =< KERNSPAN
  BY Layout DEF MapInv

\* UPAGES: the array pages
LEMMA MapPagesStep ==
  ASSUME Boot!Geometry, Boot!Roomy, ChunksInv, CountInv, MapInv, Boot!MapPages
  PROVE  MapInv' /\ Boot!MappedOnce
<1>1. /\ pc = "UPAGES" /\ UNCHANGED <<npages, nextfree, chunks, base, regions>>
      /\ \/ pc' = "fault" /\ UNCHANGED kern_map
         \/ /\ pc' = "UENVS"
            /\ kern_map' = Boot!Region(kern_map, Boot!UPAGES, NPages, chunks[2][1], "user")
  BY DEF Boot!MapPages, Boot!MapStep, Boot!BootMapRegion, NPages
<1>2. CASE UNCHANGED kern_map /\ pc' = "fault"
  BY <1>1, <1>2, MapKept DEF Boot!MappedOnce
<1>3. CASE /\ pc' = "UENVS"
           /\ kern_map' = Boot!Region(kern_map, Boot!UPAGES, NPages, chunks[2][1], "user")
  <2> DEFINE a == Boot!UPAGES
  <2>1. /\ DOMAIN kern_map = KERNBASE - 5 * NPTENTRIES .. KERNBASE + KERNSPAN - 1
        /\ npages \in Nat /\ npages =< KERNSPAN
    BY Addresses
  <2>2. NPages \in 0 .. NPTENTRIES
    BY <2>1, RoomForAll
  <2>3. /\ a = KERNBASE - 4 * NPTENTRIES /\ Boot!UVPT = KERNBASE - 3 * NPTENTRIES
        /\ KERNBASE \in Nat /\ KERNSPAN \in Nat /\ NPTENTRIES \in Nat \ {0}
    BY Layout
  <2>4. /\ DOMAIN kern_map' = DOMAIN kern_map
        /\ \A v \in DOMAIN kern_map :
             kern_map'[v] = IF v \in a .. a + NPages - 1
                            THEN [pa |-> chunks[2][1] + v - a, perm |-> "user"] ELSE kern_map[v]
    BY <1>3, RegionAt
  <2> HIDE DEF a
  <2>5. \A v \in DOMAIN kern_map : Unused(v)
    BY <1>1 DEF MapInv, Drawn
  <2>6. NPages' = NPages
    BY <1>1 DEF NPages, Boot!PagesOf, Boot!Roundup
  <2>7. Drawn'
    <3>1. ASSUME NEW v \in DOMAIN kern_map', kern_map'[v] # Boot!Unmapped
          PROVE  v >= a /\ v < Boot!UVPT
      <4>1. v \in a .. a + NPages - 1
        BY <2>4, <2>5, <3>1 DEF Unused
      <4> QED
        BY <2>2, <2>3, <4>1
    <3> QED
      BY <1>3, <3>1, LayoutStays DEF Drawn, Unused, Early, a
  <2>8. PagesAt'
    <3>1. ASSUME NEW i \in 0 .. NPages - 1 PROVE kern_map'[a + i].pa = chunks[2][1] + (a + i) - a
      <4>1. a + i \in DOMAIN kern_map /\ a + i \in a .. a + NPages - 1
        BY <2>1, <2>2, <2>3
      <4> QED
        BY <2>4, <4>1
    <3>2. ASSUME NEW i \in 0 .. NPages - 1 PROVE kern_map'[a + i].pa = chunks[2][1] + i
      <4>1. chunks[2][1] \in Int
        BY <1>1, ArraysHavePages
      <4> QED
        BY <2>3, <3>1, <4>1
    <3> QED
      BY <1>1, <2>6, <3>2, LayoutStays DEF PagesAt, a
  <2>9. MapInv'
    BY <1>1, <1>3, <2>4, <2>7, <2>8, LayoutStays DEF MapInv
  <2>10. Boot!MappedOnce
    BY <2>5 DEF Boot!MappedOnce, Unused
  <2> QED
    BY <2>9, <2>10
<1> QED
  BY <1>1, <1>2, <1>3


\* UENVS: the array envs, below pages
LEMMA MapEnvsStep ==
  ASSUME Boot!Geometry, Boot!Roomy, ChunksInv, CountInv, MapInv, Boot!MapEnvs
  PROVE  MapInv' /\ Boot!MappedOnce
<1>1. /\ pc = "UENVS" /\ UNCHANGED <<npages, nextfree, chunks, base, regions>>
      /\ \/ pc' = "fault" /\ UNCHANGED kern_map
         \/ /\ pc' = "KERNBASE"
            /\ kern_map' = Boot!Region(kern_map, Boot!UENVS, NEnvs, chunks[3][1], "user")
  BY DEF Boot!MapEnvs, Boot!MapStep, Boot!BootMapRegion, NEnvs
<1>2. CASE UNCHANGED kern_map /\ pc' = "fault"
  BY <1>1, <1>2, MapKept DEF Boot!MappedOnce
<1>3. CASE /\ pc' = "KERNBASE"
           /\ kern_map' = Boot!Region(kern_map, Boot!UENVS, NEnvs, chunks[3][1], "user")
  <2> DEFINE a == Boot!UENVS
  <2>1. /\ DOMAIN kern_map = KERNBASE - 5 * NPTENTRIES .. KERNBASE + KERNSPAN - 1
        /\ npages \in Nat /\ npages =< KERNSPAN
    BY Addresses
  <2>2. NEnvs \in 0 .. NPTENTRIES /\ NPages \in 0 .. NPTENTRIES
    BY <2>1, RoomForAll
  <2>3. /\ a = KERNBASE - 5 * NPTENTRIES /\ Boot!UPAGES = KERNBASE - 4 * NPTENTRIES
        /\ Boot!UVPT = KERNBASE - 3 * NPTENTRIES
        /\ KERNBASE \in Nat /\ KERNSPAN \in Nat /\ NPTENTRIES \in Nat \ {0}
    BY Layout
  <2>4. /\ DOMAIN kern_map' = DOMAIN kern_map
        /\ \A v \in DOMAIN kern_map :
             kern_map'[v] = IF v \in a .. a + NEnvs - 1
                            THEN [pa |-> chunks[3][1] + v - a, perm |-> "user"] ELSE kern_map[v]
    BY <1>3, RegionAt
  <2> HIDE DEF a
  <2>5. \A v \in DOMAIN kern_map : Unused(v) \/ (v >= Boot!UPAGES /\ v < Boot!UVPT)
    BY <1>1 DEF MapInv, Drawn
  <2>6. NPages' = NPages
    BY <1>1 DEF NPages, Boot!PagesOf, Boot!Roundup
  <2>7. \A v \in DOMAIN kern_map : ~Unused(v) => v \notin a .. a + NEnvs - 1
    BY <2>2, <2>3, <2>5
  <2>8. Drawn'
    <3>1. ASSUME NEW v \in DOMAIN kern_map', kern_map'[v] # Boot!Unmapped PROVE v < Boot!UVPT
      <4>1. CASE v \in a .. a + NEnvs - 1
        BY <2>2, <2>3, <4>1
      <4>2. CASE v \notin a .. a + NEnvs - 1
        BY <2>4, <2>5, <3>1, <4>2 DEF Unused
      <4> QED
        BY <4>1, <4>2
    <3> QED
      BY <1>3, <3>1, LayoutStays DEF Drawn, Unused, Early
  <2>9. EnvsAt'
    <3>1. ASSUME NEW i \in 0 .. NEnvs - 1 PROVE kern_map'[a + i].pa = chunks[3][1] + i
      <4>1. a + i \in DOMAIN kern_map /\ a + i \in a .. a + NEnvs - 1
        BY <2>1, <2>2, <2>3
      <4>2. kern_map'[a + i].pa = chunks[3][1] + (a + i) - a
        BY <2>4, <4>1
      <4>3. chunks[3][1] \in Int
        BY <1>1, ArraysHavePages
      <4> QED
        BY <2>3, <4>2, <4>3
    <3> QED
      BY <1>1, <3>1, LayoutStays DEF EnvsAt, a
  <2>10. PagesAt'
    <3>1. PagesAt
      BY <1>1 DEF MapInv
    <3>2. ASSUME NEW i \in 0 .. NPages - 1 PROVE kern_map'[Boot!UPAGES + i] = kern_map[Boot!UPAGES + i]
      <4>1. Boot!UPAGES + i \in DOMAIN kern_map /\ Boot!UPAGES + i \notin a .. a + NEnvs - 1
        BY <2>1, <2>2, <2>3
      <4> QED
        BY <2>4, <4>1
    <3> QED
      BY <1>1, <2>6, <3>1, <3>2, LayoutStays DEF PagesAt
  <2>11. MapInv'
    BY <1>1, <1>3, <2>4, <2>8, <2>9, <2>10, LayoutStays DEF MapInv
  <2>12. Boot!MappedOnce
    BY <2>4, <2>7 DEF Boot!MappedOnce, Unused
  <2> QED
    BY <2>11, <2>12
<1> QED
  BY <1>1, <1>2, <1>3

\* KERNBASE: all of memory, above everything else
LEMMA MapMemoryStep ==
  ASSUME Boot!Geometry, Boot!Roomy, MapInv, Boot!MapMemory
  PROVE  MapInv' /\ Boot!MappedOnce
<1>1. /\ pc = "KERNBASE" /\ UNCHANGED <<npages, nextfree, chunks, base, regions>>
      /\ \/ pc' = "fault" /\ UNCHANGED kern_map
         \/ /\ pc' = "stacks"
            /\ kern_map' = Boot!Region(kern_map, KERNBASE, KERNSPAN, 0, "kernel")
  BY DEF Boot!MapMemory, Boot!MapStep, Boot!BootMapRegion
<1>2. CASE UNCHANGED kern_map /\ pc' = "fault"
  BY <1>1, <1>2, MapKept DEF Boot!MappedOnce
<1>3. CASE /\ pc' = "stacks"
           /\ kern_map' = Boot!Region(kern_map, KERNBASE, KERNSPAN, 0, "kernel")
  <2>1. /\ DOMAIN kern_map = KERNBASE - 5 * NPTENTRIES .. KERNBASE + KERNSPAN - 1
        /\ npages \in Nat /\ npages =< KERNSPAN
    BY Addresses
  <2>2. NEnvs \in 0 .. NPTENTRIES /\ NPages \in 0 .. NPTENTRIES
    BY <2>1, RoomForAll
  <2>3. /\ Boot!UENVS = KERNBASE - 5 * NPTENTRIES /\ Boot!UPAGES = KERNBASE - 4 * NPTENTRIES
        /\ Boot!UVPT = KERNBASE - 3 * NPTENTRIES
        /\ KERNBASE \in Nat /\ KERNSPAN \in Nat /\ NPTENTRIES \in Nat \ {0}
    BY Layout
  <2>4. /\ DOMAIN kern_map' = DOMAIN kern_map
        /\ \A v \in DOMAIN kern_map :
             kern_map'[v] = IF v \in KERNBASE .. KERNBASE + KERNSPAN - 1
                            THEN [pa |-> 0 + v - KERNBASE, perm |-> "kernel"] ELSE kern_map[v]
    BY <1>3, RegionAt
  <2>5. \A v \in DOMAIN kern_map : Unused(v) \/ v < Boot!UVPT
    BY <1>1 DEF MapInv, Drawn
  <2>6. NPages' = NPages
    BY <1>1 DEF NPages, Boot!PagesOf, Boot!Roundup
  <2>7. \A v \in DOMAIN kern_map : v < KERNBASE => kern_map'[v] = kern_map[v]
    BY <2>1, <2>3, <2>4
  <2>8. Drawn'
    <3>1. ASSUME NEW v \in DOMAIN kern_map', kern_map'[v] # Boot!Unmapped
          PROVE  v < Boot!UVPT \/ v >= KERNBASE
      BY <2>1, <2>3, <2>4, <2>5, <2>7, <3>1 DEF Unused
    <3> QED
      BY <1>3, <3>1, LayoutStays DEF Drawn, Unused, Early
  <2>9. MemoryAt'
    <3>1. ASSUME NEW p \in 0 .. npages - 1 PROVE kern_map'[KERNBASE + p].pa = p
      <4>1. KERNBASE + p \in DOMAIN kern_map /\ KERNBASE + p \in KERNBASE .. KERNBASE + KERNSPAN - 1
        BY <2>1, <2>3
      <4>2. kern_map'[KERNBASE + p].pa = 0 + (KERNBASE + p) - KERNBASE
        BY <2>4, <4>1
      <4> QED
        BY <2>1, <2>3, <4>2
    <3> QED
      BY <1>1, <3>1 DEF MemoryAt
  <2>10. PagesAt' /\ EnvsAt'
    <3>1. PagesAt /\ EnvsAt
      BY <1>1 DEF MapInv
    <3>2. ASSUME NEW i \in 0 .. NPages - 1 PROVE kern_map'[Boot!UPAGES + i] = kern_map[Boot!UPAGES + i]
      <4>1. Boot!UPAGES + i \in DOMAIN kern_map /\ Boot!UPAGES + i < KERNBASE
        BY <2>1, <2>2, <2>3
      <4> QED
        BY <2>7, <4>1
    <3>3. ASSUME NEW i \in 0 .. NEnvs - 1 PROVE kern_map'[Boot!UENVS + i] = kern_map[Boot!UENVS + i]
      <4>1. Boot!UENVS + i \in DOMAIN kern_map /\ Boot!UENVS + i < KERNBASE
        BY <2>1, <2>2, <2>3
      <4> QED
        BY <2>7, <4>1
    <3> QED
      BY <1>1, <2>6, <3>1, <3>2, <3>3, LayoutStays DEF PagesAt, EnvsAt
  <2>11. MapInv'
    BY <1>1, <1>3, <2>4, <2>8, <2>9, <2>10, LayoutStays DEF MapInv
  <2>12. Boot!MappedOnce
    BY <2>3, <2>1, <2>5, <2>7 DEF Boot!MappedOnce, Unused
  <2> QED
    BY <2>11, <2>12
<1> QED
  BY <1>1, <1>2, <1>3


\* The addresses of two stacks are apart.
LEMMA StacksApart ==
  ASSUME NEW P \in Nat, NEW S \in 1 .. P, NEW i \in Nat, NEW j \in Nat, NEW k \in 1 .. P,
         (S - k) + (j - i) * P \in 0 .. S - 1
  PROVE  i = j
<1>1. CASE j > i
  <2>1. j - i - 1 \in Nat /\ (j - i - 1) * P >= 0 /\ (j - i - 1) * P \in Int
    BY <1>1
  <2>2. (j - i) * P = (j - i - 1) * P + P
    OBVIOUS
  <2> QED
    BY <2>1, <2>2
<1>2. CASE j < i
  <2>1. i - j - 1 \in Nat /\ (i - j - 1) * P >= 0 /\ (i - j - 1) * P \in Int
    BY <1>2
  <2>2. (j - i) * P = -((i - j - 1) * P) - P
    OBVIOUS
  <2> QED
    BY <2>1, <2>2
<1> QED
  BY <1>1, <1>2

\* mem_init_mp: the stacks, just below KERNBASE, each under the gap of the one before
LEMMA MemInitMpStep ==
  ASSUME Boot!Geometry, Boot!Roomy, DevicesInv, MapInv, Boot!MemInitMp
  PROVE  MapInv' /\ Boot!MappedOnce
<1> DEFINE P == KSTKSIZE + KSTKGAP
           K == KERNBASE
<1>1. /\ pc = "stacks" /\ UNCHANGED <<npages, nextfree, chunks, base, regions>>
      /\ \/ pc' = "fault" /\ UNCHANGED kern_map
         \/ pc' = "running" /\ kern_map' = Boot!WithStacks(kern_map)
  BY DEF Boot!MemInitMp, Boot!MapStep, Boot!BootMapRegion
<1>2. CASE UNCHANGED kern_map /\ pc' = "fault"
  BY <1>1, <1>2, MapKept DEF Boot!MappedOnce
<1>3. CASE pc' = "running" /\ kern_map' = Boot!WithStacks(kern_map)
  <2> DEFINE stack(v) == {i \in 0 .. NCPU - 1 : v - Boot!StackOf(i) \in 0 .. KSTKSIZE - 1}
  <2>1. /\ DOMAIN kern_map = K - 5 * NPTENTRIES .. K + KERNSPAN - 1
        /\ npages \in Nat /\ npages =< KERNSPAN
    BY Addresses
  <2>2. /\ NEnvs \in 0 .. NPTENTRIES /\ NPages \in 0 .. NPTENTRIES
        /\ P \in Nat \ {0}
        /\ \A i \in 0 .. NCPU - 1 : i * P \in Nat /\ i * P + P =< NPTENTRIES
    <3>1. /\ KSTKSIZE \in Nat /\ KSTKGAP \in Nat
      BY Layout
    <3> QED
      BY <2>1, <3>1, RoomForAll
  <2>3. /\ Boot!UENVS = K - 5 * NPTENTRIES /\ Boot!UPAGES = K - 4 * NPTENTRIES
        /\ Boot!UVPT = K - 3 * NPTENTRIES /\ Boot!MMIOLIM = K - NPTENTRIES
        /\ Boot!KSTACKTOP = K
        /\ K \in Nat /\ KERNSPAN \in Nat /\ NPTENTRIES \in Nat \ {0}
        /\ NCPU \in Nat /\ KSTKSIZE \in 1 .. P
    BY Layout
  <2>4. \A i \in 0 .. NCPU - 1 : Boot!StackOf(i) = K - i * P - KSTKSIZE
    BY <2>3 DEF Boot!StackOf
  <2>5. /\ DOMAIN kern_map' = DOMAIN kern_map
        /\ \A v \in DOMAIN kern_map :
             /\ stack(v) = {} => kern_map'[v] = kern_map[v]
             /\ \A i \in 0 .. NCPU - 1 : stack(v) = {i} =>
                  kern_map'[v] = [pa |-> Boot!KstackPage(i) + v - Boot!StackOf(i), perm |-> "kernel"]
    <3>1. kern_map' = [v \in DOMAIN kern_map |->
            IF \E i \in 0 .. NCPU - 1 : v - Boot!StackOf(i) \in 0 .. KSTKSIZE - 1
            THEN LET i == CHOOSE i \in 0 .. NCPU - 1 : v - Boot!StackOf(i) \in 0 .. KSTKSIZE - 1
                 IN [pa |-> Boot!KstackPage(i) + v - Boot!StackOf(i), perm |-> "kernel"]
            ELSE kern_map[v]]
      BY <1>3 DEF Boot!WithStacks
    <3>2. ASSUME NEW v \in DOMAIN kern_map, stack(v) = {} PROVE kern_map'[v] = kern_map[v]
      <4>1. ~ \E i \in 0 .. NCPU - 1 : v - Boot!StackOf(i) \in 0 .. KSTKSIZE - 1
        BY <3>2
      <4> QED
        BY <3>1, <4>1
    <3>3. ASSUME NEW v \in DOMAIN kern_map, NEW i \in 0 .. NCPU - 1, stack(v) = {i}
          PROVE  kern_map'[v] = [pa |-> Boot!KstackPage(i) + v - Boot!StackOf(i), perm |-> "kernel"]
      <4> DEFINE c == CHOOSE j \in 0 .. NCPU - 1 : v - Boot!StackOf(j) \in 0 .. KSTKSIZE - 1
      <4>1. i \in stack(v)
        BY <3>3
      <4>2. v - Boot!StackOf(i) \in 0 .. KSTKSIZE - 1
        BY <4>1
      <4>3. c \in 0 .. NCPU - 1 /\ v - Boot!StackOf(c) \in 0 .. KSTKSIZE - 1
        BY <4>2
      <4>4. c = i
        <5> HIDE DEF c
        <5> QED
          BY <3>3, <4>3
      <4>5. kern_map'[v] = [pa |-> Boot!KstackPage(c) + v - Boot!StackOf(c), perm |-> "kernel"]
        BY <3>1, <4>2
      <4> HIDE DEF c
      <4> QED
        BY <4>4, <4>5
    <3>4. DOMAIN kern_map' = DOMAIN kern_map
      BY <3>1
    <3> QED
      BY <3>2, <3>3, <3>4
  <2>6. \A v \in DOMAIN kern_map : \A i \in stack(v) : v >= Boot!MMIOLIM /\ v < K
    <3>1. ASSUME NEW v \in DOMAIN kern_map, NEW i \in stack(v) PROVE v >= Boot!MMIOLIM /\ v < K
      <4>1. /\ i \in 0 .. NCPU - 1 /\ v - (K - i * P - KSTKSIZE) \in 0 .. KSTKSIZE - 1
        BY <2>4
      <4>2. i * P \in Nat /\ i * P + P =< NPTENTRIES /\ v \in Int
        BY <2>1, <2>2, <4>1
      <4> HIDE DEF P
      <4> QED
        BY <2>2, <2>3, <4>1, <4>2
    <3> QED
      BY <3>1
  <2>7. ASSUME NEW v \in DOMAIN kern_map, v < Boot!MMIOLIM \/ v >= K PROVE kern_map'[v] = kern_map[v]
    <3>1. v \in Int
      BY <2>1
    <3>2. stack(v) = {}
      BY <2>3, <2>6, <2>7, <3>1
    <3> HIDE DEF stack
    <3> QED
      BY <2>5, <3>2
  <2>8. ASSUME NEW i \in 0 .. NCPU - 1, NEW k \in 1 .. P
        PROVE  /\ K - i * P - k \in DOMAIN kern_map
               /\ K - i * P - k >= Boot!MMIOLIM /\ K - i * P - k < K
               /\ stack(K - i * P - k) = IF k > KSTKSIZE THEN {} ELSE {i}
    <3> DEFINE v == K - i * P - k
    <3>1. i * P \in Nat /\ i * P + P =< NPTENTRIES
      BY <2>2
    <3>2. v \in Int /\ v >= Boot!MMIOLIM /\ v < K
      <4> HIDE DEF P
      <4> QED
        BY <2>2, <2>3, <3>1
    <3>3. v \in DOMAIN kern_map
      <4> HIDE DEF v, P
      <4> QED
        BY <2>1, <2>3, <3>2
    <3>4. ASSUME NEW j \in stack(v) PROVE j = i /\ k =< KSTKSIZE
      <4>1. j \in 0 .. NCPU - 1 /\ v - (K - j * P - KSTKSIZE) \in 0 .. KSTKSIZE - 1
        BY <2>4
      <4>2. v - (K - j * P - KSTKSIZE) = (KSTKSIZE - k) + (j - i) * P
        <5>1. (j - i) * P = j * P - i * P
          BY <2>2, <2>3, <4>1
        <5> HIDE DEF P
        <5>2. j * P \in Int /\ i * P \in Int
          BY <2>2, <2>3, <4>1
        <5> QED
          BY <2>2, <2>3, <5>1, <5>2
      <4>3. (KSTKSIZE - k) + (j - i) * P \in 0 .. KSTKSIZE - 1
        BY <4>1, <4>2
      <4>4. j \in Nat /\ i \in Nat /\ P \in Nat /\ KSTKSIZE \in 1 .. P
        BY <2>2, <2>3, <4>1
      <4> HIDE DEF P, v, stack
      <4>5. i = j
        BY <4>3, <4>4, StacksApart
      <4>6. (j - i) * P = 0
        BY <4>4, <4>5
      <4> QED
        BY <4>3, <4>4, <4>5, <4>6
    <3>5. ASSUME k =< KSTKSIZE PROVE i \in stack(v)
      <4>1. v - (K - i * P - KSTKSIZE) = KSTKSIZE - k
        <5> HIDE DEF P
        <5> QED
          BY <2>2, <2>3, <3>1
      <4>2. KSTKSIZE - k \in 0 .. KSTKSIZE - 1
        BY <2>2, <2>3, <3>5
      <4> QED
        BY <2>4, <4>1, <4>2
    <3>6. stack(v) = IF k > KSTKSIZE THEN {} ELSE {i}
      <4>1. k \in Int /\ KSTKSIZE \in Int
        BY <2>2, <2>3
      <4> HIDE DEF stack, v, P
      <4> QED
        BY <3>4, <3>5, <4>1
    <3> QED
      BY <3>2, <3>3, <3>6
  <2>9. StacksAt'
    <3>1. ASSUME NEW i \in 0 .. NCPU - 1, NEW k \in 1 .. P
          PROVE  kern_map'[K - i * P - k] =
                   IF k > KSTKSIZE THEN Boot!Unmapped
                   ELSE [pa |-> Boot!KstackPage(i) + KSTKSIZE - k, perm |-> "kernel"]
      <4> DEFINE v == K - i * P - k
      <4>1. /\ v \in DOMAIN kern_map /\ v >= Boot!MMIOLIM /\ v < K /\ v \in Int
            /\ stack(v) = IF k > KSTKSIZE THEN {} ELSE {i}
        BY <2>1, <2>8
      <4>2. CASE k > KSTKSIZE
        <5>1. stack(v) = {}
          BY <4>1, <4>2
        <5>2. kern_map'[v] = kern_map[v]
          <6> HIDE DEF stack, v
          <6> QED
            BY <2>5, <4>1, <5>1
        <5>3. Unused(v)
          <6>1. Unused(v) \/ v < Boot!UVPT \/ v >= K
            BY <1>1, <4>1 DEF MapInv, Drawn
          <6> HIDE DEF v, P
          <6> QED
            BY <2>3, <4>1, <6>1
        <5> QED
          BY <4>2, <5>2, <5>3 DEF Unused
      <4>3. CASE k =< KSTKSIZE
        <5>1. stack(v) = {i}
          <6>1. ~(k > KSTKSIZE)
            BY <2>2, <2>3, <4>3
          <6> QED
            BY <4>1, <6>1
        <5>2. kern_map'[v] = [pa |-> Boot!KstackPage(i) + v - Boot!StackOf(i), perm |-> "kernel"]
          <6> HIDE DEF stack, v
          <6> QED
            BY <2>5, <4>1, <5>1
        <5>3. Boot!KstackPage(i) \in Int /\ i * P \in Int
          <6>1. First \in Int
            BY BootSizes
          <6>2. i * KSTKSIZE \in Int
            BY <2>2, <2>3
          <6> QED
            BY <2>2, <6>1, <6>2 DEF Boot!KstackPage, First
        <5>4. Boot!KstackPage(i) + v - Boot!StackOf(i) = Boot!KstackPage(i) + KSTKSIZE - k
          <6>1. Boot!StackOf(i) = K - i * P - KSTKSIZE
            BY <2>4
          <6> HIDE DEF P
          <6> QED
            BY <2>2, <2>3, <5>3, <6>1
        <5>5. ~(k > KSTKSIZE)
          BY <2>2, <2>3, <4>3
        <5> QED
          BY <5>2, <5>4, <5>5
      <4> QED
        BY <2>2, <2>3, <4>2, <4>3
    <3>2. Boot!KSTACKTOP' = K /\ \A i : Boot!KstackPage(i)' = Boot!KstackPage(i)
      BY <2>3, LayoutStays DEF Boot!KstackPage, Boot!PGNUM, Boot!EXTPHYSMEM
    <3> QED
      BY <3>1, <3>2, LayoutStays DEF StacksAt, Boot!KstackPage, Boot!PGNUM, Boot!EXTPHYSMEM
  <2>10. PagesAt' /\ EnvsAt' /\ MemoryAt'
    <3>1. PagesAt /\ EnvsAt /\ MemoryAt
      BY <1>1 DEF MapInv
    <3>2. ASSUME NEW i \in 0 .. NPages - 1 PROVE kern_map'[Boot!UPAGES + i] = kern_map[Boot!UPAGES + i]
      <4>1. Boot!UPAGES + i \in DOMAIN kern_map /\ Boot!UPAGES + i < Boot!MMIOLIM
        BY <2>1, <2>2, <2>3
      <4> QED
        BY <2>7, <4>1
    <3>3. ASSUME NEW i \in 0 .. NEnvs - 1 PROVE kern_map'[Boot!UENVS + i] = kern_map[Boot!UENVS + i]
      <4>1. Boot!UENVS + i \in DOMAIN kern_map /\ Boot!UENVS + i < Boot!MMIOLIM
        BY <2>1, <2>2, <2>3
      <4> QED
        BY <2>7, <4>1
    <3>4. ASSUME NEW p \in 0 .. npages - 1 PROVE kern_map'[KERNBASE + p] = kern_map[KERNBASE + p]
      <4>1. KERNBASE + p \in DOMAIN kern_map /\ KERNBASE + p >= K
        BY <2>1, <2>3
      <4> QED
        BY <2>7, <4>1
    <3>5. NPages' = NPages
      BY <1>1 DEF NPages, Boot!PagesOf, Boot!Roundup
    <3> QED
      BY <1>1, <3>1, <3>2, <3>3, <3>4, <3>5, LayoutStays DEF PagesAt, EnvsAt, MemoryAt
  <2>11. \A v \in DOMAIN kern_map : Unused(v) \/ v < Boot!UVPT \/ v >= KERNBASE
    BY <1>1 DEF MapInv, Drawn
  <2>12. Boot!MappedOnce
    <3>1. ASSUME NEW v \in DOMAIN kern_map, ~Unused(v) PROVE v < Boot!MMIOLIM \/ v >= K
      <4>1. (v < Boot!UVPT \/ v >= K) /\ v \in Int
        BY <2>1, <2>11, <3>1
      <4> QED
        BY <2>3, <4>1
    <3> QED
      BY <2>7, <3>1 DEF Boot!MappedOnce, Unused
  <2>13. Drawn'
    <3>1. ASSUME NEW v \in DOMAIN kern_map', kern_map'[v] # Boot!Unmapped
          PROVE  v < base \/ v >= Boot!MMIOLIM
      <4>1. v \in DOMAIN kern_map /\ v \in Int
        BY <2>1, <2>5
      <4>2. base \in Int /\ base >= K - 2 * NPTENTRIES
        BY Layout DEF DevicesInv
      <4>3. CASE v < Boot!UVPT \/ v >= K
        BY <2>3, <4>1, <4>2, <4>3
      <4>4. CASE Unused(v) /\ ~(v < Boot!MMIOLIM \/ v >= K)
        BY <2>3, <4>1, <4>4
      <4>5. CASE Unused(v) /\ (v < Boot!MMIOLIM \/ v >= K)
        BY <2>7, <3>1, <4>1, <4>5 DEF Unused
      <4> QED
        BY <2>11, <4>1, <4>3, <4>4, <4>5
    <3> QED
      BY <1>1, <1>3, <3>1, LayoutStays DEF Drawn, Unused, Early
  <2>14. MapInv'
    BY <1>1, <1>3, <2>5, <2>9, <2>10, <2>13, LayoutStays DEF MapInv
  <2> QED
    BY <2>12, <2>14
<1> QED
  BY <1>1, <1>2, <1>3


\* mmio_map_region: between what is mapped for users and the stacks
LEMMA MapMmioStep ==
  ASSUME Boot!Geometry, Boot!Roomy, DevicesInv, MapInv, Boot!MmioMapRegion
  PROVE  MapInv' /\ Boot!MappedOnce
<1> DEFINE P == KSTKSIZE + KSTKGAP
           K == KERNBASE
<1>1. pc = "running" /\ UNCHANGED <<npages, nextfree, chunks>>
  BY DEF Boot!MmioMapRegion
<1>2. PICK size \in MmioSizes :
        \/ pc' = "panic" /\ UNCHANGED kern_map
        \/ /\ Boot!MmioFits(size) /\ pc' = "running"
           /\ kern_map' = Boot!Region(kern_map, base, Boot!PagesOf(size), npages, "device")
           /\ base' = Boot!MmioEnd(size)
  BY <1>1 DEF Boot!MmioMapRegion
<1>3. CASE UNCHANGED kern_map /\ pc' = "panic"
  BY <1>1, <1>3, MapKept DEF Boot!MappedOnce
<1>4. CASE /\ Boot!MmioFits(size) /\ pc' = "running"
           /\ kern_map' = Boot!Region(kern_map, base, Boot!PagesOf(size), npages, "device")
           /\ base' = Boot!MmioEnd(size)
  <2> DEFINE n == Boot!PagesOf(size)
  <2>1. /\ DOMAIN kern_map = K - 5 * NPTENTRIES .. K + KERNSPAN - 1
        /\ npages \in Nat /\ npages =< KERNSPAN
    BY Addresses
  <2>2. /\ NEnvs \in 0 .. NPTENTRIES /\ NPages \in 0 .. NPTENTRIES
        /\ P \in Nat \ {0}
        /\ \A i \in 0 .. NCPU - 1 : i * P \in Nat /\ i * P + P =< NPTENTRIES
    <3>1. /\ KSTKSIZE \in Nat /\ KSTKGAP \in Nat
      BY Layout
    <3> QED
      BY <2>1, <3>1, RoomForAll
  <2> HIDE DEF P
  <2>3. /\ Boot!UENVS = K - 5 * NPTENTRIES /\ Boot!UPAGES = K - 4 * NPTENTRIES
        /\ Boot!MMIOBASE = K - 2 * NPTENTRIES /\ Boot!MMIOLIM = K - NPTENTRIES
        /\ Boot!KSTACKTOP = K
        /\ K \in Nat /\ KERNSPAN \in Nat /\ NPTENTRIES \in Nat \ {0}
    BY Layout
  <2>4. n \in Nat
    BY WholePages DEF Boot!Geometry
  <2>5. /\ base \in Int /\ base >= Boot!MMIOBASE /\ base' = base + n /\ base + n < Boot!MMIOLIM
    BY <1>4 DEF Boot!MmioFits, Boot!MmioEnd, DevicesInv
  <2>6. /\ DOMAIN kern_map' = DOMAIN kern_map
        /\ \A v \in DOMAIN kern_map :
             kern_map'[v] = IF v \in base .. base + n - 1
                            THEN [pa |-> npages + v - base, perm |-> "device"] ELSE kern_map[v]
    BY <1>4, RegionAt
  <2> HIDE DEF n
  <2>7. ASSUME NEW v \in DOMAIN kern_map, v < Boot!MMIOBASE \/ v >= Boot!MMIOLIM
        PROVE  kern_map'[v] = kern_map[v]
    <3>1. v \in Int
      BY <2>1
    <3>2. v \notin base .. base + n - 1
      BY <2>3, <2>4, <2>5, <2>7, <3>1
    <3> QED
      BY <2>6, <3>2
  <2>8. \A v \in DOMAIN kern_map : Unused(v) \/ v < base \/ v >= Boot!MMIOLIM
    BY <1>1 DEF MapInv, Drawn
  <2>9. Boot!MappedOnce
    <3>1. ASSUME NEW v \in DOMAIN kern_map, ~Unused(v) PROVE v \notin base .. base + n - 1
      <4>1. v \in Int
        BY <2>1
      <4> QED
        BY <2>3, <2>4, <2>5, <2>8, <3>1, <4>1
    <3> QED
      BY <2>6, <3>1 DEF Boot!MappedOnce, Unused
  <2>10. Drawn'
    <3>1. ASSUME NEW v \in DOMAIN kern_map', kern_map'[v] # Boot!Unmapped
          PROVE  v < base' \/ v >= Boot!MMIOLIM
      <4>1. v \in Int /\ v \in DOMAIN kern_map
        BY <2>1, <2>6
      <4>2. CASE v \in base .. base + n - 1
        BY <2>4, <2>5, <4>1, <4>2
      <4>3. CASE v \notin base .. base + n - 1
        <5>1. v < base \/ v >= Boot!MMIOLIM
          BY <2>6, <2>8, <3>1, <4>1, <4>3 DEF Unused
        <5> QED
          BY <2>3, <2>4, <2>5, <4>1, <5>1
      <4> QED
        BY <4>2, <4>3
    <3> QED
      BY <1>4, <3>1, LayoutStays DEF Drawn, Unused, Early
  <2>11. PagesAt /\ EnvsAt /\ MemoryAt /\ StacksAt
    BY <1>1 DEF MapInv
  <2>12. PagesAt' /\ EnvsAt' /\ MemoryAt'
    <3>2. ASSUME NEW i \in 0 .. NPages - 1 PROVE kern_map'[Boot!UPAGES + i] = kern_map[Boot!UPAGES + i]
      <4>1. Boot!UPAGES + i \in DOMAIN kern_map /\ Boot!UPAGES + i < Boot!MMIOBASE
        BY <2>1, <2>2, <2>3
      <4> QED
        BY <2>7, <4>1
    <3>3. ASSUME NEW i \in 0 .. NEnvs - 1 PROVE kern_map'[Boot!UENVS + i] = kern_map[Boot!UENVS + i]
      <4>1. Boot!UENVS + i \in DOMAIN kern_map /\ Boot!UENVS + i < Boot!MMIOBASE
        BY <2>1, <2>2, <2>3
      <4> QED
        BY <2>7, <4>1
    <3>4. ASSUME NEW p \in 0 .. npages - 1 PROVE kern_map'[KERNBASE + p] = kern_map[KERNBASE + p]
      <4>1. KERNBASE + p \in DOMAIN kern_map /\ KERNBASE + p >= Boot!MMIOLIM
        BY <2>1, <2>3
      <4> QED
        BY <2>7, <4>1
    <3>5. NPages' = NPages
      BY <1>1 DEF NPages, Boot!PagesOf, Boot!Roundup
    <3> QED
      BY <1>1, <2>11, <3>2, <3>3, <3>4, <3>5, LayoutStays DEF PagesAt, EnvsAt, MemoryAt
  <2>13. StacksAt'
    <3>1. ASSUME NEW i \in 0 .. NCPU - 1, NEW k \in 1 .. P
          PROVE  kern_map'[K - i * P - k] = kern_map[K - i * P - k]
      <4>1. i * P \in Nat /\ i * P + P =< NPTENTRIES
        BY <2>2
      <4>2. K - i * P - k >= Boot!MMIOLIM /\ K - i * P - k < K /\ K - i * P - k \in Int
        BY <2>2, <2>3, <4>1
      <4> DEFINE v == K - i * P - k
      <4> HIDE DEF v
      <4>3. v \in DOMAIN kern_map /\ v >= Boot!MMIOLIM
        BY <2>1, <2>3, <4>2 DEF v
      <4>4. kern_map'[v] = kern_map[v]
        BY <2>7, <4>3
      <4> QED
        BY <4>4 DEF v
    <3> QED
      BY <2>3, <2>11, <3>1, LayoutStays
         DEF StacksAt, P, Boot!KstackPage, Boot!PGNUM, Boot!EXTPHYSMEM
  <2>14. MapInv'
    BY <1>1, <1>4, <2>6, <2>10, <2>12, <2>13, LayoutStays DEF MapInv
  <2> QED
    BY <2>9, <2>14
<1> QED
  BY <1>2, <1>3, <1>4

\* Every step maps into what is not used, and leaves what earlier ones have mapped.
LEMMA MapNext ==
  ASSUME Boot!Geometry, Boot!Roomy, ChunksInv, CountInv, DevicesInv, MapInv,
         [Boot!Next]_(Boot!vars)
  PROVE  MapInv' /\ Boot!MappedOnce
<1>1. CASE Boot!AllocStep
  <2>1. /\ UNCHANGED <<npages, kern_map>>
        /\ \/ pc \in Early /\ pc' \in Early
           \/ pc' = "panic"
    BY <1>1 DEF Boot!AllocStep, Early
  <2> QED
    BY <2>1, MapKept DEF Boot!MappedOnce
<1>2. CASE Boot!PageInit
  BY <1>2, MapKept DEF Boot!PageInit, Early, Boot!MappedOnce
<1>3. CASE Boot!CheckPages
  <2>1. UNCHANGED <<npages, kern_map>> /\ pc = "check" /\ pc' \in {"UPAGES", "panic"}
    BY <1>3 DEF Boot!CheckPages
  <2> QED
    BY <2>1, MapKept DEF Boot!MappedOnce
<1>4. CASE Boot!MapPages
  BY <1>4, MapPagesStep
<1>5. CASE Boot!MapEnvs
  BY <1>5, MapEnvsStep
<1>6. CASE Boot!MapMemory
  BY <1>6, MapMemoryStep
<1>7. CASE Boot!MemInitMp
  BY <1>7, MemInitMpStep
<1>8. CASE Boot!MmioMapRegion
  BY <1>8, MapMmioStep
<1>9. CASE UNCHANGED Boot!vars
  BY <1>9, MapKept DEF Boot!vars, Boot!MappedOnce
<1> QED
  BY <1>1, <1>2, <1>3, <1>4, <1>5, <1>6, <1>7, <1>8, <1>9 DEF Boot!Next

\* All that is true of mem_init together
BootInv == PagesInv /\ CountInv /\ DevicesInv /\ MapInv

\* The invariant holds at first and after every step, which maps nothing twice.
LEMMA BootInvariant ==
  ASSUME Boot!Geometry, Boot!Roomy
  PROVE  /\ Boot!Init => BootInv
         /\ BootInv /\ [Boot!Next]_(Boot!vars) => BootInv' /\ Boot!MappedOnce
<1>1. Boot!Init => BootInv
  BY PagesInit, CountInit, DevicesInit, MapInit DEF BootInv
<1>2. ASSUME BootInv, [Boot!Next]_(Boot!vars) PROVE BootInv' /\ Boot!MappedOnce
  <2>1. PagesInv /\ ChunksInv /\ CountInv /\ DevicesInv /\ MapInv
    BY <1>2 DEF BootInv, PagesInv
  <2> QED
    BY <1>2, <2>1, PagesNext, CountNext, DevicesNext, MapNext DEF BootInv
<1> QED
  BY <1>1, <1>2

\* Devices get disjoint parts of the MMIO region, whatever they ask for.
THEOREM BootDevicesApart ==
  ASSUME Boot!Geometry
  PROVE  Boot!Spec => []Boot!DevicesApart
<1>1. Boot!Init => DevicesInv
  BY DevicesInit
<1>2. DevicesInv /\ [Boot!Next]_(Boot!vars) => DevicesInv'
  BY DevicesNext
<1>3. DevicesInv => Boot!DevicesApart
  BY DEF DevicesInv, Boot!DevicesApart
<1> QED
  BY <1>1, <1>2, <1>3, PTL DEF Boot!Spec

\* When mem_init is done, the kernel's half of the address space is as
\* inc/memlayout.h draws it, for any sizes that it leaves room for.
THEOREM BootLayoutIsRight ==
  ASSUME Boot!Geometry, Boot!Roomy
  PROVE  Boot!Spec => []Boot!LayoutRight
<1>1. Boot!Init => BootInv
  BY BootInvariant
<1>2. BootInv /\ [Boot!Next]_(Boot!vars) => BootInv'
  BY BootInvariant
<1>3. BootInv => Boot!LayoutRight
  BY DEF BootInv, MapInv, PagesAt, EnvsAt, MemoryAt, StacksAt, NPages, NEnvs, Boot!LayoutRight
<1> QED
  BY <1>1, <1>2, <1>3, PTL DEF Boot!Spec

\* No step of mem_init or of a device driver maps a page over another one.
THEOREM BootMapsOnce ==
  ASSUME Boot!Geometry, Boot!Roomy
  PROVE  Boot!Spec => [][Boot!MappedOnce]_(Boot!vars)
<1>1. Boot!Init => BootInv
  BY BootInvariant
<1>2. BootInv /\ [Boot!Next]_(Boot!vars) => BootInv' /\ Boot!MappedOnce
  BY BootInvariant
<1> QED
  BY <1>1, <1>2, PTL DEF Boot!Spec

=============================================================================
