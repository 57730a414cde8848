------------------------------ MODULE FisopFs ------------------------------
(***************************************************************************)
(* The file system of tp3-filesystem (fs.c, fisopfs.c): two bitmaps, a     *)
(* table of inodes and an array of blocks, behind the FUSE operations that *)
(* make, remove, write and truncate files, and behind the state file that  *)
(* is written at every flush and when the file system is unmounted, and    *)
(* read when it is mounted again.                                          *)
(*                                                                         *)
(* A block holds BLOCK_SIZE units; a unit is a piece of a file, a          *)
(* directory entry, or a block number of an indirect block.  (In the code  *)
(* a directory entry is 264 bytes and does not divide a block: directories *)
(* of more than 124 entries are left out.)  The state file is a sequence   *)
(* of cells: the inode bitmap, and for each inode its struct and the units *)
(* of its data.  (In the code a struct and a unit have other lengths; what *)
(* an inode read from the middle of either may be is Garbage.)  One        *)
(* operation is one step: threads of FUSE that enter together are left     *)
(* out.                                                                    *)
(***************************************************************************)
EXTENDS Integers, Sequences, FiniteSets, SequencesExt, FiniteSetsExt

CONSTANTS
  Names,                        \* of files
  Data,                         \* what a unit of a file may be
  INODE_AMOUNT, BLOCK_AMOUNT,   \* fs.c
  BLOCK_SIZE, KiB,              \* fs.h, in units
  MAX_DIRECT_BLOCK_COUNT,       \* fs.h
  Paths,                        \* bound: of files, a sequence of names each
  Lengths,                      \* bound: what programs write, in units
  Sizes,                        \* bound: what programs truncate to
  GarbageSizes,                 \* bound: the size of an inode read out of step
  Saves,                        \* bound: how often the state file is written; after the
                                \* last time it is only loaded
  Onward                        \* bound: whether the model goes on when a state file was
                                \* read, or there is a directory without . and ..

\* What the code takes for granted of these.
Geometry ==
  /\ {BLOCK_AMOUNT, BLOCK_SIZE, KiB, MAX_DIRECT_BLOCK_COUNT} \subseteq Nat \ {0}
  /\ INODE_AMOUNT \in 3 .. BLOCK_AMOUNT
  /\ Onward \in BOOLEAN
  /\ Paths \subseteq Seq(Names) \ {<<>>} /\ Lengths \subseteq Nat \ {0} /\ Sizes \subseteq Nat
  /\ GarbageSizes \subseteq Nat /\ Saves \in Nat

VARIABLES
  fs,         \* blocks[]: the bitmaps, the inodes and the data blocks
  image,      \* fs_state.fisopfs, cell by cell; empty when there is no such file
  remounted,  \* whether fs comes from the state file
  saved,      \* history: fs when the state file was last written
  saves       \* bound: how often it was written

vars == <<fs, image, remounted, saved, saves>>

ROOT_INODE == 1

Inodes == 0 .. INODE_AMOUNT - 1

Blocks == 0 .. BLOCK_AMOUNT - 1

MAX_BLOCK_COUNT == MAX_DIRECT_BLOCK_COUNT + BLOCK_SIZE

\* Index of the indirect block in inode->blocks.
INDIRECT == MAX_DIRECT_BLOCK_COUNT

None == -1

\* Units
Zero == <<"zero">>
Stack == <<"stack">>              \* read past the end of a local buffer
File(d) == <<"file", d>>
Dentry(n, name) == <<"dentry", n, name>>
Pointer(b) == <<"block", b>>
Raw == <<"raw">>                  \* a struct inode_t or a bitmap read as data

IsDentry(u) == u[1] = "dentry"

-----------------------------------------------------------------------------
(* Blocks: operators on s, a state of fs, and i, the number of an inode *)

\* get_inode_block_n; an indirect block that was never written reads as zeros
BlockN(s, i, n) ==
  IF n < INDIRECT THEN s.inodes[i].blocks[n]
  ELSE LET u == s.content[s.inodes[i].blocks[INDIRECT]][n - INDIRECT]
       IN IF u[1] = "block" THEN u[2] ELSE 0

\* get_inode_block
InodeBlock(s, i, n) ==
  IF s.inodes[i].block_amount <= n THEN None ELSE BlockN(s, i, n)

\* search_free_block
FreeBlock(bitmap) == IF Blocks \subseteq bitmap THEN None ELSE Min(Blocks \ bitmap)

\* Mutant of AllocateNewBlock: ENOSPC of search_free_block goes unnoticed.
AllocateUnchecked(s, i) ==
  LET n == s.inodes[i].block_amount
      b == FreeBlock(s.data_bitmap)
  IN IF n >= INDIRECT THEN [fs |-> s, block |-> None]
     ELSE [fs |-> [s EXCEPT !.data_bitmap = @ \cup {b},
                            !.inodes[i].block_amount = n + 1,
                            !.inodes[i].blocks[n] = b], block |-> b]

\* Mutant of AllocateNewBlock: no block is given back when there is none for the
\* indirect one.
AllocateLeaky(s, i) ==
  LET n == s.inodes[i].block_amount
      b == FreeBlock(s.data_bitmap)
      marked == [s EXCEPT !.data_bitmap = @ \cup {b}]
  IN IF n >= INDIRECT \/ b = None
       THEN [fs |-> IF b = None THEN s ELSE marked, block |-> None]
       ELSE [fs |-> [marked EXCEPT !.inodes[i].block_amount = n + 1,
                                   !.inodes[i].blocks[n] = b], block |-> b]

\* allocate_new_block: the first free block, and another one for the block numbers
\* when the direct ones are used up
AllocateNewBlock(s, i) ==
  LET n == s.inodes[i].block_amount
      b == FreeBlock(s.data_bitmap)
      indirect == IF n = INDIRECT THEN FreeBlock(s.data_bitmap \cup {b})
                  ELSE s.inodes[i].blocks[INDIRECT]
      grown == [s EXCEPT !.data_bitmap = @ \cup {b}, !.inodes[i].block_amount = n + 1]
  IN IF n >= MAX_BLOCK_COUNT \/ b = None \/ (n = INDIRECT /\ indirect = None)
       THEN [fs |-> s, block |-> None]
     ELSE IF n < INDIRECT
       THEN [fs |-> [grown EXCEPT !.inodes[i].blocks[n] = b], block |-> b]
     ELSE [fs |-> [grown EXCEPT
                     !.data_bitmap = IF n = INDIRECT THEN @ \cup {indirect} ELSE @,
                     !.inodes[i].blocks[INDIRECT] = indirect,
                     !.content[indirect][n - INDIRECT] = Pointer(b)],
           block |-> b]

\* deallocate_blocks_from_inode: not the indirect block
DeallocateBlocks(s, i, n) ==
  [s EXCEPT !.data_bitmap = @ \ {BlockN(s, i, k) : k \in n .. s.inodes[i].block_amount - 1},
            !.inodes[i].block_amount = IF @ > n THEN n ELSE @]

-----------------------------------------------------------------------------
(* Reading and writing *)

\* calc_last_block_idx
LastBlock(offset, size) ==
  (offset \div BLOCK_SIZE) + (size \div BLOCK_SIZE)
    + (IF (size % BLOCK_SIZE) + (offset % BLOCK_SIZE) >= BLOCK_SIZE THEN 1 ELSE 0)

\* One turn of the loop of fiuba_write.  At the end of a block it goes on in a new
\* one, whether or not the inode has a next one.
WriteUnit(i, at, u) ==
  IF at.block = None THEN at
  ELSE LET written == [at.fs EXCEPT !.content[at.block][at.offset] = u]
           next == AllocateNewBlock(written, i)
       IN IF at.offset + 1 >= BLOCK_SIZE
            THEN [fs |-> next.fs, block |-> next.block, offset |-> 0]
            ELSE [at EXCEPT !.fs = written, !.offset = @ + 1]

\* Mutant of FiubaWrite: a write cut short by ENOSPC is counted in the size.
WriteCounted(s, i, units, offset) ==
  LET b == InodeBlock(s, i, offset \div BLOCK_SIZE)
      first == IF b = None THEN AllocateNewBlock(s, i) ELSE [fs |-> s, block |-> b]
      start == [fs |-> first.fs, block |-> first.block, offset |-> offset % BLOCK_SIZE]
      end == FoldLeft(LAMBDA at, u : WriteUnit(i, at, u), start, units)
  IN IF LastBlock(offset, Len(units)) >= MAX_BLOCK_COUNT \/ first.block = None
       THEN [fs |-> s, ok |-> FALSE]
       ELSE [fs |-> [end.fs EXCEPT !.inodes[i].size = offset + Len(units)], ok |-> TRUE]

\* fiuba_write: when it fails for want of blocks, those it got stay with the inode
FiubaWrite(s, i, units, offset) ==
  LET b == InodeBlock(s, i, offset \div BLOCK_SIZE)
      first == IF b = None THEN AllocateNewBlock(s, i) ELSE [fs |-> s, block |-> b]
      start == [fs |-> first.fs, block |-> first.block, offset |-> offset % BLOCK_SIZE]
      end == FoldLeft(LAMBDA at, u : WriteUnit(i, at, u), start, units)
  IN IF \/ s.inodes[i].size < offset
        \/ LastBlock(offset, Len(units)) >= MAX_BLOCK_COUNT
       THEN [fs |-> s, ok |-> FALSE]
     ELSE IF end.block = None THEN [fs |-> end.fs, ok |-> FALSE]
     ELSE [fs |-> [end.fs EXCEPT !.inodes[i].size = offset + Len(units)], ok |-> TRUE]

\* fill_with_null_bytes: each turn writes all that is left, from a buffer of KiB.
FillWithNullBytes(s, i, size) ==
  LET total == size - s.inodes[i].size
      turns == (total + KiB - 1) \div KiB
      Nulls(n) == [k \in 1 .. n |-> IF k <= KiB THEN Zero ELSE Stack]
      Turn(at, t) ==
        IF at.ok THEN FiubaWrite(at.fs, i, Nulls(total - (t - 1) * KiB), at.fs.inodes[i].size)
        ELSE at
  IN FoldLeft(Turn, [fs |-> s, ok |-> TRUE], [t \in 1 .. turns |-> t]).fs

\* truncate_inode
TruncateInode(s, i, size) ==
  IF s.inodes[i].size < size THEN FillWithNullBytes(s, i, size)
  ELSE [DeallocateBlocks(s, i, (size + BLOCK_SIZE - 1) \div BLOCK_SIZE)
          EXCEPT !.inodes[i].size = size]

\* Unit p of inode i, where its block list says it is.
Unit(s, i, p) == s.content[BlockN(s, i, p \div BLOCK_SIZE)][p % BLOCK_SIZE]

Content(s, i) == [p \in 1 .. s.inodes[i].size |-> Unit(s, i, p - 1)]

-----------------------------------------------------------------------------
(* Directories *)

\* Positions of the entries of directory d that iterate_over_dir visits, for which P.
Entries(s, d, P(_)) ==
  {p \in 0 .. s.inodes[d].size - 1 : IsDentry(Unit(s, d, p)) /\ P(Unit(s, d, p))}

\* search_dir_inode_n; 0 when there is none
SearchDir(s, d, name) ==
  LET ps == Entries(s, d, LAMBDA u : u[2] # 0 /\ u[3] = name)
  IN IF ps = {} THEN 0 ELSE Unit(s, d, Min(ps))[2]

\* search_inode: only a directory leads on; 0 stands for an error
Lookup(s, path) ==
  LET Step(d, name) ==
        IF d = 0 \/ s.inodes[d].type # "dir" THEN 0 ELSE SearchDir(s, d, name)
  IN FoldLeft(Step, ROOT_INODE, path)

\* Entry p of d becomes u.
SetEntry(s, d, p, u) ==
  [s EXCEPT !.content[BlockN(s, d, p \div BLOCK_SIZE)][p % BLOCK_SIZE] = u]

\* init_data_blocks_dir, whose result nobody looks at
InitDir(s, d, dotdot) ==
  FiubaWrite(s, d, <<Dentry(d, "."), Dentry(dotdot, "..")>>, s.inodes[d].size).fs

\* init_inode; the old block numbers stay
InitInode(s, i, type) ==
  [s EXCEPT !.inodes[i].type = type, !.inodes[i].size = 0, !.inodes[i].block_amount = 0]

\* add_inode_to_directory: into the first free entry, or behind the last one
AddToDirectory(s, d, i, name) ==
  LET free == Entries(s, d, LAMBDA u : u[2] = 0)
  IN IF free # {} THEN [fs |-> SetEntry(s, d, Min(free), Dentry(i, name)), ok |-> TRUE]
     ELSE FiubaWrite(s, d, <<Dentry(i, name)>>, s.inodes[d].size)

\* Mutant of NewInode: the inode stays marked when its directory is full.
NewInodeKept(s, d, name, type) ==
  LET free == {i \in Inodes : i > ROOT_INODE /\ i \notin s.inode_bitmap}
      i == Min(free)
      marked == [InitInode(s, i, type) EXCEPT !.inode_bitmap = @ \cup {i}]
      added == AddToDirectory(marked, d, i, name)
  IN IF free = {} THEN s
     ELSE IF ~added.ok THEN added.fs
     ELSE IF type = "dir" THEN InitDir(added.fs, i, d)
     ELSE added.fs

\* new_inode
NewInode(s, d, name, type) ==
  LET free == {i \in Inodes : i > ROOT_INODE /\ i \notin s.inode_bitmap}
      i == Min(free)
      marked == [InitInode(s, i, type) EXCEPT !.inode_bitmap = @ \cup {i}]
      added == AddToDirectory(marked, d, i, name)
  IN IF free = {} THEN s
     ELSE IF ~added.ok THEN [added.fs EXCEPT !.inode_bitmap = @ \ {i}]
     ELSE IF type = "dir" THEN InitDir(added.fs, i, d)
     ELSE added.fs

\* dir_is_empty
DirIsEmpty(s, d) ==
  \/ s.inodes[d].size = 2
  \/ Entries(s, d, LAMBDA u : u[2] # 0 /\ u[3] \notin {".", ".."}) = {}

\* fiuba_rmv_inode; nothing adds a second link, so the first unlink frees the inode
RemoveInode(s, d, name, i) ==
  LET p == Min(Entries(s, d, LAMBDA u : u[2] # 0 /\ u[3] = name))
      freed == DeallocateBlocks(SetEntry(s, d, p, Dentry(0, name)), i, 0)
  IN [freed EXCEPT !.inode_bitmap = @ \ {i}]

-----------------------------------------------------------------------------
(* The state file *)

\* blocks[] before anything is written to it
Blank ==
  [inode_bitmap |-> {}, data_bitmap |-> {},
   inodes |-> [i \in Inodes |-> [type |-> "none", size |-> 0, block_amount |-> 0,
                                 blocks |-> [k \in 0 .. INDIRECT |-> 0]]],
   content |-> [b \in Blocks |-> [k \in 0 .. BLOCK_SIZE - 1 |-> Zero]]]

\* init_fs on blocks that hold s
InitFs(s) ==
  LET empty == [s EXCEPT !.inode_bitmap = {0, ROOT_INODE}, !.data_bitmap = {}]
  IN InitDir(InitInode(empty, ROOT_INODE, "dir"), ROOT_INODE, ROOT_INODE)

Bitmap(inodes) == <<"bitmap", inodes>>
Struct(inode) == <<"inode", inode>>

\* Mutant of SerializeInode: nothing at all for an inode that is not marked.
SerializeSparse(s, i) ==
  LET stored == Min({s.inodes[i].size, BLOCK_SIZE * s.inodes[i].block_amount})
  IN IF i \in s.inode_bitmap
       THEN <<Struct(s.inodes[i])>> \o [p \in 1 .. stored |-> Unit(s, i, p - 1)]
       ELSE <<>>

\* serialize_inode: no data for an inode that is not marked, whatever its size, nor for
\* a block that an inode does not have, for write from NULL fails and its result is
\* taken for a length.
SerializeInode(s, i) ==
  LET stored == Min({s.inodes[i].size, BLOCK_SIZE * s.inodes[i].block_amount})
  IN <<Struct(s.inodes[i])>>
       \o (IF i \in s.inode_bitmap THEN [p \in 1 .. stored |-> Unit(s, i, p - 1)] ELSE <<>>)

\* serialize
Serialize(s) ==
  FoldLeft(LAMBDA file, n : file \o SerializeInode(s, n - 1), <<Bitmap(s.inode_bitmap)>>,
           [n \in 1 .. INODE_AMOUNT |-> n])

\* Mutant of Persist: the file is opened with O_APPEND.
PersistAppending(file, s) == file \o Serialize(s)

\* persist opens the file without O_TRUNC: of a longer one the rest stays.
Persist(file, s) ==
  LET cells == Serialize(s) IN cells \o SubSeq(file, Len(cells) + 1, Len(file))

\* What an inode may be that is read from a cell where there is none (bound: one for
\* all such inodes of a load).
Garbage ==
  [type : {"reg"}, size : GarbageSizes, block_amount : {0},
   blocks : {[k \in 0 .. INDIRECT |-> 0]}]

InodeIn(cell, garbage) == IF cell[1] = "inode" THEN cell[2] ELSE garbage

UnitIn(cell) == IF cell[1] \in {"inode", "bitmap"} THEN Raw ELSE cell

\* One turn of the loop of deserialize_inode: a block's worth of the size that was read
\* is written where the old block numbers lead; nobody looks at what fiuba_write says.
LoadChunk(at, i, size, c) ==
  LET n == Min({BLOCK_SIZE, size - (c - 1) * BLOCK_SIZE})
      units == [k \in 1 .. n |-> UnitIn(at.file[k])]
  IN IF ~at.ok \/ Len(at.file) < n THEN [at EXCEPT !.ok = FALSE]
     ELSE [at EXCEPT !.fs = FiubaWrite(@, i, units, (c - 1) * BLOCK_SIZE).fs,
                     !.file = SubSeq(@, n + 1, Len(@))]

\* deserialize_inode
LoadInode(at, i, garbage) ==
  LET inode == InodeIn(Head(at.file), garbage)
      chunks == (inode.size + BLOCK_SIZE - 1) \div BLOCK_SIZE
      read == [at EXCEPT !.fs.inodes[i] = inode, !.file = Tail(@)]
  IN IF ~at.ok \/ at.file = <<>> THEN [at EXCEPT !.ok = FALSE]
     ELSE FoldLeft(LAMBDA t, c : LoadChunk(t, i, inode.size, c), read,
                   [c \in 1 .. chunks |-> c])

\* deserialize: the inode bitmap is read to where it would be if there were no data
\* blocks, for INODE_BITMAP was taken before the superblock: over the data bitmap.
Deserialize(file, garbage) ==
  FoldLeft(LAMBDA at, n : LoadInode(at, n - 1, garbage),
           [fs |-> [Blank EXCEPT !.data_bitmap = Head(file)[2]], file |-> Tail(file), ok |-> TRUE],
           [n \in 1 .. INODE_AMOUNT |-> n])

\* load_persist, and init_fs on what it has loaded so far when it fails
Mount(file, garbage) ==
  IF file = <<>> THEN [fs |-> InitFs(Blank), ok |-> FALSE]
  ELSE LET at == Deserialize(file, garbage)
       IN [fs |-> IF at.ok THEN at.fs ELSE InitFs(at.fs), ok |-> at.ok]

-----------------------------------------------------------------------------
(* The operations of FUSE *)

Parent(path) == Lookup(fs, Front(path))

\* The kernel looks every directory of a path up before it passes the path on.
Asked(path) == LET d == Parent(path) IN d # 0 /\ fs.inodes[d].type = "dir"

\* The inodes that a path leads to, and how many entries lead to each.
Linked(s) == {ROOT_INODE} \cup ({Lookup(s, path) : path \in Paths} \ {0})

fisopfs_mknod(path, type) ==
  /\ Asked(path) /\ Lookup(fs, path) = 0
  /\ fs' = NewInode(fs, Parent(path), Last(path), type)
  /\ UNCHANGED <<image, remounted, saved, saves>>

fisopfs_unlink(path) ==
  LET i == Lookup(fs, path) IN
  /\ Asked(path) /\ i # 0 /\ fs.inodes[i].type # "dir"
  /\ fs' = RemoveInode(fs, Parent(path), Last(path), i)
  /\ UNCHANGED <<image, remounted, saved, saves>>

fisopfs_rmdir(path) ==
  LET i == Lookup(fs, path) IN
  /\ Asked(path) /\ i # 0 /\ fs.inodes[i].type = "dir" /\ DirIsEmpty(fs, i)
  /\ fs' = RemoveInode(fs, Parent(path), Last(path), i)
  /\ UNCHANGED <<image, remounted, saved, saves>>

\* The kernel does not truncate directories.
fisopfs_truncate(path, size) ==
  LET i == Lookup(fs, path) IN
  /\ Asked(path) /\ i # 0 /\ fs.inodes[i].type # "dir"
  /\ fs' = TruncateInode(fs, i, size)
  /\ UNCHANGED <<image, remounted, saved, saves>>

fisopfs_write(path, units, offset) ==
  LET i == Lookup(fs, path) IN
  /\ Asked(path) /\ i # 0 /\ fs.inodes[i].type # "dir"
  /\ fs' = FiubaWrite(fs, i, units, offset).fs
  /\ UNCHANGED <<image, remounted, saved, saves>>

Save ==
  /\ saves < Saves
  /\ image' = Persist(image, fs) /\ saved' = fs /\ saves' = saves + 1

\* The blocks of a new process are blank when fisopfs_init loads the state file.
fisopfs_init ==
  \E garbage \in Garbage :
    LET mounted == Mount(image', garbage)
    IN fs' = mounted.fs /\ remounted' = mounted.ok

\* Every close of a file writes the state file.
fisopfs_flush == Save /\ UNCHANGED <<fs, remounted>>

\* fisopfs_destroy, and fisopfs_init in the process of the next mount
Remount == Save /\ fisopfs_init

\* The process dies, and the next one finds what was last flushed.
Crash == UNCHANGED <<image, saved, saves>> /\ fisopfs_init

Init ==
  /\ fs = InitFs(Blank) /\ image = <<>> /\ remounted = FALSE
  /\ saved = fs /\ saves = 0

\* The blocks inode i owns, as often as it does.
Owned(s, i) ==
  {<<i, n, BlockN(s, i, n)>> : n \in 0 .. s.inodes[i].block_amount - 1}
    \cup (IF s.inodes[i].block_amount > INDIRECT
            THEN {<<i, None, s.inodes[i].blocks[INDIRECT]>>} ELSE {})

AllOwned == UNION {Owned(fs, i) : i \in Linked(fs)}

OwnedOnce ==
  LET owned == AllOwned IN Cardinality({x[3] : x \in owned}) = Cardinality(owned)

\* The directory entries that lead to inode i, but for . and ..
Links(i) ==
  UNION {{<<d, p>> : p \in Entries(fs, d, LAMBDA u : u[2] = i /\ u[3] \in Names)} :
         d \in {d \in Linked(fs) : fs.inodes[d].type = "dir"}}

OneName == \A i \in Linked(fs) \ {ROOT_INODE} : Cardinality(Links(i)) = 1

\* Directory i has . and ..
Whole(i) == SearchDir(fs, i, ".") = i /\ SearchDir(fs, i, "..") # 0

AllWhole == \A i \in Linked(fs) : fs.inodes[i].type = "dir" => Whole(i)

\* Where the model goes on.  Once two files share a block or an inode directories may
\* hold anything, so it ends there.
Sound ==
  /\ OwnedOnce /\ OneName
  /\ Onward \/ (~remounted /\ AllWhole)

Next ==
  /\ Sound
  /\ \/ /\ Saves = 0 \/ saves < Saves
        /\ \/ \E path \in Paths : fisopfs_unlink(path) \/ fisopfs_rmdir(path)
           \/ \E path \in Paths, type \in {"reg", "dir"} : fisopfs_mknod(path, type)
           \/ \E path \in Paths, size \in Sizes : fisopfs_truncate(path, size)
           \/ \E path \in Paths, n \in Lengths, d \in Data, append \in BOOLEAN :
                fisopfs_write(path, [k \in 1 .. n |-> File(d)],
                              IF append THEN fs.inodes[Lookup(fs, path)].size ELSE 0)
     \/ fisopfs_flush \/ Remount \/ Crash

Spec == Init /\ [][Next]_vars

-----------------------------------------------------------------------------
Units ==
  {Zero, Stack, Raw} \cup {File(d) : d \in Data} \cup {Pointer(b) : b \in Blocks}
    \cup {Dentry(i, name) : i \in Inodes, name \in Names \cup {".", ".."}}

States ==
  [inode_bitmap : SUBSET Inodes, data_bitmap : SUBSET Blocks,
   inodes : [Inodes -> [type : {"none", "reg", "dir"}, size : 0 .. MAX_BLOCK_COUNT * BLOCK_SIZE,
                        block_amount : 0 .. MAX_BLOCK_COUNT, blocks : [0 .. INDIRECT -> Blocks]]],
   content : [Blocks -> [0 .. BLOCK_SIZE - 1 -> Units]]]

\* The type invariant.
TypeOK ==
  /\ {fs, saved} \subseteq States
  /\ remounted \in BOOLEAN /\ saves \in 0 .. Saves
  /\ \A k \in DOMAIN image : image[k][1] \notin {"inode", "bitmap"} => image[k] \in Units

BlocksAreOwned ==
  ~remounted =>
    LET owned == {x[3] : x \in AllOwned} IN
    /\ OwnedOnce
    /\ owned \subseteq fs.data_bitmap
    /\ \A b \in fs.data_bitmap \ owned : fs.content[b][0][1] = "block"

SizeIsCovered ==
  ~remounted => \A i \in Linked(fs) : fs.inodes[i].size <= BLOCK_SIZE * fs.inodes[i].block_amount

\* Whatever was refused for want of blocks: while fs does not come from a state file no
\* block has two owners, every owned block is marked, those marked beyond that were
\* indirect blocks, and every inode has the blocks its size needs.
BlocksSound == TypeOK /\ BlocksAreOwned /\ SizeIsCovered

\* While fs does not come from a state file: the marked inodes are those a path leads
\* to, each by one name, and every directory has a . that leads to it and a .. that leads
\* to where its name is; only one made when the last block was taken has no entries,
\* though "Todo directorio, tendra al menos . y .." (README.md).
OneTree ==
  ~remounted =>
    /\ fs.inode_bitmap = {0} \cup Linked(fs)
    /\ OneName
    /\ \A i \in Linked(fs) : \A e \in Links(i) :
         fs.inodes[i].type = "dir" =>
           \/ SearchDir(fs, i, ".") = i /\ SearchDir(fs, i, "..") = e[1]
           \/ fs.inodes[i].size = 0 /\ Blocks \subseteq fs.data_bitmap

\* No block of i lies behind the one its size ends in: writing over a longer file, or
\* a write that failed, leaves such blocks, and fiuba_write goes on behind them.
Tight(i) == fs.inodes[i].block_amount <= (fs.inodes[i].size \div BLOCK_SIZE) + 1

\* A write behind the end of a file, when no block lies there, appends all of it or
\* nothing, whatever fails, and changes no other file; until a remount.
AppendIsWhole ==
  ~remounted' =>
    \A i \in Linked(fs), n \in Lengths, d \in Data :
      LET units == [k \in 1 .. n |-> File(d)] IN
      /\ fs.inodes[i].type # "dir" /\ Tight(i)
      /\ fs' = FiubaWrite(fs, i, units, fs.inodes[i].size).fs
      => /\ Content(fs', i) \in {Content(fs, i), Content(fs, i) \o units}
         /\ \A j \in Linked(fs) \ {i} : Content(fs', j) = Content(fs, j)

\* The same tree with the same files.
SameFiles(s, t) ==
  /\ Linked(s) = Linked(t)
  /\ \A i \in Linked(s) : s.inodes[i].type = t.inodes[i].type /\ Content(s, i) = Content(t, i)

Load == Remount \/ Crash

\* How many blocks a load takes from the free ones: one at the end of every full block.
Taken(inode) == inode.size \div BLOCK_SIZE

\* The states that a load does not spoil: no removed inode keeps a size, no inode comes to
\* its indirect block by the blocks a load adds, and there are enough of those.
Loadable(s) ==
  /\ \A i \in Inodes \ s.inode_bitmap : s.inodes[i].size = 0
  /\ \A i \in s.inode_bitmap :
       s.inodes[i].block_amount + Taken(s.inodes[i]) <= MAX_DIRECT_BLOCK_COUNT
  /\ FoldSet(LAMBDA i, sum : sum + Taken(s.inodes[i]), Cardinality(s.inode_bitmap), s.inode_bitmap)
       <= BLOCK_AMOUNT

\* After any history of writes, flushes, mounts and deaths, and whatever longer state file
\* was there before: a load gives the files of the last flush, if that was Loadable.
LoadBringsBack == Load /\ image' # <<>> /\ Loadable(saved') => SameFiles(saved', fs')

\* "En esta instancia no estan implementados los links" (README.md): no inode is
\* given to two files.
NoInodeTwice == OneName
=============================================================================
