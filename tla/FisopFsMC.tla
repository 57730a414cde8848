----------------------------- MODULE FisopFsMC -----------------------------
\* Small file systems for TLC.
EXTENDS FisopFs, TLC

Symmetry == Permutations(Names) \cup Permutations(Data)

\* Paths of one name, and of one or two
Short == [1 .. 1 -> Names]
Long == Short \cup [1 .. 2 -> Names]

\* What the code may still read of s: not what lies in blocks that are neither marked nor
\* owned, nor the block numbers behind the last block of an inode.
Live(s) ==
  LET inUse == s.data_bitmap \cup {x[3] : x \in UNION {Owned(s, i) : i \in Inodes}}
  IN [s EXCEPT
        !.content = [b \in Blocks |-> IF b \in inUse THEN s.content[b] ELSE <<>>],
        !.inodes = [i \in Inodes |->
          [s.inodes[i] EXCEPT
             !.blocks = [k \in 0 .. INDIRECT |->
                           IF k < s.inodes[i].block_amount THEN s.inodes[i].blocks[k] ELSE None]]]]

View == <<Live(fs), image, remounted, Live(saved), saves>>
=============================================================================
