---------------------------- MODULE FisopFsAllMC ----------------------------
(***************************************************************************)
(* Three uses of a small disk, each on a disk of its own: trees and files  *)
(* until it is full; several files, saved once and loaded; a directory     *)
(* with a file in it, saved twice and loaded in any order.  A behaviour is *)
(* one of them.                                                            *)
(***************************************************************************)
EXTENDS FisopFsMC

CONSTANT a

VARIABLE use

One == {a}
Deep == [1 .. 1 -> One] \cup [1 .. 2 -> One]

\* The constants of FisopFs itself are those of "tree".
Files == INSTANCE FisopFsMC WITH
  BLOCK_AMOUNT <- 6, MAX_DIRECT_BLOCK_COUNT <- 3, Paths <- Short, Lengths <- {5}, Sizes <- {0},
  Saves <- 1
Nested == INSTANCE FisopFsMC WITH
  BLOCK_AMOUNT <- 5, MAX_DIRECT_BLOCK_COUNT <- 3, Paths <- Deep, Lengths <- {5}, Sizes <- {0},
  Saves <- 2

ASSUME GeometryAssumption == Geometry /\ Files!Geometry /\ Nested!Geometry

MCInit ==
  \/ use = "tree" /\ Init
  \/ use = "files" /\ Files!Init
  \/ use = "nested" /\ Nested!Init

MCNext ==
  /\ UNCHANGED use
  /\ \/ use = "tree" /\ Next
     \/ use = "files" /\ Files!Next
     \/ use = "nested" /\ Nested!Next

MCSpec == MCInit /\ [][MCNext]_<<use, vars>>

MCView ==
  <<use, CASE use = "tree" -> View [] use = "files" -> Files!View [] use = "nested" -> Nested!View>>

-----------------------------------------------------------------------------
\* Whatever was refused for want of blocks: no block has two owners, each that is owned
\* is marked, and every inode has the blocks its size needs (BlocksSound of FisopFs).
StorageSound == use = "tree" => BlocksSound

\* The marked inodes are those a path leads to, each by one name, and . and .. lead where
\* they should; only a directory made on a full disk has none (OneTree of FisopFs).
TreeIsSound == use = "tree" => OneTree

\* A write behind the end of a file, when no block lies there, appends all of it or
\* nothing, whatever fails, and changes no other file (AppendIsWhole of FisopFs).
AppendsAllOrNothing == [][use = "tree" => AppendIsWhole]_vars

\* After any history of writes, flushes, mounts and deaths, and whatever longer state file
\* was there before, a load gives the files of the last flush, if that was Loadable
\* (LoadBringsBack of FisopFs).
LoadableComesBack ==
  [][/\ use = "files" => Files!LoadBringsBack
     /\ use = "nested" => Nested!LoadBringsBack]_vars
=============================================================================
