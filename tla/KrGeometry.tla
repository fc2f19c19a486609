----------------------------- MODULE KrGeometry -----------------------------
(***************************************************************************)
(* The geometry of a kr filesystem as the code computes it (balloc.c,      *)
(* super.c of Exercises/Exercise19): which groups have a copy of the       *)
(* superblock, where the group descriptors are, and how large a file may   *)
(* be.  A geometry is a record of fields of the superblock.                *)
(***************************************************************************)
EXTENDS Integers, FiniteSets, FiniteSetsExt

CONSTANT Geometries  \* the filesystems

GeometriesOK ==
  \A g \in Geometries :
    /\ {g.blocks_count, g.first_data_block, g.r_blocks_count, g.first_meta_bg}
         \subseteq Nat
    /\ {g.blocks_per_group, g.desc_per_block, g.itb_per_group} \subseteq Nat \ {0}
    /\ g.blocks_count > g.first_data_block
    /\ {g.sparse_super, g.meta_bg} \subseteq BOOLEAN

s_groups_count(g) ==
  (g.blocks_count - g.first_data_block - 1) \div g.blocks_per_group + 1

\* db_count, the number of blocks of group descriptors.
s_gdb_count(g) == (s_groups_count(g) + g.desc_per_block - 1) \div g.desc_per_block

kr_group_first_block_no(g, group) == group * g.blocks_per_group + g.first_data_block

\* The loop multiplies by b until it is past a; the exponent it stops at is at
\* most RootBound for the numbers of groups in question.
RootBound == 12
test_root(a, b) ==
  LET stop == CHOOSE k \in 1 .. RootBound :
                b ^ k >= a /\ \A j \in 1 .. k - 1 : b ^ j < a
  IN  b ^ stop = a

kr_group_sparse(group) ==
  group <= 1 \/ \E b \in {3, 5, 7} : test_root(group, b)

kr_bg_has_super(g, group) ==
  IF g.sparse_super /\ ~kr_group_sparse(group) THEN 0 ELSE 1

kr_bg_num_gdb(g, group) ==
  IF kr_bg_has_super(g, group) = 1 THEN s_gdb_count(g) ELSE 0

\* The block of descriptor block nr.  The superblock is the first block of the
\* first group (logic_sb_block = s_first_data_block).
descriptor_loc(g, nr) ==
  IF ~g.meta_bg \/ nr < g.first_meta_bg
    THEN g.first_data_block + nr + 1
    ELSE LET bg == g.desc_per_block * nr
         IN  kr_group_first_block_no(g, bg) + kr_bg_has_super(g, bg)

-----------------------------------------------------------------------------
\* kr_max_size.  Blocks of 2^bits bytes hold 2^(bits-2) pointers; all is counted
\* in blocks where the code, at the end, shifts to bytes; MAX_LFS_FILESIZE, a limit of
\* the page cache, is larger than all of these.
NDir == 12
Pointers(bits) == 2 ^ (bits - 2)

\* The blocks of 2^32 - 1 sectors of 512 bytes, a power of two less one.
SectorLimit(bits) == 2 ^ (40 - bits) - 1 + 2 ^ (40 - bits)

AllMetaBlocks(bits) == 3 + 2 * Pointers(bits) + Pointers(bits) ^ 2

kr_max_size(bits) ==
  Min({NDir + Pointers(bits) + Pointers(bits) ^ 2 + Pointers(bits) ^ 3,
       SectorLimit(bits) - AllMetaBlocks(bits)})
==============================================================================
