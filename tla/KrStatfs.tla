------------------------------ MODULE KrStatfs ------------------------------
(***************************************************************************)
(* kr_statfs (super.c of Exercises/Exercise19), which keeps the overhead   *)
(* that it computed last, and the remounts that change how it reports.     *)
(* Each call runs under s_lock and is one step.                            *)
(***************************************************************************)
EXTENDS KrGeometry

CONSTANT Remounts  \* whether minixdf and bsddf are given to remounts

\* The layout below is that of filesystems without meta_bg.
ConstantsOK ==
  Remounts \in BOOLEAN /\ \A g \in Geometries : ~g.meta_bg

VARIABLES
  geo,            \* the filesystem that is mounted
  minix_df,       \* KR_MOUNT_MINIX_DF
  s_overhead_last, s_blocks_last,
  free,           \* sum of bg_free_blocks_count
  buf             \* history: what the last step answered, if it was kr_statfs, or NoAnswer

vars == <<geo, minix_df, s_overhead_last, s_blocks_last, free, buf>>

-----------------------------------------------------------------------------
\* Mutant: every group has its copies.
OverheadAllSupers(g) ==
  g.first_data_block + s_groups_count(g) * (1 + s_gdb_count(g) + 2 + g.itb_per_group)

\* The sum of kr_statfs.
Overhead(g) ==
  LET groups == 0 .. s_groups_count(g) - 1
  IN  g.first_data_block
        + MapThenSumSet(LAMBDA i : kr_bg_has_super(g, i) + kr_bg_num_gdb(g, i), groups)
        + s_groups_count(g) * (2 + g.itb_per_group)

\* What the layout that mkfs writes contains, for reference: each group starts
\* with its copies of the superblock and of the descriptors, and has two bitmaps
\* and a part of the inode table.
SuperBlocks(g) ==
  {kr_group_first_block_no(g, i) :
     i \in {j \in 0 .. s_groups_count(g) - 1 : kr_bg_has_super(g, j) = 1}}
Copies(g) ==
  {b + nr + 1 : b \in SuperBlocks(g), nr \in 0 .. s_gdb_count(g) - 1}
GroupTables(g) ==
  UNION {LET start == kr_group_first_block_no(g, i)
                        + kr_bg_has_super(g, i) * (1 + s_gdb_count(g))
         IN  start .. start + 2 + g.itb_per_group - 1 :
         i \in 0 .. s_groups_count(g) - 1}
Metadata(g) ==
  0 .. g.first_data_block - 1 \cup SuperBlocks(g) \cup Copies(g) \cup GroupTables(g)

NoAnswer == [f_blocks |-> 0, f_bfree |-> 0, f_bavail |-> 0, minix |-> TRUE]

TypeOK ==
  /\ geo \in Geometries /\ minix_df \in BOOLEAN
  /\ s_overhead_last \in 0 .. geo.blocks_count
  /\ s_blocks_last \in {0, geo.blocks_count}
  /\ free \in 0 .. geo.blocks_count
  /\ {buf.f_blocks, buf.f_bfree, buf.f_bavail} \subseteq 0 .. geo.blocks_count

\* kr_fill_super allocates a zeroed kr_sb_info and parses the options.
Init ==
  /\ geo \in Geometries /\ minix_df \in BOOLEAN
  /\ s_overhead_last = 0 /\ s_blocks_last = 0
  /\ free = geo.blocks_count - Cardinality(Metadata(geo))
  /\ buf = NoAnswer

\* The block allocator, between two calls.
Allocate(n) ==
  /\ free' = n /\ n # free
  /\ buf' = NoAnswer
  /\ UNCHANGED <<geo, minix_df, s_overhead_last, s_blocks_last>>

Available == IF free < geo.r_blocks_count THEN 0 ELSE free - geo.r_blocks_count

\* The overhead is computed when the number of blocks is not that of the last time.
Refresh ==
  IF minix_df
    THEN s_overhead_last' = 0 /\ UNCHANGED s_blocks_last
    ELSE IF s_blocks_last # geo.blocks_count
    THEN s_overhead_last' = Overhead(geo) /\ s_blocks_last' = geo.blocks_count
    ELSE UNCHANGED <<s_overhead_last, s_blocks_last>>

kr_statfs ==
  /\ Refresh
  /\ buf' = [f_blocks |-> geo.blocks_count - s_overhead_last',
             f_bfree |-> free, f_bavail |-> Available, minix |-> minix_df]
  /\ UNCHANGED <<geo, minix_df, free>>

\* kr_remount with bsddf or minixdf: parse_options changes the bit and nothing else.
kr_remount ==
  /\ Remounts
  /\ minix_df' = ~minix_df
  /\ buf' = NoAnswer
  /\ UNCHANGED <<geo, s_overhead_last, s_blocks_last, free>>

Next ==
  \/ \E n \in 0 .. geo.blocks_count - Cardinality(Metadata(geo)) : Allocate(n)
  \/ kr_statfs \/ kr_remount

Spec == Init /\ [][Next]_vars

-----------------------------------------------------------------------------
\* df reports the blocks that files can have: what the layout leaves of the
\* filesystem, or all of it as Minix does.
SizeIsRight ==
  buf # NoAnswer =>
    buf.f_blocks = geo.blocks_count
                     - (IF buf.minix THEN 0 ELSE Cardinality(Metadata(geo)))

\* df never reports more free blocks than blocks, nor more for users than for root.
NeverMoreFree == buf.f_bavail <= buf.f_bfree /\ buf.f_bfree <= buf.f_blocks
==============================================================================
