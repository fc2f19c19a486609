-------------------------------- MODULE MCKrDisk --------------------------------
(***************************************************************************)
(* The superblock and the inodes for TLC: a behaviour is one of one part,  *)
(* and the variables of the others keep their initial values.              *)
(*   "continue", "ro", "panic"  KrSuper, under each error policy           *)
(*   "fill"                     KrFillSuper                                *)
(*   "statfs", "df"             KrStatfs, with remounts that change what   *)
(*                              is reported, and without                   *)
(*   "geometry"                 KrGeometry: a walk through the groups of   *)
(*                              each filesystem and the numbers of one     *)
(*   "slot", "uid16"            KrInode; mounted with nouid32, and with    *)
(*                              generations that are set                   *)
(*   "group"                    the choice of a group by KrIalloc, one     *)
(*                              call at a time, with both policies and     *)
(*                              counters that are far off                  *)
(*   "full"                     KrBalloc, one call at a time, with windows *)
(*                              of up to three blocks                      *)
(*   "path"                     KrBlockPath over every block number of the *)
(*                              files that indirect blocks of 4 and 8      *)
(*                              pointers can map, and one beyond each end  *)
(***************************************************************************)
EXTENDS KrSuper, Integers, Sequences, FiniteSets, FiniteSetsExt

CONSTANTS
    MaxDescBlocks,   \* bound: descriptor blocks of a mount
    MaxGroups,       \* bound: groups of a filesystem
    MaxNumber,       \* bound: numbers that test_root is asked about
    GroupCounts,     \* numbers of groups of the filesystems of KrStatfs
    BlockBits,            \* s_blocksize_bits: real values, 10 to 12
    Uids, Sizes, Devs, MaxFiles,   \* of KrInode
    t1, file1, file2, RsvHead

VARIABLES
    part,
    pc, ptr, s_fs_info, db_count, i, twice,
    geo, minix_df, s_overhead_last, s_blocks_last, free, buf,
    group, bits, i_block,
    mem, dirty, raw, features, next_gen, file, files, handles, answer,
    bitmap, bg_free, bg_dirs, debts, freeinodes, dirs, live, isdir, cached, lost,
    charged, fs_error, task_pc, fr, calls,
    blk_bitmap, blk_free, freeblocks, quota, owned, blk_lost, rsv, tree, info, blk_error,
    bug, file_pc, af, ff, file_calls

superVars == <<disk, es, esDirty, state, mnt, still, frozen, adm, err, pending, orphans,
               broken, met, damaged, crashed>>
fillVars == <<pc, ptr, s_fs_info, db_count, i, twice>>
dfVars == <<geo, minix_df, s_overhead_last, s_blocks_last, free, buf>>
walkVars == <<group, bits, i_block>>
slotVars == <<mem, dirty, raw, features, next_gen, file, files, handles, answer>>
groupVars == <<bitmap, bg_free, bg_dirs, debts, freeinodes, dirs, live, isdir, cached, lost,
               charged, fs_error, task_pc, fr, calls>>
fullVars == <<blk_bitmap, blk_free, freeblocks, quota, owned, blk_lost, rsv, tree, info,
              blk_error, bug, file_pc, af, ff, file_calls>>

\* errors=remount-ro with remounts that succeed, and errors=panic.
ReadOnly == INSTANCE KrSuper WITH Policy <- "ro", RemountFails <- FALSE
Panics == INSTANCE KrSuper WITH Policy <- "panic"

Fill == INSTANCE KrFillSuper

\* Groups of 16 blocks, the last one full or short; blocks of 2 or 4 descriptors.
Geometries ==
    {[blocks_count |-> first + 16 * (n - 1) + last, first_data_block |-> first,
      r_blocks_count |-> 0, first_meta_bg |-> fmb, blocks_per_group |-> 16,
      desc_per_block |-> dpb, itb_per_group |-> 1, sparse_super |-> sp, meta_bg |-> mb] :
       first \in {0, 1}, n \in 1 .. MaxGroups, last \in {11, 16}, dpb \in {2, 4},
       sp \in BOOLEAN, mb \in BOOLEAN, fmb \in {0, 1}}
Geometry == INSTANCE KrGeometry

\* The same without meta_bg and with blocks reserved for root.
Layouts ==
    {[blocks_count |-> first + 16 * (n - 1) + last, first_data_block |-> first,
      r_blocks_count |-> 2, first_meta_bg |-> 0, blocks_per_group |-> 16,
      desc_per_block |-> 2, itb_per_group |-> 2, sparse_super |-> sp, meta_bg |-> FALSE] :
       first \in {0, 1}, n \in GroupCounts, last \in {11, 16}, sp \in BOOLEAN}
Statfs == INSTANCE KrStatfs WITH Geometries <- Layouts, Remounts <- TRUE
Df == INSTANCE KrStatfs WITH Geometries <- Layouts, Remounts <- FALSE

\* Halves of two values, words and generations of four.
Slot == INSTANCE KrInode
          WITH Half <- 2, Word <- 4, OldDevs <- 2, GenMod <- 4, ImageGen <- 3, FirstGen <- 1,
               Versions <- {}, NoUid32 <- FALSE, Overflow <- 1
Uid16 == INSTANCE KrInode
           WITH Half <- 2, Word <- 4, OldDevs <- 2, GenMod <- 4, ImageGen <- 3, FirstGen <- 1,
                Uids <- {0, 2}, Sizes <- {0}, Devs <- {0}, Versions <- {2}, NoUid32 <- TRUE,
                Overflow <- 1, MaxFiles <- 2

\* Three groups of three inodes; free blocks everywhere, or only in group 0, or only
\* in the others; a root directory and a directory in the last group.
Ialloc == INSTANCE KrIalloc
            WITH Tasks <- {t1}, GroupsCount <- 3, InodesPerGroup <- 3, InodesCount <- 9,
                 FirstIno <- 3, BlocksPerGroup <- 4, BlocksCount <- 12,
                 BlockCounts <- {[g \in 0 .. 2 |-> 3],
                                 [g \in 0 .. 2 |-> IF g = 0 THEN 3 ELSE 0],
                                 [g \in 0 .. 2 |-> IF g = 0 THEN 0 ELSE 3]},
                 OldAlloc <- {TRUE, FALSE},
                 Parents <- {[group |-> 0, ino |-> 2, top |-> TRUE],
                             [group |-> 2, ino |-> 4, top |-> FALSE]},
                 InodeCost <- 1, BlockCost <- 2, DirShare <- 3, RoomShare <- 3, MaxDebt <- 2,
                 InitBitmap <- 1 .. 4, InitLive <- {3, 4}, InitDirs <- {4},
                 CounterLag <- 5, IOErrors <- FALSE, MaxCalls <- [t \in {t1} |-> 4],
                 Sequential <- TRUE, pc <- task_pc

\* The layout of MCKrBalloc: two groups of six bits, with five blocks for data.
Files == {file1, file2}
Balloc == INSTANCE KrBalloc
            WITH Inodes <- Files, Regular <- Files,
                 FirstDataBlock <- 1, BlocksCount <- 12,
                 BlocksPerGroup <- 6, GroupsCount <- 2, RootBlocks <- 0,
                 Metadata <- [g \in 0 .. 1 |-> [block_bitmap |-> 1 + 7 * g,
                                                inode_bitmap |-> 2 + 7 * g,
                                                inode_table |-> 3 + 7 * g, itb |-> 1]],
                 ByteBits <- 2, GoalAlign <- 4, BackUp <- 1, DefaultReserve <- 2,
                 MaxReserve <- 3, InitBitmap <- {1, 2, 3, 8, 9, 10, 12},
                 InitOwned <- [f \in Files |-> {}], Goals <- {5, 6}, MaxCount <- 2,
                 RsvSizes <- {1, 3}, QuotaLimit <- 4, HitCap <- 3,
                 MaxCalls <- [f \in Files |-> IF f = file1 THEN 3 ELSE 2],
                 CounterLag <- 0, IOErrors <- FALSE, Sequential <- TRUE,
                 bitmap <- blk_bitmap, bg_free <- blk_free, lost <- blk_lost,
                 fs_error <- blk_error, pc <- file_pc, calls <- file_calls

Tree == INSTANCE KrBlockPath WITH NDir <- 3

ASSUME PartsAssumption ==
    /\ Slot!ConstantsOK /\ Uid16!ConstantsOK
    /\ Fill!ConstantsOK
    /\ Geometry!GeometriesOK
    /\ Statfs!GeometriesOK /\ Statfs!ConstantsOK

-----------------------------------------------------------------------------
OneLayout == CHOOSE g \in Layouts : TRUE

MCInit ==
    /\ part \in {"continue", "ro", "panic", "fill", "statfs", "df", "geometry",
                "slot", "uid16", "group", "full", "path"}
    /\ Init /\ Fill!Init
    /\ IF part = "geometry"
         THEN /\ geo \in Geometries
              /\ minix_df = FALSE /\ s_overhead_last = 0 /\ s_blocks_last = 0
              /\ free = 0 /\ buf = Df!NoAnswer
         ELSE Df!Init /\ (part \notin {"statfs", "df"} => geo = OneLayout /\ ~minix_df)
    /\ IF part = "uid16" THEN Uid16!Init ELSE Slot!Init
    /\ part \notin {"slot", "uid16"} => raw.kind = "reg" /\ raw.uid_low = 0
    /\ Ialloc!Init /\ Balloc!Init
    /\ group = 0 /\ i_block = -1
    /\ IF part = "path" THEN bits \in {2, 3} ELSE bits = Min(BlockBits)

SuperStep ==
    /\ \/ part = "continue" /\ Next
       \/ part = "ro" /\ ReadOnly!Next
       \/ part = "panic" /\ Panics!Next
    /\ UNCHANGED <<fillVars, dfVars, walkVars, slotVars, groupVars, fullVars>>

FillStep ==
    /\ part = "fill" /\ Fill!Next
    /\ UNCHANGED <<superVars, dfVars, walkVars, slotVars, groupVars, fullVars>>

DfStep ==
    /\ \/ part = "statfs" /\ Statfs!Next
       \/ part = "df" /\ Df!Next
    /\ UNCHANGED <<superVars, fillVars, walkVars, slotVars, groupVars, fullVars>>

\* The groups of each filesystem, the numbers up to MaxNumber for one of them, and the
\* sizes of a block.
GeometryStep ==
    /\ part = "geometry"
    /\ \/ /\ group' = IF \/ group + 1 < Geometry!s_groups_count(geo)
                         \/ group < MaxNumber /\ geo = CHOOSE g \in Geometries : TRUE
                        THEN group + 1 ELSE 0
          /\ bits = Min(BlockBits) /\ UNCHANGED bits
       \/ /\ group = 0 /\ UNCHANGED group
          /\ bits' = IF bits + 1 \in BlockBits THEN bits + 1 ELSE Min(BlockBits)
    /\ UNCHANGED <<i_block, superVars, fillVars, dfVars, slotVars, groupVars, fullVars>>

SlotStep ==
    /\ \/ part = "slot" /\ Slot!Next
       \/ part = "uid16" /\ Uid16!Next
    /\ UNCHANGED <<superVars, fillVars, dfVars, walkVars, groupVars, fullVars>>

GroupStep ==
    /\ part = "group" /\ Ialloc!Next
    /\ UNCHANGED <<superVars, fillVars, dfVars, walkVars, slotVars, fullVars>>

FullStep ==
    /\ part = "full" /\ Balloc!Next
    /\ UNCHANGED <<superVars, fillVars, dfVars, walkVars, slotVars, groupVars>>

PathStep ==
    /\ part = "path" /\ i_block <= Tree!FileBlocks(bits)
    /\ i_block' = i_block + 1
    /\ UNCHANGED <<group, bits, superVars, fillVars, dfVars, slotVars, groupVars, fullVars>>

MCNext ==
    /\ \/ SuperStep \/ FillStep \/ DfStep \/ GeometryStep
       \/ SlotStep \/ GroupStep \/ FullStep \/ PathStep
    /\ UNCHANGED part

MCSpec ==
    MCInit /\ [][MCNext]_<<part, superVars, fillVars, dfVars, walkVars, slotVars, groupVars,
                           fullVars>>

-----------------------------------------------------------------------------
\* Whichever step of kr_fill_super fails, and after an unmount, nothing is held any more
\* and nothing was given back twice or without having been set; and from the first step
\* that may call kr_error or kr_put_super on, what they use is there.
FillUnwinds == Fill!FillUnwinds

\* Without remounts that switch between bsddf and minixdf, df reports the blocks that
\* the layout leaves for files, or with minixdf all of them.
SizeIsRight == part = "df" => Df!SizeIsRight

\* df never reports more free blocks than blocks, nor more for users than for root.
NeverMoreFree == Statfs!NeverMoreFree

\* The copies of the superblock are in the groups 0 and 1 and in those whose number
\* has one prime factor, 3, 5 or 7 (kr_group_sparse).
SparseGroups ==
    part = "geometry" =>
        (Geometry!kr_group_sparse(group) <=>
           \/ group <= 1
           \/ \E b \in {3, 5, 7} : \A d \in 2 .. group : group % d = 0 => d % b = 0)

SuperBlocks ==
    {Geometry!kr_group_first_block_no(geo, g) :
       g \in {h \in 0 .. Geometry!s_groups_count(geo) - 1 : Geometry!kr_bg_has_super(geo, h) = 1}}

\* The descriptor blocks that the mount reads are apart from one another, inside
\* the filesystem, and on no copy of the superblock.
DescriptorsApart ==
    LET nrs == 0 .. Geometry!s_gdb_count(geo) - 1
        at(nr) == Geometry!descriptor_loc(geo, nr)
    IN  part = "geometry" /\ group = 0 /\ bits = Min(BlockBits) =>
          \A nr \in nrs :
            /\ at(nr) \in geo.first_data_block .. geo.blocks_count - 1
            /\ at(nr) \notin SuperBlocks
            /\ \A other \in nrs \ {nr} : at(other) # at(nr)

\* The indirect blocks of a file of n blocks without holes, for reference.
RealTree == INSTANCE KrBlockPath WITH NDir <- Geometry!NDir
Up(n, d) == (n + d - 1) \div d
IndirectBlocks(n) ==
    LET p == Geometry!Pointers(bits)
        over == n - Geometry!NDir
        dbl == Min({p * p, Max({0, over - p})})
        tpl == Max({0, over - p - p * p})
    IN  (IF over > 0 THEN 1 ELSE 0)
          + (IF dbl > 0 THEN 1 + Up(dbl, p) ELSE 0)
          + (IF tpl > 0 THEN 1 + Up(tpl, p * p) + Up(tpl, p) ELSE 0)

\* A file of the maximal size fits: all of its blocks have a place in the pointer
\* tree, and i_blocks holds the number of its sectors (kr_max_size).
MaxSizeFits ==
    LET n == Geometry!kr_max_size(bits)
    IN  part = "geometry" /\ group = 0 =>
          /\ n > 0
          /\ RealTree!kr_block_to_path(bits - 2, n - 1) # <<>>
          /\ n <= Geometry!SectorLimit(bits) - IndirectBlocks(n)

\* An inode that has been written is read back as its user knows it, as far as the
\* mount options let its owner be stored, the fields of its image are in range, and a
\* size that needs the LARGE_FILE feature is not written without it.
InodesReadBack ==
    IF part = "uid16" THEN Uid16!TypeOK /\ Uid16!ReadsBack
    ELSE Slot!TypeOK /\ Slot!ReadsBack /\ Slot!LargeFilesFlagged

\* While nobody sets a generation, s_next_generation does not come round to 0 and no file
\* gets the generation of the image's, a handle finds the file it was given for, or nothing.
HandlesAreUnique == part = "slot" => Slot!HandleFindsItsFile

\* With one call at a time, both allocators find what is there: the group that
\* find_group_dir, find_group_orlov or find_group_other names has a free inode, whatever
\* the approximate counters say, and kr_new_blocks reports ENOSPC only when no block is
\* free, so that windows of other inodes never make a filesystem full.
SearchesFindRoom ==
    /\ part = "group" => Ialloc!TypeOK /\ Ialloc!ChoiceIsRight
    /\ part = "full" => Balloc!NoBogusENOSPC

-----------------------------------------------------------------------------
Path == Tree!kr_block_to_path(bits, i_block)

\* Paths in the order in which a walk of the tree meets them: the slot of i_data
\* first, then the offsets.
Below(p, q) ==
  \E k \in 1 .. Len(q) :
    /\ k <= Len(p)
    /\ p[k] < q[k]
    /\ \A j \in 1 .. k - 1 : p[j] = q[j]

\* A block number has a path exactly when it is within the file, the path only
\* uses slots that exist, and successive numbers have successive leaves: no two
\* blocks share a pointer and the tree has no pointer left over.
PathsAreRight ==
  LET ptrs == Tree!AddrPerBlock(bits)
      last == Tree!FileBlocks(bits) - 1
  IN  part = "path" =>
      /\ (Path # <<>>) <=> i_block \in 0 .. last
      /\ Path # <<>> =>
           /\ Path[1] \in 0 .. Tree!TIND
           /\ Len(Path) = IF Path[1] < Tree!IND THEN 1 ELSE Path[1] - Tree!IND + 2
           /\ \A k \in 2 .. Len(Path) : Path[k] \in 0 .. ptrs - 1
           /\ i_block = 0 => Path = <<0>>
           /\ i_block = last => Path = <<Tree!TIND>> \o [k \in 1 .. 3 |-> ptrs - 1]
           /\ i_block > 0 => Below(Tree!kr_block_to_path(bits, i_block - 1), Path)

\* blocks_to_boundary counts the blocks whose pointers follow in the same array:
\* they share all of the path but the last offset, and the next block does not.
BoundaryIsRight ==
  part = "path" /\ Path # <<>> =>
    LET b == Tree!boundary(bits, i_block)
        up(n) == LET p == Tree!kr_block_to_path(bits, n) IN SubSeq(p, 1, Len(p) - 1)
        same(n) == /\ Len(Tree!kr_block_to_path(bits, n)) = Len(Path)
                   /\ up(n) = up(i_block)
    IN  /\ b >= 0
        /\ \A j \in 0 .. b : same(i_block + j)
        /\ ~same(i_block + b + 1)

\* Where things are is what the format says: the blocks that df reports, the copies of
\* the superblock and of the descriptors, the largest file, and the pointer to each
\* block of a file.
LayoutIsRight ==
    /\ part \in {"df", "statfs"} => Statfs!TypeOK
    /\ SizeIsRight /\ NeverMoreFree
    /\ SparseGroups /\ DescriptorsApart /\ MaxSizeFits
    /\ PathsAreRight /\ BoundaryIsRight
=============================================================================
