---------------------------- MODULE MCCallsReturn ----------------------------
(***************************************************************************)
(* The allocators on damaged images, and whether calls return.  A          *)
(* behaviour is one of one part, and the variables of the others keep      *)
(* their initial values: "blocks" is KrBalloc with the constants of the    *)
(* configuration, "inodes" is KrIalloc and "map" is KrBlockMap, where a    *)
(* lookup and a page written back race with a write and a truncation.      *)
(*                                                                         *)
(* In the damaged block bitmap the bits of a metadata block and of the     *)
(* block past the end are clear; task1 maps a metadata block, task2 a      *)
(* block past the end and one that is marked free.  In the damaged inode   *)
(* bitmap the reserved inode 1 and inode 3, which has a name, are not      *)
(* marked, and a name leads to inode 6, past the last one.                 *)
(***************************************************************************)
EXTENDS KrBalloc, TLC

CONSTANTS task1, task2

VARIABLES
    part,
    ino_bitmap, ino_bg_free, bg_dirs, debts, freeinodes, dirs, live, isdir, cached,
    ino_lost, charged, ino_error, ino_pc, ino_fr, ino_calls,
    ptr, free, foreign, i_size, mutex, rwsem, deleted, leaked, held, map_pc, map_fr,
    map_calls, seen

blockVars == <<bitmap, bg_free, freeblocks, quota, owned, lost, rsv, tree, info, fs_error,
               bug, pc, af, ff, calls>>
inodeVars == <<ino_bitmap, ino_bg_free, bg_dirs, debts, freeinodes, dirs, live, isdir,
               cached, ino_lost, charged, ino_error, ino_pc, ino_fr, ino_calls>>
mapVars == <<ptr, free, foreign, i_size, mutex, rwsem, deleted, leaked, held, map_pc,
             map_fr, map_calls, seen>>

Both == {task1, task2}
OneCall == [i \in Both |-> 1]
TwoCalls == [i \in Both |-> 2]

\* The layout of MCKrBalloc.
MCMetadata ==
    [g \in 0 .. 1 |-> [block_bitmap |-> 1 + 7 * g, inode_bitmap |-> 2 + 7 * g,
                       inode_table |-> 3 + 7 * g, itb |-> 1]]
MCInitBitmap == {1, 2, 6, 8, 9, 10}
MCOwned == task1 :> {6, 9} @@ task2 :> {5, 12}

\* The damage is in the bitmaps and maps; the descriptors are as they must be.
ASSUME DescriptorsAssumption == DescriptorsChecked /\ TablesBehindBitmaps

Ialloc ==
    INSTANCE KrIalloc
      WITH Tasks <- Both, InodesPerGroup <- 3, InodesCount <- 5,
           FirstIno <- 3, BlocksPerGroup <- 4, BlocksCount <- 8,
           BlockCounts <- {[g \in 0 .. 1 |-> 3]}, OldAlloc <- {FALSE},
           Parents <- {[group |-> 0, ino |-> 2, top |-> TRUE],
                       [group |-> 1, ino |-> 4, top |-> FALSE]},
           InodeCost <- 1, BlockCost <- 2, DirShare <- 3, RoomShare <- 3, MaxDebt <- 2,
           InitBitmap <- {2, 4}, InitLive <- {3, 4, 6}, InitDirs <- {4},
           MaxCalls <- TwoCalls,
           bitmap <- ino_bitmap, bg_free <- ino_bg_free, lost <- ino_lost,
           fs_error <- ino_error, pc <- ino_pc, fr <- ino_fr, calls <- ino_calls

\* One direct pointer and two pointers in a block; the file has blocks 1 and 2, or only
\* block 2, under its indirect block.
NoPointers == [b \in -1 .. 4 |-> [o \in 0 .. (IF b = -1 THEN 3 ELSE 1) |-> 0]]
FullIndirect == [NoPointers EXCEPT ![-1][1] = 1, ![1] = 0 :> 2 @@ 1 :> 3]
HoleIndirect == [NoPointers EXCEPT ![-1][1] = 1, ![1][1] = 2]
MapTrees == {FullIndirect, HoleIndirect}
MapSizes == [t \in MapTrees |-> 3]
MapKinds == task1 :> {"read", "writepage", "bmap"} @@ task2 :> {"write", "setsize"}

BlockMap ==
    INSTANCE KrBlockMap
      WITH Tasks <- Both, Kinds <- MapKinds, NDir <- 1, PtrBits <- 1, NBlocks <- 4,
           LastBlock <- 2, MaxRun <- 2, Trees <- MapTrees, InitSize <- MapSizes,
           MaxForeign <- 0, AllocErrors <- FALSE, Dax <- FALSE, AppendOnly <- FALSE,
           MaxCalls <- OneCall,
           pc <- map_pc, fr <- map_fr, calls <- map_calls

MCInit ==
    /\ part \in {"blocks", "inodes", "map"}
    /\ Init /\ Ialloc!Init /\ BlockMap!Init
    /\ part # "map" => ptr = FullIndirect

BlocksStep ==
    part = "blocks" /\ Next /\ UNCHANGED <<part, inodeVars, mapVars>>
InodesStep ==
    part = "inodes" /\ Ialloc!Next /\ UNCHANGED <<part, blockVars, mapVars>>
MapStep ==
    part = "map" /\ BlockMap!Next /\ UNCHANGED <<part, blockVars, inodeVars>>

MCNext == BlocksStep \/ InodesStep \/ MapStep

\* A step of the call that task i is in.
CallStep(i) ==
    \/ part = "blocks" /\ (AllocStep(i) \/ FreeStep(i)) /\ UNCHANGED <<part, inodeVars, mapVars>>
    \/ part = "inodes" /\ Ialloc!Step(i) /\ UNCHANGED <<part, blockVars, mapVars>>
    \/ part = "map" /\ BlockMap!Step(i) /\ BlockMap!Watch /\ UNCHANGED <<part, blockVars, inodeVars>>

allVars == <<part, blockVars, inodeVars, mapVars>>

\* A task in a call is scheduled again, and gets the locks it waits for; nobody has to
\* make a call.
FairMCSpec == MCInit /\ [][MCNext]_allVars /\ \A i \in Both : WF_allVars(CallStep(i))

-----------------------------------------------------------------------------
InCall(i) ==
    CASE part = "blocks" -> pc[i] # "idle"
      [] part = "inodes" -> ino_pc[i] # "idle"
      [] part = "map" -> map_pc[i] # "idle"

\* Every call returns, although lost bits, retries and errors send an allocation round
\* again, although the tree changes under a lookup, and though allocations and
\* truncations wait for one another's locks.
EveryCallReturns == \A i \in Both : InCall(i) ~> ~InCall(i)

\* Whatever the bitmaps and block maps say, no metadata block is handed to an inode and
\* no metadata bit is cleared; and kr_new_inode makes no inode with a reserved number, one
\* past s_inodes_count or that of another inode in memory.
DamageContained == MetadataIsSafe /\ Ialloc!NoBadInode
=============================================================================
