------------------------------- MODULE KrBalloc -------------------------------
(***************************************************************************)
(* The block allocator of the kr filesystem (Exercises/Exercise19/balloc.c).*)
(*                                                                         *)
(* An actor is an inode: kr_new_blocks, kr_free_blocks and the changes of   *)
(* an inode's reservation window all run under that inode's                *)
(* truncate_mutex, so an inode has at most one call in progress, and calls *)
(* of different inodes interleave.  One action is one access to state that *)
(* inodes share: a bit of a block bitmap (ext2_set_bit_atomic), a group's  *)
(* free count (sb_bgl_lock), the per-CPU counter, or one critical section  *)
(* of s_rsv_window_lock.                                                   *)
(*                                                                         *)
(* Block numbers are filesystem-wide everywhere: the code's group-relative *)
(* number b is GroupFirst(group) + b here, and its -1 is NoBlock.          *)
(***************************************************************************)
EXTENDS Integers, FiniteSets, FiniteSetsExt

CONSTANTS
    Inodes,            \* the inodes that allocate and free blocks
    Regular,           \* those with S_ISREG: only they get reservations
    RsvHead,           \* s_rsv_window_head, the dummy node of the window tree
    FirstDataBlock,    \* es->s_first_data_block
    BlocksCount,       \* es->s_blocks_count
    BlocksPerGroup,    \* KR_BLOCKS_PER_GROUP
    GroupsCount,       \* s_groups_count
    RootBlocks,        \* es->s_r_blocks_count
    Metadata,          \* per group: its bitmaps and inode table (a record)
    ByteBits,          \* bits of a bitmap byte (8)
    GoalAlign,         \* alignment of the search near the goal (64)
    BackUp,            \* bits an unreserved search may back up (7)
    DefaultReserve,    \* KR_DEFAULT_RESERVE_BLOCKS (8)
    MaxReserve,        \* KR_MAX_RESERVE_BLOCKS (1027)
    InitBitmap,        \* the blocks whose bit is set at mount
    InitOwned,         \* the blocks each inode maps at mount
    Goals,             \* the goals callers pass
    MaxCount,          \* bound: blocks asked for in one call
    RsvSizes,          \* sizes passed to KR_IOC_SETRSVSZ
    QuotaLimit,        \* dquot limit of an inode's owner
    HitCap,            \* bound: rsv_alloc_hit saturates here
    MaxCalls,          \* bound: calls made on each inode
    CounterLag,        \* how far percpu_counter_read may be off
    IOErrors,          \* may reading a bitmap or allocating memory fail?
    Sequential         \* only one inode at a time has a call in progress?

Groups == 0 .. GroupsCount - 1

GroupFirst(g) == FirstDataBlock + g * BlocksPerGroup

GroupLast(g) == GroupFirst(g) + BlocksPerGroup - 1

GroupOf(b) == (b - FirstDataBlock) \div BlocksPerGroup

Bits == FirstDataBlock .. GroupLast(GroupsCount - 1)

NoBlock == -1

in_range(b, first, len) == first <= b /\ b <= first + len - 1

\* Mutant: the test of the inode bitmap is forgotten.
InSystemZoneNoInodeBitmap(g, b, n) ==
    \/ in_range(Metadata[g].block_bitmap, b, n)
    \/ in_range(b, Metadata[g].inode_table, Metadata[g].itb)
    \/ in_range(b + n - 1, Metadata[g].inode_table, Metadata[g].itb)

\* The four tests of "system zone" for the run b .. b + n - 1 in group g.
InSystemZone(g, b, n) ==
    \/ in_range(Metadata[g].block_bitmap, b, n)
    \/ in_range(Metadata[g].inode_bitmap, b, n)
    \/ in_range(b, Metadata[g].inode_table, Metadata[g].itb)
    \/ in_range(b + n - 1, Metadata[g].inode_table, Metadata[g].itb)

MetadataBlocks(g) ==
    {Metadata[g].block_bitmap, Metadata[g].inode_bitmap} \cup
    (Metadata[g].inode_table .. Metadata[g].inode_table + Metadata[g].itb - 1)

ASSUME ConstantsAssumption ==
    /\ Regular \subseteq Inodes
    /\ RsvHead \notin Inodes
    /\ FirstDataBlock \in Nat
    /\ BlocksCount \in Nat
    /\ BlocksPerGroup \in Nat \ {0}
    /\ GroupsCount \in Nat \ {0}
    /\ DefaultReserve \in Nat
    /\ MaxReserve \in Nat \ {0}
    /\ MaxCount \in Nat \ {0}
    /\ HitCap \in Nat
    /\ CounterLag \in Nat
    /\ RsvSizes \subseteq Nat
    /\ Goals \subseteq Nat
    /\ IOErrors \in BOOLEAN
    /\ InitBitmap \subseteq Bits
    /\ InitOwned \in [Inodes -> SUBSET Nat]
    /\ \A i \in Inodes : IsFiniteSet(InitOwned[i])

\* s_groups_count is computed so that the groups cover the filesystem.
ASSUME GroupsAssumption ==
    /\ FirstDataBlock < BlocksCount
    /\ \A b \in FirstDataBlock .. BlocksCount - 1 : GroupOf(b) \in Groups

VARIABLES
    bitmap,      \* the blocks whose bit is set, over all groups
    bg_free,     \* bg_free_blocks_count of each group
    freeblocks,  \* s_freeblocks_counter
    quota,       \* blocks charged to each inode (dquot and i_blocks)
    owned,       \* blocks the inode's block map refers to
    lost,        \* blocks dropped from a map whose kr_free_blocks gave up
    rsv,         \* the reservation window of every node
    tree,        \* the nodes linked in s_rsv_window_root
    info,        \* the inodes with an i_block_alloc_info
    fs_error,    \* what kr_error was called for: "read", "damage"
    bug,         \* BUG() was reached
    pc,          \* where the call on each inode stands
    af,          \* locals of kr_new_blocks and what it calls
    ff,          \* locals of kr_free_blocks
    calls        \* calls made so far on each inode

disk == <<bitmap, bg_free, freeblocks, quota, owned, lost>>
window == <<rsv, tree, info>>
vars == <<disk, window, fs_error, bug, pc, af, ff, calls>>

Nodes == Inodes \cup {RsvHead}

\* rsv_window_remove and kr_init_block_alloc_info: the window not allocated.
Empty(size) == [start |-> 0, end |-> 0, goal_size |-> size, hit |-> 0]

\* An inode's locals when no allocation is in progress.
NoAlloc == [goal |-> FirstDataBlock, count |-> 0, num |-> 0, group |-> 0, bgi |-> 0,
            my_rsv |-> FALSE, windowsz |-> 0, grp_goal |-> NoBlock,
            failed |-> FALSE, start |-> 0, end |-> 0, got |-> 0]

\* An inode's locals when no kr_free_blocks is in progress.
NoFree == [block |-> 0, count |-> 0, overflow |-> 0, cleared |-> 0,
           group_freed |-> 0, freed |-> 0]

Init ==
    /\ bitmap = InitBitmap
    /\ bg_free = [g \in Groups |->
                    Cardinality((GroupFirst(g) .. GroupLast(g)) \
                                (InitBitmap \cup MetadataBlocks(g)))]
    /\ freeblocks = Cardinality(Bits \ (InitBitmap \cup
                                  UNION {MetadataBlocks(g) : g \in Groups}))
    /\ quota = [i \in Inodes |-> Cardinality(InitOwned[i])]
    /\ owned = InitOwned
    /\ lost = [i \in Inodes |-> {}]
    /\ rsv = [n \in Nodes |-> Empty(0)]
    /\ tree = {RsvHead}
    /\ info = {}
    /\ fs_error = {}
    /\ bug = FALSE
    /\ pc = [i \in Inodes |-> "idle"]
    /\ af = [i \in Inodes |-> NoAlloc]
    /\ ff = [i \in Inodes |-> NoFree]
    /\ calls = [i \in Inodes |-> 0]

Goto(i, label) == pc' = [pc EXCEPT ![i] = label]

At(i, label) == pc[i] = label

\* A new call on inode i: its truncate_mutex is free.
Enter(i) ==
    /\ At(i, "idle")
    /\ calls[i] < MaxCalls[i]
    /\ Sequential => \A j \in Inodes : At(j, "idle")
    /\ calls' = [calls EXCEPT ![i] = @ + 1]

-----------------------------------------------------------------------------
(***************************************************************************)
(* The tree of reservation windows.  Its nodes are kept disjoint and in    *)
(* order of their start, so rb_next is "the least start above mine".       *)
(***************************************************************************)

rsv_is_empty(i) == rsv[i].end = 0

\* n is the node rb_next(me).
IsNext(n, me) ==
    /\ n \in tree
    /\ rsv[n].start > rsv[me].start
    /\ \A m \in tree : rsv[m].start > rsv[me].start => rsv[n].start <= rsv[m].start

\* n is the node whose window contains goal, or else the one before it.
search_reserve_window(n, goal) ==
    /\ n \in tree
    /\ rsv[n].start <= goal
    /\ \A m \in tree : rsv[m].start <= goal => rsv[m].start <= rsv[n].start

goal_in_my_reservation(i, goal, g) ==
    /\ rsv[i].start <= GroupLast(g)
    /\ rsv[i].end >= GroupFirst(g)
    /\ goal # NoBlock => rsv[i].start <= goal /\ goal <= rsv[i].end

\* Mutant: off by one.
CurOffByOne(prev, start_block) ==
    IF start_block <= rsv[prev].end THEN rsv[prev].end ELSE start_block

\* Where a window placed right after prev would start.
Cur(prev, start_block) ==
    IF start_block <= rsv[prev].end THEN rsv[prev].end + 1 ELSE start_block

\* The space after prev is the last of the list, or has room for size blocks.
GapAfter(prev, start_block, size) ==
    \A m \in tree : rsv[m].start > rsv[prev].start =>
                        Cur(prev, start_block) + size <= rsv[m].start

\* Walking the list from head, the loop stops at prev.
StopsAt(prev, head, start_block, size) ==
    /\ prev \in tree
    /\ rsv[prev].start >= rsv[head].start
    /\ GapAfter(prev, start_block, size)
    /\ \A m \in tree : rsv[head].start <= rsv[m].start /\ rsv[m].start < rsv[prev].start
                          => ~GapAfter(m, start_block, size)

\* kr_rsv_window_add meets a window that contains start.
Collides(i, start) ==
    \E m \in tree \ {i} : rsv[m].start <= start /\ start <= rsv[m].end

\* find_next_reservable_window, from head, for a window of size blocks that
\* starts in start_block .. GroupLast, and what its caller does with a -1.
find_next_reservable_window(i, head, start_block, size) ==
    \E prev \in tree :
        LET cur == Cur(prev, start_block)
        IN  /\ StopsAt(prev, head, start_block, size)
            /\ \/ /\ cur > GroupLast(af[i].group)
                  /\ rsv' = [rsv EXCEPT ![i] = Empty(size)]
                  /\ tree' = tree \ {i}
                  /\ Goto(i, "scan")
                  /\ UNCHANGED bug
               \/ /\ cur <= GroupLast(af[i].group)
                  /\ rsv' = [rsv EXCEPT ![i] = [start |-> cur, end |-> cur + size - 1,
                                                goal_size |-> size, hit |-> 0]]
                  /\ tree' = tree \cup {i}
                  /\ bug' = (bug \/ (prev # i /\ Collides(i, cur)))
                  /\ Goto(i, "check")

-----------------------------------------------------------------------------
(***************************************************************************)
(* kr_new_blocks: the groups it visits.                                    *)
(***************************************************************************)

\* The reading of the per-CPU counter may lag behind its exact value.
kr_has_free_blocks ==
    {seen > RootBlocks : seen \in {Max({0, freeblocks + d}) : d \in -CounterLag .. CounterLag}}

\* kr_get_blocks gives a regular file its i_block_alloc_info before the call.
Fresh(i, kmalloc) == i \in Regular \ info /\ kmalloc

\* windowsz: rsv_goal_size, if the inode has a window structure at all.
WindowSize(i, fresh) ==
    IF fresh THEN DefaultReserve ELSE IF i \in info THEN rsv[i].goal_size ELSE 0

\* The goal, or the first data block when it lies outside the filesystem.
ClampedGoal(goal) ==
    IF goal < FirstDataBlock \/ goal >= BlocksCount THEN FirstDataBlock ELSE goal

\* The locals of kr_new_blocks at retry_alloc.
EntryFrame(goal, count, size) ==
    [NoAlloc EXCEPT !.goal = goal, !.count = count, !.num = count, !.group = GroupOf(goal),
                    !.windowsz = size, !.my_rsv = size > 0]

\* Entry: the quota is charged, the window size read and free space tested.
NewBlocks(i) ==
    \E goal \in Goals, count \in 1 .. MaxCount,
       privileged \in BOOLEAN, has_free \in kr_has_free_blocks,
       kmalloc \in (IF IOErrors THEN BOOLEAN ELSE {TRUE}) :
        /\ Enter(i)
        /\ quota[i] + count <= QuotaLimit
        /\ quota' = [quota EXCEPT ![i] = @ + count]
        /\ info' = IF Fresh(i, kmalloc) THEN info \cup {i} ELSE info
        /\ rsv' = IF Fresh(i, kmalloc) THEN [rsv EXCEPT ![i] = Empty(DefaultReserve)] ELSE rsv
        /\ af' = [af EXCEPT ![i] = EntryFrame(ClampedGoal(goal), count,
                                              WindowSize(i, Fresh(i, kmalloc)))]
        /\ Goto(i, IF has_free \/ privileged THEN "retry" ELSE "nospace")
        /\ UNCHANGED <<bitmap, bg_free, freeblocks, owned, lost, tree, fs_error, bug, ff>>

\* retry_alloc: the group of the goal (or the group of a failed system-zone
\* check), with the goal's offset.
RetryAlloc(i) ==
    LET f == af[i]
        free == bg_free[f.group]
        off == free < f.windowsz /\ free > 0 /\ rsv_is_empty(i)
    IN  /\ At(i, "retry")
        /\ af' = [af EXCEPT ![i] =
                    [f EXCEPT !.my_rsv = f.my_rsv /\ ~off,
                              !.grp_goal = GroupFirst(f.group)
                                  + ((f.goal - FirstDataBlock) % BlocksPerGroup),
                              !.failed = FALSE, !.bgi = 0]]
        /\ Goto(i, IF free > 0 THEN "rsv" ELSE "scan")
        /\ UNCHANGED <<disk, window, fs_error, bug, ff, calls>>

\* Mutant: the group number does not wrap, and kr_get_group_desc fails.
ScanGroupNoWrap(i) ==
    LET f == af[i]
        g == f.group + 1
        skip == bg_free[g] = 0 \/ (f.my_rsv /\ bg_free[g] <= f.windowsz \div 2)
    IN  /\ At(i, "scan")
        /\ f.bgi < GroupsCount
        /\ af' = [af EXCEPT ![i] = [f EXCEPT !.group = g, !.bgi = f.bgi + 1,
                                             !.grp_goal = NoBlock, !.failed = FALSE]]
        /\ Goto(i, IF g \notin Groups THEN "ioerror" ELSE IF skip THEN "scan" ELSE "rsv")
        /\ UNCHANGED <<disk, window, fs_error, bug, ff, calls>>

\* The search of the rest of the groups, one group per step.
ScanGroup(i) ==
    LET f == af[i]
        g == (f.group + 1) % GroupsCount
        skip == bg_free[g] = 0 \/ (f.my_rsv /\ bg_free[g] <= f.windowsz \div 2)
    IN  /\ At(i, "scan")
        /\ f.bgi < GroupsCount
        /\ af' = [af EXCEPT ![i] = [f EXCEPT !.group = g, !.bgi = f.bgi + 1,
                                             !.grp_goal = NoBlock, !.failed = FALSE]]
        /\ Goto(i, IF skip THEN "scan" ELSE "rsv")
        /\ UNCHANGED <<disk, window, fs_error, bug, ff, calls>>

\* Mutant: gives up although windows of other inodes may be all that is full.
ScanDoneGivesUp(i) ==
    /\ At(i, "scan")
    /\ af[i].bgi = GroupsCount
    /\ Goto(i, "nospace")
    /\ UNCHANGED <<disk, window, fs_error, bug, af, ff, calls>>

\* No group had room: forget about reservations, or give up.
ScanDone(i) ==
    LET f == af[i]
    IN  /\ At(i, "scan")
        /\ f.bgi = GroupsCount
        /\ af' = [af EXCEPT ![i] = [f EXCEPT !.my_rsv = FALSE, !.windowsz = 0,
                                             !.group = GroupOf(f.goal)]]
        /\ Goto(i, IF f.my_rsv THEN "retry" ELSE "nospace")
        /\ UNCHANGED <<disk, window, fs_error, bug, ff, calls>>

Complain(why) == fs_error' = fs_error \cup {why}

\* The buffer or the read fails, which kr_error reports, and NULL is returned.
BitmapReadFails(i) ==
    /\ IOErrors
    /\ At(i, "rsv")
    /\ Complain("read")
    /\ Goto(i, "ioerror")
    /\ UNCHANGED <<disk, window, bug, af, ff, calls>>

\* kr_valid_block_bitmap: the group's bitmaps and inode table are marked in use.
kr_valid_block_bitmap(g) == Bits \cap MetadataBlocks(g) \subseteq bitmap

\* A bitmap that was not in memory is checked when it is read; a bad one is reported and
\* used all the same.
BitmapInvalid(i) ==
    /\ At(i, "rsv")
    /\ ~kr_valid_block_bitmap(af[i].group)
    /\ "damage" \notin fs_error
    /\ Complain("damage")
    /\ UNCHANGED <<disk, window, bug, pc, af, ff, calls>>

\* read_block_bitmap, when kr_new_blocks is about to use a group, has something to report.
\* Otherwise the search just goes on; once it has looked in vain, it has the bitmap.
read_block_bitmap(i) ==
    /\ ~af[i].failed
    /\ BitmapReadFails(i) \/ BitmapInvalid(i)

-----------------------------------------------------------------------------
(***************************************************************************)
(* kr_try_to_allocate_with_rsv and alloc_new_reservation.                  *)
(***************************************************************************)

NeedsNewWindow(i) ==
    \/ rsv_is_empty(i)
    \/ af[i].failed
    \/ ~goal_in_my_reservation(i, af[i].grp_goal, af[i].group)

\* The goal lies in a window that continues into the next group.
CrossesGroup(i, start_block) ==
    /\ ~rsv_is_empty(i)
    /\ rsv[i].start <= GroupLast(af[i].group)
    /\ rsv[i].end > GroupLast(af[i].group)
    /\ start_block >= rsv[i].start

\* rsv_goal_size after the caller's and alloc_new_reservation's updates.
NewGoalSize(i) ==
    LET size == IF rsv[i].goal_size < af[i].num THEN af[i].num ELSE rsv[i].goal_size
        hits == rsv[i].hit > (rsv[i].end - rsv[i].start + 1) \div 2
    IN  IF rsv_is_empty(i) \/ ~hits THEN size
        ELSE IF size * 2 > MaxReserve THEN MaxReserve ELSE size * 2

AllocNewReservation(i) ==
    LET start_block == IF af[i].grp_goal = NoBlock THEN GroupFirst(af[i].group)
                       ELSE af[i].grp_goal
    IN  /\ At(i, "rsv")
        /\ af[i].my_rsv
        /\ NeedsNewWindow(i)
        /\ \/ /\ CrossesGroup(i, start_block)
              /\ rsv' = [rsv EXCEPT ![i].goal_size =
                            IF @ < af[i].num THEN af[i].num ELSE @]
              /\ Goto(i, "scan")
              /\ UNCHANGED <<tree, bug>>
           \/ /\ ~CrossesGroup(i, start_block)
              /\ \E head \in tree :
                    /\ search_reserve_window(head, start_block)
                    /\ find_next_reservable_window(i, head, start_block, NewGoalSize(i))
        /\ UNCHANGED <<disk, info, fs_error, af, ff, calls>>

FreeIn(lo, hi) == {b \in lo .. hi - 1 : b \notin bitmap}

\* With the lock dropped, the bitmap is searched from the window's start.
CheckReservation(i) ==
    LET free == FreeIn(rsv[i].start, GroupLast(af[i].group) + 1)
    IN  /\ At(i, "check")
        /\ \/ /\ free = {}
              /\ rsv' = [rsv EXCEPT ![i] = Empty(rsv[i].goal_size)]
              /\ tree' = tree \ {i}
              /\ Goto(i, "scan")
              /\ UNCHANGED af
           \/ \E b \in free :
                /\ \A c \in free : b <= c
                /\ IF b <= rsv[i].end
                   THEN /\ af' = [af EXCEPT ![i].grp_goal =
                                    IF goal_in_my_reservation(i, @, af[i].group)
                                    THEN @ ELSE NoBlock]
                        /\ Goto(i, "try")
                   ELSE /\ af' = [af EXCEPT ![i].start = b]
                        /\ Goto(i, "renew")
                /\ UNCHANGED <<rsv, tree>>
        /\ UNCHANGED <<disk, info, fs_error, bug, ff, calls>>

\* The first free block lies behind the window: search on from there.
RenewReservation(i) ==
    /\ At(i, "renew")
    /\ find_next_reservable_window(i, i, af[i].start, rsv[i].goal_size)
    /\ UNCHANGED <<disk, info, fs_error, af, ff, calls>>

\* try_to_extend_reservation: by size blocks, or up to the next window.
try_to_extend_reservation(i, size) ==
    \/ /\ \A n \in tree : rsv[n].start <= rsv[i].start
       /\ rsv' = [rsv EXCEPT ![i].end = @ + size]
    \/ \E n \in tree :
         /\ IsNext(n, i)
         /\ rsv' = [rsv EXCEPT ![i].end =
                      IF rsv[n].start - @ - 1 >= size THEN @ + size ELSE rsv[n].start - 1]

\* The goal, if any, is in the window.  A window too short for the request is
\* extended, unless spin_trylock finds the lock taken.
UseReservation(i) ==
    LET f == af[i]
        curr == rsv[i].end - f.grp_goal + 1
    IN  /\ At(i, "rsv")
        /\ f.my_rsv
        /\ ~NeedsNewWindow(i)
        /\ Goto(i, "try")
        /\ \/ UNCHANGED rsv
           \/ /\ f.grp_goal # NoBlock
              /\ curr < f.num
              /\ try_to_extend_reservation(i, f.num - curr)
        /\ UNCHANGED <<disk, tree, info, fs_error, bug, af, ff, calls>>

-----------------------------------------------------------------------------
(***************************************************************************)
(* kr_try_to_allocate: the range, the search and the claim of bits.        *)
(***************************************************************************)

\* start and end (exclusive) of the range, before the goal is applied.
RangeStart(i) ==
    IF af[i].my_rsv /\ rsv[i].start >= GroupFirst(af[i].group)
    THEN rsv[i].start ELSE GroupFirst(af[i].group)

\* Mutant: the end of the window does not limit the range.
RangeEndOfGroup(i) == GroupLast(af[i].group) + 1

RangeEnd(i) ==
    IF af[i].my_rsv /\ rsv[i].end <= GroupLast(af[i].group)
    THEN rsv[i].end + 1 ELSE GroupLast(af[i].group) + 1

\* find_next_usable_block in lo .. hi - 1 of group g: near the start of the
\* range, else the first free byte, else the first free bit.
find_next_usable_block(g, lo, hi) ==
    LET off == lo - GroupFirst(g)
        end_goal == GroupFirst(g) + ((off + GoalAlign - 1) \div GoalAlign) * GoalAlign
        near == IF off > 0 THEN FreeIn(lo, IF end_goal > hi THEN hi ELSE end_goal) ELSE {}
        bytes == {b \in GroupFirst(g) + (off \div ByteBits) * ByteBits .. hi - 1 :
                    /\ (b - GroupFirst(g)) % ByteBits = 0
                    /\ FreeIn(b, b + ByteBits) = b .. b + ByteBits - 1}
    IN  IF near # {} THEN Min(near)
        ELSE IF bytes # {} /\ Min(bytes) >= lo THEN Min(bytes)
        ELSE Min(FreeIn(lo, hi))

\* Without a window, a block found behind free blocks backs up over them.
BackUpFrom(b, lo) ==
    Min({c \in lo .. b : c >= b - BackUp /\ \A d \in c .. b - 1 : d \notin bitmap})

\* kr_try_to_allocate returned -1: the loop of kr_try_to_allocate_with_rsv
\* asks for a new window; without a window *count was set to zero.
TryFailed(i) ==
    /\ af' = [af EXCEPT ![i] = [af[i] EXCEPT !.failed = TRUE,
                                             !.num = IF af[i].my_rsv THEN @ ELSE 0,
                                             !.start = 0, !.end = 0]]
    /\ Goto(i, IF af[i].my_rsv THEN "rsv" ELSE "scan")

TryToAllocate(i) ==
    LET f == af[i]
        lo == RangeStart(i)
        hi == RangeEnd(i)
        goal == IF f.grp_goal # NoBlock /\ lo <= f.grp_goal /\ f.grp_goal < hi
                THEN f.grp_goal ELSE NoBlock
    IN  /\ At(i, "try") \/ (At(i, "rsv") /\ ~f.my_rsv)
        /\ bug' = (bug \/ (f.my_rsv /\ \/ rsv[i].start > GroupLast(f.group)
                                       \/ rsv[i].end < GroupFirst(f.group)))
        /\ \/ /\ goal = NoBlock
              /\ FreeIn(lo, hi) = {}
              /\ TryFailed(i)
           \/ \E b \in lo .. hi - 1 :
                /\ IF goal # NoBlock THEN b = goal
                   ELSE /\ FreeIn(lo, hi) # {}
                        /\ LET found == find_next_usable_block(f.group, lo, hi)
                           IN  b = IF f.my_rsv THEN found ELSE BackUpFrom(found, lo)
                /\ af' = [af EXCEPT ![i] = [f EXCEPT !.start = b, !.end = hi]]
                /\ Goto(i, "claim")
        /\ UNCHANGED <<disk, window, fs_error, ff, calls>>

\* Mutant: the bit is set without looking at its old value.
ClaimFirstBlind(i) ==
    /\ At(i, "claim")
    /\ bitmap' = bitmap \cup {af[i].start}
    /\ af' = [af EXCEPT ![i].got = 1]
    /\ Goto(i, "more")
    /\ UNCHANGED <<bg_free, freeblocks, quota, owned, lost, window, fs_error, bug, ff, calls>>

\* ext2_set_bit_atomic on the block found; a bit lost to another inode moves
\* the claim to the next bit.
ClaimFirst(i) ==
    LET b == af[i].start
    IN  /\ At(i, "claim")
        /\ \/ /\ b \in bitmap
              /\ IF b + 1 >= af[i].end THEN TryFailed(i)
                 ELSE af' = [af EXCEPT ![i].start = b + 1] /\ UNCHANGED pc
              /\ UNCHANGED bitmap
           \/ /\ b \notin bitmap
              /\ bitmap' = bitmap \cup {b}
              /\ af' = [af EXCEPT ![i].got = 1]
              /\ Goto(i, "more")
        /\ UNCHANGED <<bg_free, freeblocks, quota, owned, lost, window, fs_error, bug, ff, calls>>

\* The run goes on while blocks are wanted, the range lasts and bits are free.
ClaimMore(i) ==
    LET f == af[i]
        b == f.start + f.got
    IN  /\ At(i, "more")
        /\ \/ /\ f.got < f.num /\ b < f.end /\ b \notin bitmap
              /\ bitmap' = bitmap \cup {b}
              /\ af' = [af EXCEPT ![i].got = @ + 1]
              /\ UNCHANGED <<rsv, pc>>
           \/ /\ f.got >= f.num \/ b >= f.end \/ b \in bitmap
              /\ rsv' = IF f.my_rsv
                        THEN [rsv EXCEPT ![i].hit =
                                IF @ + f.got > HitCap THEN HitCap ELSE @ + f.got]
                        ELSE rsv
              /\ af' = [af EXCEPT ![i] = [f EXCEPT !.num = f.got, !.end = 0]]
              /\ Goto(i, "allocated")
              /\ UNCHANGED bitmap
        /\ UNCHANGED <<bg_free, freeblocks, quota, owned, lost, tree, info, fs_error, bug, ff, calls>>

-----------------------------------------------------------------------------
(***************************************************************************)
(* kr_new_blocks: the checks and the counters after a successful claim.    *)
(***************************************************************************)

U16(n) == n % 65536

Run(b, n) == b .. b + n - 1

\* Kept blocks are counted off the group; blocks of the system zone are left
\* marked in use and the search starts again; blocks past the end of the
\* filesystem fail the call.
Allocated(i) ==
    LET f == af[i]
        zone == InSystemZone(f.group, f.start, f.got)
        past == f.start + f.got - 1 >= BlocksCount
    IN  /\ At(i, "allocated")
        /\ \/ /\ zone
              /\ Complain("damage")
              /\ af' = [af EXCEPT ![i] = [f EXCEPT !.start = 0, !.got = 0]]
              /\ Goto(i, "retry")
              /\ UNCHANGED <<bg_free, lost>>
           \/ /\ ~zone /\ past
              /\ Complain("damage")
              /\ af' = [af EXCEPT ![i] = NoAlloc]
              /\ lost' = [lost EXCEPT ![i] = @ \cup Run(f.start, f.got)]
              /\ Goto(i, "idle")
              /\ UNCHANGED bg_free
           \/ /\ ~zone /\ ~past
              /\ bg_free' = [bg_free EXCEPT ![f.group] = U16(@ - f.got)]
              /\ Goto(i, "percpu")
              /\ UNCHANGED <<fs_error, af, lost>>
        /\ UNCHANGED <<bitmap, freeblocks, quota, owned, window, bug, ff, calls>>

\* Mutant: the counter loses what was asked for, not what was got.
ReturnCountsRequest(i) ==
    LET f == af[i]
    IN  /\ At(i, "percpu")
        /\ freeblocks' = freeblocks - f.count
        /\ quota' = [quota EXCEPT ![i] = @ - (f.count - f.got)]
        /\ owned' = [owned EXCEPT ![i] = @ \cup Run(f.start, f.got)]
        /\ af' = [af EXCEPT ![i] = NoAlloc]
        /\ Goto(i, "idle")
        /\ UNCHANGED <<bitmap, bg_free, lost, window, fs_error, bug, ff, calls>>

\* The counter, the surplus quota, and the return to the caller, which maps
\* the blocks.
Return(i) ==
    LET f == af[i]
    IN  /\ At(i, "percpu")
        /\ freeblocks' = freeblocks - f.got
        /\ quota' = [quota EXCEPT ![i] = @ - (f.count - f.got)]
        /\ owned' = [owned EXCEPT ![i] = @ \cup Run(f.start, f.got)]
        /\ af' = [af EXCEPT ![i] = NoAlloc]
        /\ Goto(i, "idle")
        /\ UNCHANGED <<bitmap, bg_free, lost, window, fs_error, bug, ff, calls>>

\* out: the call failed and its quota charge is undone.
Out(i) ==
    /\ At(i, "nospace") \/ At(i, "ioerror")
    /\ quota' = [quota EXCEPT ![i] = @ - af[i].count]
    /\ af' = [af EXCEPT ![i] = NoAlloc]
    /\ Goto(i, "idle")
    /\ UNCHANGED <<bitmap, bg_free, freeblocks, owned, lost, window, fs_error, bug, ff, calls>>

-----------------------------------------------------------------------------
(***************************************************************************)
(* kr_free_blocks.                                                         *)
(***************************************************************************)

\* A caller drops a run of blocks from the inode's map and frees it.
FreeBlocks(i) ==
    \E b \in owned[i] : \E n \in 1 .. Cardinality(owned[i]) :
        LET bad == b < FirstDataBlock \/ b + n > BlocksCount
        IN  /\ Run(b, n) \subseteq owned[i]
            /\ Enter(i)
            /\ owned' = [owned EXCEPT ![i] = @ \ Run(b, n)]
            /\ \/ /\ bad
                  /\ Complain("damage")
                  /\ lost' = [lost EXCEPT ![i] = @ \cup Run(b, n)]
                  /\ UNCHANGED <<pc, ff>>
               \/ /\ ~bad
                  /\ ff' = [ff EXCEPT ![i] = [NoFree EXCEPT !.block = b, !.count = n]]
                  /\ Goto(i, "free")
                  /\ UNCHANGED <<fs_error, lost>>
            /\ UNCHANGED <<bitmap, bg_free, freeblocks, quota, window, bug, af>>

\* do_more: cut the run at the group's end, read the bitmap, check the zone.
FreeGroup(i) ==
    LET f == ff[i]
        g == GroupOf(f.block)
        past == f.block + f.count - (GroupLast(g) + 1)
        over == IF past > 0 THEN past ELSE 0
        zone == InSystemZone(g, f.block, f.count - over)
        abandon == /\ lost' = [lost EXCEPT ![i] = @ \cup Run(f.block, f.count)]
                   /\ Goto(i, "freed")
                   /\ UNCHANGED ff
    IN  /\ At(i, "free")
        /\ \/ IOErrors /\ abandon /\ Complain("read")
           \/ zone /\ abandon /\ Complain("damage")
           \/ /\ ~zone
              /\ ff' = [ff EXCEPT ![i] = [f EXCEPT !.count = f.count - over, !.overflow = over,
                                                   !.cleared = 0, !.group_freed = 0]]
              /\ Goto(i, "clear")
              /\ UNCHANGED lost
              /\ \/ UNCHANGED fs_error
                 \/ ~kr_valid_block_bitmap(g) /\ Complain("damage")
        /\ UNCHANGED <<bitmap, bg_free, freeblocks, quota, owned, window, bug, af, calls>>

\* ext2_clear_bit_atomic on one block of the run.
ClearBit(i) ==
    LET f == ff[i]
        b == f.block + f.cleared
        set == b \in bitmap
    IN  /\ At(i, "clear")
        /\ f.cleared < f.count
        /\ bitmap' = bitmap \ {b}
        /\ fs_error' = IF set THEN fs_error ELSE fs_error \cup {"damage"}
        /\ ff' = [ff EXCEPT ![i] = [f EXCEPT !.cleared = @ + 1,
                                             !.group_freed = IF set THEN @ + 1 ELSE @]]
        /\ UNCHANGED <<bg_free, freeblocks, quota, owned, lost, window, bug, pc, af, calls>>

\* Mutant: the blocks freed in the groups before are forgotten.
FreeAdjustForgets(i) ==
    LET f == ff[i]
    IN  /\ At(i, "clear")
        /\ f.cleared = f.count
        /\ bg_free' = [bg_free EXCEPT ![GroupOf(f.block)] = U16(@ + f.group_freed)]
        /\ ff' = [ff EXCEPT ![i] = [NoFree EXCEPT !.block = f.block + f.count,
                                                  !.count = f.overflow,
                                                  !.freed = f.group_freed]]
        /\ Goto(i, IF f.overflow > 0 THEN "free" ELSE "freed")
        /\ UNCHANGED <<bitmap, freeblocks, quota, owned, lost, window, fs_error, bug, af, calls>>

\* group_adjust_blocks, then the part of the run in the next group, if any.
FreeAdjust(i) ==
    LET f == ff[i]
    IN  /\ At(i, "clear")
        /\ f.cleared = f.count
        /\ bg_free' = [bg_free EXCEPT ![GroupOf(f.block)] = U16(@ + f.group_freed)]
        /\ ff' = [ff EXCEPT ![i] = [NoFree EXCEPT !.block = f.block + f.count,
                                                  !.count = f.overflow,
                                                  !.freed = f.freed + f.group_freed]]
        /\ Goto(i, IF f.overflow > 0 THEN "free" ELSE "freed")
        /\ UNCHANGED <<bitmap, freeblocks, quota, owned, lost, window, fs_error, bug, af, calls>>

\* error_return: the counter and the quota get what was freed.
FreeReturn(i) ==
    /\ At(i, "freed")
    /\ freeblocks' = freeblocks + ff[i].freed
    /\ quota' = [quota EXCEPT ![i] = @ - ff[i].freed]
    /\ ff' = [ff EXCEPT ![i] = NoFree]
    /\ Goto(i, "idle")
    /\ UNCHANGED <<bitmap, bg_free, owned, lost, window, fs_error, bug, af, calls>>

-----------------------------------------------------------------------------
(***************************************************************************)
(* The other users of an inode's window.                                   *)
(***************************************************************************)

\* Mutant: the window is cleared and left in the tree.
DiscardReservationLeavesNode(i) ==
    /\ Enter(i)
    /\ i \in info
    /\ ~rsv_is_empty(i)
    /\ rsv' = [rsv EXCEPT ![i] = Empty(rsv[i].goal_size)]
    /\ UNCHANGED <<disk, tree, info, fs_error, bug, pc, af, ff>>

\* kr_discard_reservation: last close, truncate, eviction.
DiscardReservation(i) ==
    /\ Enter(i)
    /\ i \in info
    /\ ~rsv_is_empty(i)
    /\ rsv' = [rsv EXCEPT ![i] = Empty(rsv[i].goal_size)]
    /\ tree' = tree \ {i}
    /\ UNCHANGED <<disk, info, fs_error, bug, pc, af, ff>>

\* KR_IOC_SETRSVSZ.
SetReservationSize(i) ==
    \E size \in RsvSizes :
        /\ Enter(i)
        /\ i \in Regular
        /\ DefaultReserve > 0     \* test_opt(RESERVATION)
        /\ info' = info \cup {i}
        /\ rsv' = [rsv EXCEPT ![i].goal_size = IF size > MaxReserve THEN MaxReserve ELSE size]
        /\ UNCHANGED <<disk, tree, fs_error, bug, pc, af, ff>>

-----------------------------------------------------------------------------

AllocStep(i) ==
    \/ RetryAlloc(i) \/ ScanGroup(i) \/ ScanDone(i) \/ read_block_bitmap(i)
    \/ AllocNewReservation(i) \/ CheckReservation(i) \/ RenewReservation(i)
    \/ UseReservation(i) \/ TryToAllocate(i) \/ ClaimFirst(i) \/ ClaimMore(i)
    \/ Allocated(i) \/ Return(i) \/ Out(i)

FreeStep(i) ==
    FreeGroup(i) \/ ClearBit(i) \/ FreeAdjust(i) \/ FreeReturn(i)

Call(i) ==
    NewBlocks(i) \/ FreeBlocks(i) \/ DiscardReservation(i) \/ SetReservationSize(i)

Next == \E i \in Inodes : Call(i) \/ AllocStep(i) \/ FreeStep(i)

Spec == Init /\ [][Next]_vars

\* A thread inside a call is scheduled again; nobody has to make a call.
FairSpec == Spec /\ \A i \in Inodes : WF_vars(AllocStep(i) \/ FreeStep(i))

-----------------------------------------------------------------------------
(***************************************************************************)
(* Properties.                                                             *)
(***************************************************************************)

Labels == {"idle", "retry", "scan", "rsv", "check", "renew", "try", "claim",
           "more", "allocated", "percpu", "nospace", "ioerror",
           "free", "clear", "freed"}

Window == [start : Int, end : Int, goal_size : Nat, hit : Nat]

AllocFrame == [goal : FirstDataBlock .. BlocksCount - 1, count : Nat, num : Nat,
               group : Groups, bgi : Nat, my_rsv : BOOLEAN, windowsz : Nat,
               grp_goal : Int, failed : BOOLEAN, start : Int, end : Int, got : Nat]

FreeFrame == [block : Int, count : Int, overflow : Int, cleared : Nat,
              group_freed : Nat, freed : Nat]

\* The variables hold what the code's declarations say.
TypeOK ==
    /\ bitmap \subseteq Int
    /\ bg_free \in [Groups -> Int]
    /\ freeblocks \in Int
    /\ quota \in [Inodes -> Int]
    /\ owned \in [Inodes -> SUBSET Int]
    /\ lost \in [Inodes -> SUBSET Int]
    /\ rsv \in [Nodes -> Window]
    /\ tree \subseteq Nodes
    /\ info \subseteq Regular
    /\ fs_error \subseteq {"read", "damage"}
    /\ bug \in BOOLEAN
    /\ pc \in [Inodes -> Labels]
    /\ af \in [Inodes -> AllocFrame]
    /\ ff \in [Inodes -> FreeFrame]
    /\ calls \in [Inodes -> Nat]

Overlap(m, n) == rsv[m].start <= rsv[n].end /\ rsv[n].start <= rsv[m].end

\* The tree of s_rsv_window_lock: a window is linked exactly while it is
\* allocated, is not backwards, and shares no block with another window
\* (what the rb-tree searches and try_to_extend_reservation rely on).
WindowsDisjoint ==
    /\ RsvHead \in tree
    /\ \A i \in Inodes : i \in tree <=> ~rsv_is_empty(i)
    /\ \A n \in tree : rsv[n].start <= rsv[n].end
    /\ \A m, n \in tree : m # n => ~Overlap(m, n)

\* Neither kr_rsv_window_add's BUG() (a window that starts inside another)
\* nor kr_try_to_allocate_with_rsv's (a window outside its group) is reached.
NoBUG == ~bug

\* A thread that allocates from its window computed its range before other
\* threads moved, extended or dropped theirs; still no block it may claim
\* lies in the window of another inode.
ClaimsOnlyOwnReservation ==
    \A i \in Inodes :
        (pc[i] \in {"claim", "more"} /\ af[i].my_rsv) =>
            \A b \in af[i].start .. af[i].end - 1 : \A n \in tree \ {i} :
                ~(rsv[n].start <= b /\ b <= rsv[n].end)

\* The blocks kr_new_blocks has claimed for inode i and not yet returned.
Claimed(i) ==
    IF pc[i] \in {"more", "allocated", "percpu"} THEN Run(af[i].start, af[i].got) ELSE {}

\* The blocks a kr_free_blocks on inode i has still to clear.
ToClear(i) ==
    CASE pc[i] = "free" -> Run(ff[i].block, ff[i].count)
      [] pc[i] = "clear" -> (ff[i].block + ff[i].cleared) ..
                            (ff[i].block + ff[i].count + ff[i].overflow - 1)
      [] OTHER -> {}

Held(i) == owned[i] \cup lost[i] \cup Claimed(i) \cup ToClear(i)

GroupBits(g) == GroupFirst(g) .. GroupLast(g)

\* The fields of the descriptors are numbers.
DescriptorNumbers ==
    \A g \in Groups :
        /\ Metadata[g].block_bitmap \in Int /\ Metadata[g].inode_bitmap \in Int
        /\ Metadata[g].inode_table \in Int /\ Metadata[g].itb \in Nat

\* last_block of kr_check_descriptors: the last group ends with the filesystem.
GroupEnd(g) == IF g = GroupsCount - 1 THEN BlocksCount - 1 ELSE GroupLast(g)

\* What kr_check_descriptors has checked when the filesystem is mounted.
DescriptorsChecked ==
    /\ DescriptorNumbers
    /\ \A g \in Groups : MetadataBlocks(g) \subseteq GroupFirst(g) .. GroupEnd(g)

\* Where mkfs puts an inode table: right behind a bitmap.  No check asks for it.
TablesBehindBitmaps ==
    \A g \in Groups :
        Metadata[g].inode_table - 1 \in {Metadata[g].block_bitmap, Metadata[g].inode_bitmap}

\* At mount every block in a block map has its bit set and one owner: what
\* e2fsck leaves behind.
SaneMount ==
    /\ \A i \in Inodes : InitOwned[i] \subseteq InitBitmap
    /\ \A i, j \in Inodes : i # j => InitOwned[i] \cap InitOwned[j] = {}

AllMetadata == UNION {MetadataBlocks(g) : g \in Groups}

AllBitmaps == UNION {{Metadata[g].block_bitmap, Metadata[g].inode_bitmap} : g \in Groups}

\* At mount every block that is not for data, that is, metadata and what is past the end
\* of the filesystem, has its bit set, and nobody maps one.
SaneZones ==
    LET data == (FirstDataBlock .. BlocksCount - 1) \ AllMetadata
    IN  /\ DescriptorNumbers
        /\ Bits \ data \subseteq InitBitmap
        /\ \A i \in Inodes : InitOwned[i] \subseteq data

\* At mount there are finitely many inodes, a group fits its 16-bit count, and the
\* bits of the metadata are set.
SaneCounts ==
    /\ IsFiniteSet(Inodes)
    /\ BlocksPerGroup < 65536
    /\ \A g \in Groups : Bits \cap MetadataBlocks(g) \subseteq InitBitmap

\* No block is in the hands of two inodes, from the atomic claim of its bit to
\* the atomic clearing of that bit, and a block in somebody's hands has its
\* bit set.
NoBlockHeldTwice ==
    /\ \A i \in Inodes : Held(i) \subseteq bitmap
    /\ \A i, j \in Inodes : i # j => Held(i) \cap Held(j) = {}

\* The sum of a function from the inodes to numbers, counted as a set of pairs.
Total(f) == Cardinality(UNION {{i} \X (1 .. f[i]) : i \in Inodes})

\* Blocks of group g whose bit is set but not yet counted off by i, and bits
\* i has cleared but not yet counted.
ClaimedUncounted(i, g) ==
    IF pc[i] \in {"more", "allocated"} /\ af[i].group = g THEN af[i].got ELSE 0

ClearedUncounted(i, g) ==
    IF pc[i] = "clear" /\ GroupOf(ff[i].block) = g THEN ff[i].group_freed ELSE 0

\* The number of blocks of g that are free or on their way to be counted.
ExpectedFree(g) ==
    Cardinality(GroupBits(g) \ bitmap)
        + Total([i \in Inodes |-> ClaimedUncounted(i, g)])
        - Total([i \in Inodes |-> ClearedUncounted(i, g)])

\* The same of the filesystem: a call is on its way until the per-CPU counter has
\* what it took or gave back.
Unreturned(i) == IF pc[i] \in {"more", "allocated", "percpu"} THEN af[i].got ELSE 0

Unfreed(i) == IF pc[i] = "clear" THEN ff[i].freed + ff[i].group_freed ELSE ff[i].freed

ExpectedFreeBlocks ==
    Cardinality(Bits \ bitmap)
        + Total([i \in Inodes |-> Unreturned(i)]) - Total([i \in Inodes |-> Unfreed(i)])

\* While no damage has been found, every group's bg_free_blocks_count is, as a
\* 16-bit number, its number of clear bits up to the calls that stand between
\* a bit and its group_adjust_blocks; s_freeblocks_counter is the number of all
\* clear bits up to the calls that stand between a bit and the counter.
FreeCountsAgree ==
    "damage" \notin fs_error =>
        /\ \A g \in Groups : bg_free[g] = U16(ExpectedFree(g))
        /\ freeblocks = ExpectedFreeBlocks

\* kr.h calls bg_free_blocks_count the "Free blocks count" of the group.
GroupCountInRange == \A g \in Groups : bg_free[g] <= BlocksPerGroup

\* What a call in progress keeps charged beyond the inode's blocks.
InFlight(i) ==
    CASE pc[i] \in {"free", "clear"} -> ff[i].count + ff[i].overflow + ff[i].freed
      [] pc[i] = "freed" -> ff[i].freed
      [] OTHER -> af[i].count

\* Quota and i_blocks charge an inode for exactly its blocks and its call in
\* progress: partial allocations return their surplus, failed ones everything.
QuotaAgrees ==
    "damage" \notin fs_error =>
        \A i \in Inodes : quota[i] = Cardinality(owned[i]) + Cardinality(lost[i]) + InFlight(i)

\* What the allocator keeps of its blocks, per group, in all and per inode, agrees
\* with the bitmaps and with who has them.
AccountsAgree == FreeCountsAgree /\ QuotaAgrees

\* Whatever fails on the way of an allocation or of a free across two groups, no block
\* has two holders, counts and quota agree with the bitmaps, and kr_error reports the
\* failed reads and no damage.
SoundUnderFaults == NoBlockHeldTwice /\ AccountsAgree /\ "damage" \notin fs_error

\* With no other call in progress, kr_new_blocks reports ENOSPC only when no
\* block is free or the caller may not use the reserved ones: windows of other
\* inodes never make a filesystem full.
NoBogusENOSPC ==
    \A i \in Inodes : pc[i] = "nospace" => freeblocks <= RootBlocks \/ Bits \subseteq bitmap

\* Whatever the bitmaps and block maps say, no metadata block is handed to an
\* inode and no metadata bit is cleared.
MetadataIsSafe ==
    [][/\ \A i \in Inodes : (owned'[i] \ owned[i]) \cap AllMetadata = {}
       /\ bitmap \cap AllMetadata \subseteq bitmap']_vars

\* The same of the blocks of the bitmaps alone.
BitmapsAreSafe ==
    [][/\ \A i \in Inodes : (owned'[i] \ owned[i]) \cap AllBitmaps = {}
       /\ bitmap \cap AllBitmaps \subseteq bitmap']_vars

\* Every call returns, although retries and lost bits send it round again.
CallsReturn == \A i \in Inodes : pc[i] # "idle" ~> pc[i] = "idle"

=============================================================================
