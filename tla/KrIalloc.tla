------------------------------- MODULE KrIalloc -------------------------------
(***************************************************************************)
(* The inode allocator of the kr filesystem (Exercises/Exercise19/ialloc.c) *)
(* and the part of kr_evict_inode that leads to kr_free_inode.             *)
(*                                                                         *)
(* An actor is a task in kr_new_inode or in the eviction of an unlinked    *)
(* inode; tasks interleave.  One action is one access to state that tasks  *)
(* share: a bit of an inode bitmap, the counts of a group (sb_bgl_lock),   *)
(* the per-CPU counters, the inode cache.  The three find_group functions  *)
(* only read, and each is one look at the group descriptors: what they     *)
(* return is a hint, stale as soon as it is returned.                      *)
(*                                                                         *)
(* An inode number stands for its bit: bit b of group g is the inode       *)
(* g * InodesPerGroup + b + 1.                                             *)
(***************************************************************************)
EXTENDS Integers, FiniteSets, FiniteSetsExt

CONSTANTS
    Tasks,            \* the tasks that create and evict inodes
    GroupsCount,      \* s_groups_count
    InodesPerGroup,   \* KR_INODES_PER_GROUP
    InodesCount,      \* es->s_inodes_count
    FirstIno,         \* KR_FIRST_INO
    BlocksPerGroup,   \* KR_BLOCKS_PER_GROUP
    BlocksCount,      \* es->s_blocks_count
    BlockCounts,      \* what the groups' bg_free_blocks_count may be
    OldAlloc,         \* values of test_opt(sb, OLDALLOC), which a remount changes
    Parents,          \* the directories in which inodes are created
    InodeCost,        \* INODE_COST (64)
    BlockCost,        \* BLOCK_COST (256)
    DirShare,         \* the 16 in max_dirs
    RoomShare,        \* the 4 in min_inodes and min_blocks
    MaxDebt,          \* the bound of s_debts (255)
    InitBitmap,       \* the inodes whose bit is set at mount
    InitLive,         \* the inodes with a name at mount
    InitDirs,         \* those of them that are directories
    CounterLag,       \* how far percpu_counter_read_positive may be off
    IOErrors,         \* may reading a bitmap fail?
    MaxCalls,         \* bound: calls made by each task
    Sequential        \* only one task at a time has a call in progress?

Groups == 0 .. GroupsCount - 1

FirstOf(g) == g * InodesPerGroup + 1

LastOf(g) == (g + 1) * InodesPerGroup

GroupOf(ino) == (ino - 1) \div InodesPerGroup

Inos == 1 .. LastOf(GroupsCount - 1)

\* Not reserved, and within s_inodes_count.
ValidIno(ino) == FirstIno <= ino /\ ino <= InodesCount

\* ++group, back to 0 at s_groups_count.
NextGroup(g) == (g + 1) % GroupsCount

ASSUME ConstantsAssumption ==
    /\ GroupsCount \in Nat \ {0}
    /\ InodesPerGroup \in Nat \ {0}
    /\ InodesCount \in Nat
    /\ FirstIno \in Nat
    /\ BlocksPerGroup \in Nat
    /\ BlocksCount \in Nat
    /\ BlockCounts \subseteq [Groups -> Nat]
    /\ Parents \subseteq [group : Groups, ino : Nat, top : BOOLEAN]
    /\ InodeCost \in Nat \ {0}
    /\ BlockCost \in Nat \ {0}
    /\ DirShare \in Nat \ {0}
    /\ RoomShare \in Nat \ {0}
    /\ MaxDebt \in Nat
    /\ InitBitmap \subseteq Inos
    /\ InitLive \subseteq Inos
    /\ InitDirs \subseteq InitLive
    /\ CounterLag \in Nat
    /\ MaxCalls \in [Tasks -> Nat]
    /\ OldAlloc \subseteq BOOLEAN

VARIABLES
    bitmap,      \* the inodes whose bit is set, over all groups
    bg_free,     \* bg_free_inodes_count of each group
    bg_dirs,     \* bg_used_dirs_count of each group
    debts,       \* s_debts
    freeinodes,  \* s_freeinodes_counter
    dirs,        \* s_dirs_counter
    live,        \* the inodes with a name
    isdir,       \* the inodes whose mode says directory
    cached,      \* the inodes in the inode cache, those being freed excepted
    lost,        \* unlinked inodes whose kr_free_inode gave up, or leaked ones
    charged,     \* inodes charged to the quota (dquot)
    fs_error,    \* what kr_error was called for: "read", "damage"
    pc,          \* where the call of each task stands
    fr,          \* its locals
    calls        \* calls made so far by each task

counts == <<bg_free, bg_dirs, debts>>
counters == <<freeinodes, dirs>>
inodes == <<live, isdir, cached, lost, charged>>
vars == <<bitmap, counts, counters, inodes, fs_error, pc, fr, calls>>

U16(n) == n % 65536

NoCall == [dir |-> FALSE, group |-> 0, i |-> 0, ino |-> 0, noquota |-> FALSE]

Bits(g) == FirstOf(g) .. LastOf(g)

Init ==
    /\ bitmap = InitBitmap
    /\ bg_free = [g \in Groups |-> Cardinality(Bits(g) \ InitBitmap)]
    /\ bg_dirs = [g \in Groups |-> Cardinality(Bits(g) \cap InitDirs)]
    /\ debts = [g \in Groups |-> 0]
    /\ freeinodes = Cardinality(Inos \ InitBitmap)
    /\ dirs = Cardinality(InitDirs)
    /\ live = InitLive
    /\ isdir = InitDirs
    /\ cached = {}
    /\ lost = {}
    /\ charged = Cardinality(InitLive)
    /\ fs_error = {}
    /\ pc = [t \in Tasks |-> "idle"]
    /\ fr = [t \in Tasks |-> NoCall]
    /\ calls = [t \in Tasks |-> 0]

At(t, label) == pc[t] = label

Goto(t, label) == pc' = [pc EXCEPT ![t] = label]

Frame(t, f) == fr' = [fr EXCEPT ![t] = f]

Finish(t) == Goto(t, "idle") /\ Frame(t, NoCall)

Enter(t) ==
    /\ At(t, "idle")
    /\ calls[t] < MaxCalls[t]
    /\ Sequential => \A u \in Tasks : At(u, "idle")
    /\ calls' = [calls EXCEPT ![t] = @ + 1]

-----------------------------------------------------------------------------
(***************************************************************************)
(* The choice of a group.  Each operator is the set of the group returned, *)
(* empty for -1; blocks is bg_free_blocks_count of the groups.             *)
(***************************************************************************)

\* The first group of S that a search going round from start meets.
FirstFrom(start, S) ==
    {g \in S : \A h \in S : (g - start) % GroupsCount <= (h - start) % GroupsCount}

WithFree == {g \in Groups : bg_free[g] > 0}

kr_count_free_inodes == MapThenSumSet(LAMBDA g : bg_free[g], Groups)

find_group_dir(blocks) ==
    LET ok == {g \in WithFree : bg_free[g] >= kr_count_free_inodes \div GroupsCount}
    IN  FirstFrom(0, {g \in ok : \A h \in ok : blocks[h] <= blocks[g]})

\* Mutant: the second pass, with avefreei = 0, is left out.
FallbackOnePass(start, avefreei) ==
    FirstFrom(start, {g \in WithFree : bg_free[g] >= avefreei})

\* Groups with as many free inodes as average; failing that, with any.
Fallback(start, avefreei) ==
    LET ok == {g \in WithFree : bg_free[g] >= avefreei}
    IN  FirstFrom(start, IF ok = {} THEN WithFree ELSE ok)

\* A directory of the first level: the fewest directories, from a random start.
OrlovTop(start, blocks, avefreei, avefreeb) ==
    LET ok == {g \in WithFree : /\ bg_dirs[g] < InodesPerGroup
                                /\ bg_free[g] >= avefreei
                                /\ blocks[g] >= avefreeb}
    IN  IF ok = {} THEN Fallback(start, avefreei)
        ELSE FirstFrom(start, {g \in ok : \A h \in ok : bg_dirs[g] <= bg_dirs[h]})

\* max_debt, from the blocks that a directory uses on average.
DebtLimit(blocks_per_dir) ==
    LET debt == BlocksPerGroup \div Max({blocks_per_dir, BlockCost})
        fair == IF debt * InodeCost > InodesPerGroup THEN InodesPerGroup \div InodeCost ELSE debt
    IN  Max({1, Min({fair, MaxDebt})})

\* Any other directory: near its parent, unless the group is crowded.
OrlovNear(start, blocks, avefreei, free_blocks, ndirs) ==
    LET n == Max({1, ndirs})
        max_dirs == n \div GroupsCount + InodesPerGroup \div DirShare
        max_debt == DebtLimit((BlocksCount - free_blocks) \div n)
        ok == {g \in WithFree :
                 /\ debts[g] < max_debt
                 /\ bg_dirs[g] < max_dirs
                 /\ bg_free[g] >= avefreei - InodesPerGroup \div RoomShare
                 /\ blocks[g] >= free_blocks \div GroupsCount - BlocksPerGroup \div RoomShare}
    IN  IF ok = {} THEN Fallback(start, avefreei) ELSE FirstFrom(start, ok)

\* percpu_counter_read_positive
ReadPositive(counter) == {Max({0, counter + d}) : d \in -CounterLag .. CounterLag}

find_group_orlov(parent, random, blocks, freei, ndirs) ==
    LET avefreei == freei \div GroupsCount
        free_blocks == MapThenSumSet(LAMBDA g : blocks[g], Groups)
    IN  IF parent.top
        THEN OrlovTop(random, blocks, avefreei, free_blocks \div GroupsCount)
        ELSE OrlovNear(parent.group, blocks, avefreei, free_blocks, ndirs)

\* The groups of the quadratic hash, in the order of the steps 1, 2, 4, ...
Hashed(parent, k) == (parent.group + parent.ino + 2 ^ k - 1) % GroupsCount

find_group_other(parent, blocks) ==
    LET roomy == {g \in WithFree : blocks[g] > 0}
        hits == {k \in 1 .. GroupsCount : 2 ^ (k - 1) < GroupsCount /\ Hashed(parent, k) \in roomy}
    IN  CASE parent.group \in roomy -> {parent.group}
          [] parent.group \notin roomy /\ hits # {} -> {Hashed(parent, Min(hits))}
          [] OTHER -> FirstFrom(NextGroup(parent.group), WithFree)

\* kr_error, for a bitmap that cannot be read or for what is wrong with the image.
Complain(why) == fs_error' = fs_error \cup {why}

\* read_inode_bitmap: whether a bitmap is read; kr_error when it is not.
ReadBitmap(ok) ==
    /\ ok \/ IOErrors
    /\ fs_error' = IF ok THEN fs_error ELSE fs_error \cup {"read"}

-----------------------------------------------------------------------------
(***************************************************************************)
(* kr_new_inode.                                                           *)
(***************************************************************************)

\* What the policy for the new inode may return, given a reading of the
\* counters and, for a directory of the first level, a random number.
GroupChoices(parent, dir, blocks) ==
    IF ~dir THEN {find_group_other(parent, blocks)}
    ELSE {IF oldalloc THEN find_group_dir(blocks)
          ELSE find_group_orlov(parent, random, blocks, freei, ndirs) :
             oldalloc \in OldAlloc, random \in Groups,
             freei \in ReadPositive(freeinodes), ndirs \in ReadPositive(dirs)}

\* Entry, and the choice of the first group to search.
NewInode(t) ==
    /\ Enter(t)
    /\ \E parent \in Parents, dir \in BOOLEAN, blocks \in BlockCounts :
         \E found \in GroupChoices(parent, dir, blocks) :
            \/ /\ found = {}
               /\ Goto(t, "nospace")
               /\ UNCHANGED fr
            \/ \E g \in found :
                 /\ Goto(t, "scan")
                 /\ Frame(t, [NoCall EXCEPT !.dir = dir, !.group = g])
    /\ UNCHANGED <<bitmap, counts, counters, inodes, fs_error>>

\* The head of the loop over the groups: read the bitmap of this one.
ScanGroup(t) ==
    LET f == fr[t]
    IN  /\ At(t, "scan")
        /\ \/ /\ f.i = GroupsCount
              /\ Goto(t, "nospace")
              /\ UNCHANGED <<fs_error, fr>>
           \/ /\ f.i < GroupsCount
              /\ ReadBitmap(TRUE)
              /\ Goto(t, "find")
              /\ Frame(t, [f EXCEPT !.ino = FirstOf(f.group)])
           \/ /\ f.i < GroupsCount
              /\ ReadBitmap(FALSE)
              /\ Goto(t, "fail")
              /\ UNCHANGED fr
        /\ UNCHANGED <<bitmap, counts, counters, inodes, calls>>

\* This group is exhausted: on with the next one.
LeaveGroup(t) ==
    /\ Frame(t, [fr[t] EXCEPT !.group = NextGroup(@), !.i = @ + 1])
    /\ Goto(t, "scan")

\* repeat_in_this_group: the next clear bit, if there is one.
FindBit(t) ==
    LET f == fr[t]
        clear == (f.ino .. LastOf(f.group)) \ bitmap
    IN  /\ At(t, "find")
        /\ \/ clear = {} /\ LeaveGroup(t)
           \/ /\ clear # {}
              /\ Frame(t, [f EXCEPT !.ino = Min(clear)])
              /\ Goto(t, "claim")
        /\ UNCHANGED <<bitmap, counts, counters, inodes, fs_error, calls>>

\* Mutant: the result of the atomic set is not looked at.
ClaimBitBlind(t) ==
    /\ At(t, "claim")
    /\ bitmap' = bitmap \cup {fr[t].ino}
    /\ Goto(t, "got")
    /\ UNCHANGED <<counts, counters, inodes, fs_error, fr, calls>>

\* ext2_set_bit_atomic, and what follows when another task was faster.
ClaimBit(t) ==
    LET f == fr[t]
    IN  /\ At(t, "claim")
        /\ \/ /\ f.ino \notin bitmap
              /\ bitmap' = bitmap \cup {f.ino}
              /\ Goto(t, "got")
              /\ UNCHANGED fr
           \/ /\ f.ino \in bitmap
              /\ f.ino < LastOf(f.group)
              /\ Frame(t, [f EXCEPT !.ino = @ + 1])
              /\ Goto(t, "find")
              /\ UNCHANGED bitmap
           \/ /\ f.ino \in bitmap
              /\ f.ino = LastOf(f.group)
              /\ LeaveGroup(t)
              /\ UNCHANGED bitmap
        /\ UNCHANGED <<counts, counters, inodes, fs_error, calls>>

\* got: the number is checked (a bad one keeps its bit), the per-CPU counters
\* updated.
NumberInode(t) ==
    LET f == fr[t]
    IN  /\ At(t, "got")
        /\ \/ /\ ~ValidIno(f.ino)
              /\ Complain("damage")
              /\ Goto(t, "fail")
              /\ UNCHANGED counters
           \/ /\ ValidIno(f.ino)
              /\ freeinodes' = freeinodes - 1
              /\ dirs' = IF f.dir THEN dirs + 1 ELSE dirs
              /\ Goto(t, "count")
              /\ UNCHANGED fs_error
        /\ UNCHANGED <<bitmap, counts, inodes, fr, calls>>

\* Mutant: the count of directories is forgotten.
CountInodeNotDirs(t) ==
    LET f == fr[t]
        debt == debts[f.group]
    IN  /\ At(t, "count")
        /\ bg_free' = [bg_free EXCEPT ![f.group] = U16(@ - 1)]
        /\ debts' = [debts EXCEPT ![f.group] = IF f.dir THEN Min({MaxDebt, debt + 1})
                                               ELSE Max({0, debt - 1})]
        /\ Goto(t, "insert")
        /\ UNCHANGED <<bitmap, bg_dirs, counters, inodes, fs_error, fr, calls>>

\* The group's counts and its debt, under sb_bgl_lock.
CountInode(t) ==
    LET f == fr[t]
        debt == debts[f.group]
    IN  /\ At(t, "count")
        /\ bg_free' = [bg_free EXCEPT ![f.group] = U16(@ - 1)]
        /\ bg_dirs' = [bg_dirs EXCEPT ![f.group] = IF f.dir THEN U16(@ + 1) ELSE @]
        /\ debts' = [debts EXCEPT ![f.group] = IF f.dir THEN Min({MaxDebt, debt + 1})
                                               ELSE Max({0, debt - 1})]
        /\ Goto(t, "insert")
        /\ UNCHANGED <<bitmap, counters, inodes, fs_error, fr, calls>>

\* The new inode's mode is f.dir's.
SetMode(f) == isdir' = IF f.dir THEN isdir \cup {f.ino} ELSE isdir \ {f.ino}

\* insert_inode_locked: fails if an inode with this number is in the cache.
InsertInode(t) ==
    LET f == fr[t]
    IN  /\ At(t, "insert")
        /\ \/ /\ f.ino \in cached
              /\ Complain("damage")
              /\ Goto(t, "fail")
              /\ UNCHANGED <<cached, isdir>>
           \/ /\ f.ino \notin cached
              /\ cached' = cached \cup {f.ino}
              /\ SetMode(f)
              /\ Goto(t, "quota")
              /\ UNCHANGED fs_error
        /\ UNCHANGED <<bitmap, counts, counters, live, lost, charged, fr, calls>>

\* dquot_initialize and dquot_alloc_inode.  When one fails, the inode without
\* links is evicted (fail_drop); else it is returned and gets a name.
InitQuota(t) ==
    LET f == fr[t]
    IN  /\ At(t, "quota")
        /\ \/ /\ charged' = charged + 1
              /\ live' = live \cup {f.ino}
              /\ Finish(t)
              /\ UNCHANGED cached
           \/ /\ cached' = cached \ {f.ino}
              /\ Frame(t, [f EXCEPT !.noquota = TRUE])
              /\ Goto(t, "evict")
              /\ UNCHANGED <<live, charged>>
        /\ UNCHANGED <<bitmap, counts, counters, isdir, lost, fs_error, calls>>

\* fail: the bad inode is dropped, and nothing is undone.
Fail(t) ==
    /\ pc[t] \in {"nospace", "fail"}
    /\ Finish(t)
    /\ UNCHANGED <<bitmap, counts, counters, inodes, fs_error, calls>>

-----------------------------------------------------------------------------
(***************************************************************************)
(* The last iput of an unlinked inode.                                     *)
(***************************************************************************)

\* An inode with a name is read into the cache (kr_iget); kr_get_inode refuses
\* a bad number.  The root directory stays in the cache and is not in live.
Iget ==
    \E ino \in live \ cached :
        /\ ValidIno(ino)
        /\ cached' = cached \cup {ino}
        /\ UNCHANGED <<bitmap, counts, counters, live, isdir, lost, charged, fs_error, pc, fr, calls>>

\* An inode of kr_new_inode is I_NEW until it is returned: whoever comes by a name to
\* its number, as on a damaged image, waits in kr_iget.
BeingMade(ino) == \E u \in Tasks : At(u, "quota") /\ fr[u].ino = ino

\* Mutant: the cache does not learn that the inode is being freed.
UnlinkStaysCached(t) ==
    \E ino \in live \cap cached :
        /\ Enter(t)
        /\ ~BeingMade(ino)
        /\ live' = live \ {ino}
        /\ Frame(t, [NoCall EXCEPT !.ino = ino, !.dir = ino \in isdir])
        /\ Goto(t, "evict")
        /\ UNCHANGED <<bitmap, counts, counters, isdir, cached, lost, charged, fs_error>>

\* Its last name is removed and its last user goes: kr_evict_inode.
Unlink(t) ==
    \E ino \in live \cap cached :
        /\ Enter(t)
        /\ ~BeingMade(ino)
        /\ live' = live \ {ino}
        /\ cached' = cached \ {ino}
        /\ Frame(t, [NoCall EXCEPT !.ino = ino, !.dir = ino \in isdir])
        /\ Goto(t, "evict")
        /\ UNCHANGED <<bitmap, counts, counters, isdir, lost, charged, fs_error>>

\* The start of kr_free_inode: the quota, the test of the number, the bitmap.
FreeInode(t) ==
    LET f == fr[t]
        gives_up(why) == Complain(why) /\ lost' = lost \cup {f.ino} /\ Finish(t)
    IN  /\ At(t, "evict")
        /\ charged' = IF f.noquota THEN charged ELSE charged - 1
        /\ \/ ~ValidIno(f.ino) /\ gives_up("damage")
           \/ ValidIno(f.ino) /\ IOErrors /\ gives_up("read")
           \/ /\ ValidIno(f.ino)
              /\ Goto(t, "free")
              /\ UNCHANGED <<lost, fs_error, fr>>
        /\ UNCHANGED <<bitmap, counts, counters, live, isdir, cached, calls>>

\* ext2_clear_bit_atomic
ClearBit(t) ==
    LET f == fr[t]
    IN  /\ At(t, "free")
        /\ bitmap' = bitmap \ {f.ino}
        /\ \/ f.ino \in bitmap /\ Goto(t, "release") /\ UNCHANGED <<fs_error, fr>>
           \/ f.ino \notin bitmap /\ Complain("damage") /\ Finish(t)
        /\ UNCHANGED <<counts, counters, inodes, calls>>

\* kr_release_inode: the group's counts, under sb_bgl_lock.
ReleaseInode(t) ==
    LET f == fr[t]
        g == GroupOf(f.ino)
    IN  /\ At(t, "release")
        /\ bg_free' = [bg_free EXCEPT ![g] = U16(@ + 1)]
        /\ bg_dirs' = [bg_dirs EXCEPT ![g] = IF f.dir THEN U16(@ - 1) ELSE @]
        /\ Goto(t, "released")
        /\ UNCHANGED <<bitmap, debts, counters, inodes, fs_error, fr, calls>>

\* kr_release_inode: the counter of directories.
ReleaseDir(t) ==
    /\ At(t, "released")
    /\ dirs' = IF fr[t].dir THEN dirs - 1 ELSE dirs
    /\ Finish(t)
    /\ UNCHANGED <<bitmap, counts, freeinodes, inodes, fs_error, calls>>

-----------------------------------------------------------------------------

Step(t) ==
    \/ ScanGroup(t) \/ FindBit(t) \/ ClaimBit(t) \/ NumberInode(t) \/ CountInode(t)
    \/ InsertInode(t) \/ InitQuota(t) \/ Fail(t)
    \/ FreeInode(t) \/ ClearBit(t) \/ ReleaseInode(t) \/ ReleaseDir(t)

Next == Iget \/ \E t \in Tasks : NewInode(t) \/ Unlink(t) \/ Step(t)

Spec == Init /\ [][Next]_vars

\* A task inside a call is scheduled again; nobody has to make a call.
FairSpec == Spec /\ \A t \in Tasks : WF_vars(Step(t))

-----------------------------------------------------------------------------
(***************************************************************************)
(* Properties.                                                             *)
(***************************************************************************)

Labels == {"idle", "scan", "find", "claim", "got", "count", "insert", "quota",
           "nospace", "fail", "evict", "free", "release", "released"}

\* The image that is mounted: an inode with a name has its bit set, and a bit that is
\* clear belongs to a number that may be given out, as does that of a name.
SaneImage ==
    /\ InitLive \subseteq InitBitmap
    /\ \A ino \in InitLive \cup (Inos \ InitBitmap) : ValidIno(ino)

\* The counts of a group fit into their 16 bits.
CountsFit == IsFiniteSet(Tasks) /\ InodesPerGroup + Cardinality(Tasks) < 65536

\* The variables hold what the code's declarations say; in particular a call's
\* group is a group of the filesystem and a debt is within 0 .. 255.
TypeOK ==
    /\ bitmap \subseteq Inos
    /\ bg_free \in [Groups -> Int]
    /\ bg_dirs \in [Groups -> Int]
    /\ debts \in [Groups -> 0 .. MaxDebt]
    /\ freeinodes \in Int
    /\ dirs \in Int
    /\ live \subseteq Inos
    /\ isdir \subseteq Inos
    /\ cached \subseteq Inos
    /\ lost \subseteq Inos
    /\ charged \in Int
    /\ fs_error \subseteq {"read", "damage"}
    /\ pc \in [Tasks -> Labels]
    /\ fr \in [Tasks -> [dir : BOOLEAN, group : Groups, i : 0 .. GroupsCount,
                         ino : Int, noquota : BOOLEAN]]
    /\ calls \in [Tasks -> Nat]

\* The inode in the hands of a task: claimed and not yet returned, or unlinked
\* and not yet cleared.
InHand(t) ==
    IF pc[t] \in {"got", "count", "insert", "quota", "evict", "free"} THEN {fr[t].ino} ELSE {}

\* No inode number is in use twice, from the atomic claim of its bit to the
\* atomic clearing of that bit ("then we'd have two inodes sharing the same
\* inode number and space on the harddisk", kr_free_inode), and a number in
\* use has its bit set.
NoInodeTwice ==
    /\ live \cup lost \subseteq bitmap
    /\ \A t \in Tasks : InHand(t) \subseteq bitmap \ (live \cup lost)
    /\ \A t, u \in Tasks : t # u => InHand(t) \cap InHand(u) = {}

\* Tasks in group g that stand at one of the labels.
Standing(labels, g) == {t \in Tasks : pc[t] \in labels /\ GroupOf(fr[t].ino) = g}

\* Those whose inode is a directory.
WithDir(tasks) == {t \in tasks : fr[t].dir}

\* Directories that are counted in group g: the live and the lost ones, and
\* those of calls that have counted them already or still do.
ExpectedDirs(g) ==
    Cardinality(Bits(g) \cap isdir \cap (live \cup lost))
        + Cardinality(WithDir(Standing({"insert", "quota", "evict", "free", "release"}, g)))

\* Calls whose directory s_dirs_counter counts.
Counted == {t \in Tasks : pc[t] \in {"count", "insert", "quota", "evict", "free", "release",
                                      "released"}}

\* The counts of every group agree with its bitmap and with its directories up
\* to the calls that stand between a bit and its count, and s_dirs_counter with
\* all of the directories, whichever bitmaps could not be read.
CountsAgree ==
    /\ \A g \in Groups :
         /\ bg_free[g] = U16(Cardinality(Bits(g) \ bitmap)
                             + Cardinality(Standing({"got", "count"}, g))
                             - Cardinality(Standing({"release"}, g)))
         /\ bg_dirs[g] = ExpectedDirs(g)
    /\ dirs = Cardinality(isdir \cap (live \cup lost)) + Cardinality(WithDir(Counted))

\* The quota is charged for the inodes with a name and for those on their way
\* to kr_free_inode, but never for one whose dquot_alloc_inode failed.
InodeQuotaAgrees ==
    charged = Cardinality(live) + Cardinality({t \in Tasks : pc[t] = "evict" /\ ~fr[t].noquota})

\* The free inodes and directories that the groups and the superblock count, and the
\* inodes that quota charges, agree with the bitmaps and the calls in progress, though
\* a bitmap cannot be read.
InodeAccountsAgree == TypeOK /\ CountsAgree /\ InodeQuotaAgrees

\* On a sane image, no race between creations and evictions and no bitmap that cannot be
\* read makes the allocator report a damaged filesystem ("inode number already in use",
\* "bit already cleared", "reserved inode").
NoFalseAlarm == "damage" \notin fs_error

\* With one call at a time, the group that find_group_dir, find_group_orlov or
\* find_group_other names has a free inode, whatever the approximate counters
\* say: the search never moves on, and ENOSPC means that every inode is used.
ChoiceIsRight ==
    \A t \in Tasks :
        /\ pc[t] = "scan" => fr[t].i = 0
        /\ pc[t] = "nospace" => Inos \subseteq bitmap

\* Whatever the bitmaps say, the inode that kr_new_inode initialises and returns has no
\* reserved number and none past s_inodes_count; when it enters the cache no inode of
\* that number is there, and until it is returned no other call makes one: there are
\* never two inodes of one number in memory.
NoBadInode ==
    [][/\ \A ino \in live' \ live : ValidIno(ino)
       /\ \A t \in Tasks :
            pc'[t] = "quota" =>
              /\ ValidIno(fr'[t].ino)
              /\ pc[t] # "quota" => fr'[t].ino \notin cached
              /\ \A u \in Tasks \ {t} : pc'[u] = "quota" => fr'[u].ino # fr'[t].ino]_vars

\* Every creation and every eviction returns, however often it loses its bit.
CallsReturn == \A t \in Tasks : pc[t] # "idle" ~> pc[t] = "idle"

\* The comment on find_group_orlov speaks of groups whose "free inodes ... counts
\* [are] not worse than average": with no call in progress, the counter that the
\* average comes from is the sum of the groups' free inodes.
FreeInodesCounterAgrees ==
    (\A t \in Tasks : pc[t] = "idle") => freeinodes = kr_count_free_inodes
=============================================================================
