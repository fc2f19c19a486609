---------------------------- MODULE KrBallocProofs ----------------------------
(***************************************************************************)
(* Theorems about KrBalloc for every filesystem geometry, every number of  *)
(* inodes and every sequence of calls.                                     *)
(*                                                                         *)
(* First the reservation windows: the type, disjoint windows, the BUG()s   *)
(* that are not reached, claims that respect reservations.                 *)
(*                                                                         *)
(* Then the blocks: none is ever in the hands of two inodes, and the free  *)
(* counts and the quota agree with who has them.  HeldInv says that the    *)
(* blocks of an inode's map, those it lost and those of its call in        *)
(* progress are apart.  AccountsInv adds where a call may set or clear a   *)
(* bit.  The counts follow because a step concerns one call and at most    *)
(* one bit: GroupWeight and AllWeight are what a call has done to the bits *)
(* and not yet to the counts, and every step changes bits, weight and      *)
(* count by amounts that cancel.  Then come images whose bitmaps and block *)
(* maps are damaged, where metadata is not touched, and last those that    *)
(* are sane, where nothing is ever reported.                               *)
(***************************************************************************)
EXTENDS KrBalloc, FiniteSetTheorems, TLAPS

-----------------------------------------------------------------------------
(* Arithmetic of groups and blocks.                                        *)

LEMMA GroupBounds ==
    ASSUME NEW g \in Groups
    PROVE  /\ GroupFirst(g) \in Nat
           /\ GroupLast(g) \in Nat
           /\ FirstDataBlock <= GroupFirst(g)
           /\ GroupFirst(g) <= GroupLast(g)
           /\ GroupLast(g) <= GroupLast(GroupsCount - 1)
  <1>1. g \in Nat /\ g <= GroupsCount - 1 /\ GroupsCount - 1 \in Nat
    BY ConstantsAssumption DEF Groups
  <1>2. g * BlocksPerGroup \in Nat
    BY <1>1, ConstantsAssumption
  <1>3. g * BlocksPerGroup <= (GroupsCount - 1) * BlocksPerGroup
    BY <1>1, ConstantsAssumption
  <1>4. QED
    BY <1>1, <1>2, <1>3, ConstantsAssumption DEF GroupFirst, GroupLast

-----------------------------------------------------------------------------
(* Type correctness.                                                       *)

\* A case split on the actions of Next, used by every invariance proof.
LEMMA NextCases ==
    ASSUME NEW i \in Inodes, Call(i) \/ AllocStep(i) \/ FreeStep(i)
    PROVE  \/ NewBlocks(i)
           \/ FreeBlocks(i)
           \/ DiscardReservation(i)
           \/ SetReservationSize(i)
           \/ RetryAlloc(i)
           \/ ScanGroup(i)
           \/ ScanDone(i)
           \/ BitmapReadFails(i)
           \/ BitmapInvalid(i)
           \/ AllocNewReservation(i)
           \/ CheckReservation(i)
           \/ RenewReservation(i)
           \/ UseReservation(i)
           \/ TryToAllocate(i)
           \/ ClaimFirst(i)
           \/ ClaimMore(i)
           \/ Allocated(i)
           \/ Return(i)
           \/ Out(i)
           \/ FreeGroup(i)
           \/ ClearBit(i)
           \/ FreeAdjust(i)
           \/ FreeReturn(i)
  BY DEF Call, AllocStep, FreeStep, read_block_bitmap


\* Updates of a call's locals keep their types.
LEMMA AllocFrameUpdates ==
    ASSUME NEW f \in AllocFrame
    PROVE  /\ \A x \in FirstDataBlock .. BlocksCount - 1, n \in Nat, m \in Nat, g \in Groups,
                 w \in Nat, b \in BOOLEAN :
                [f EXCEPT !.goal = x, !.count = n, !.num = m, !.group = g,
                          !.windowsz = w, !.my_rsv = b] \in AllocFrame
           /\ \A g \in Groups, n \in Nat, x \in Int, b \in BOOLEAN :
                [f EXCEPT !.group = g, !.bgi = n, !.grp_goal = x, !.failed = b] \in AllocFrame
           /\ \A b \in BOOLEAN, n \in Nat, x, y \in Int :
                [f EXCEPT !.failed = b, !.num = n, !.start = x, !.end = y] \in AllocFrame
           /\ \A x, y \in Int : [f EXCEPT !.start = x, !.end = y] \in AllocFrame
           /\ \A n \in Nat, y \in Int : [f EXCEPT !.num = n, !.end = y] \in AllocFrame
           /\ \A x \in Int, n \in Nat : [f EXCEPT !.start = x, !.got = n] \in AllocFrame
  BY DEF AllocFrame

LEMMA FreeFrameUpdates ==
    ASSUME NEW f \in FreeFrame
    PROVE  /\ \A b, n \in Int : [f EXCEPT !.block = b, !.count = n] \in FreeFrame
           /\ \A n, o \in Int, c, g \in Nat :
                [f EXCEPT !.count = n, !.overflow = o, !.cleared = c, !.group_freed = g] \in FreeFrame
           /\ \A c, g \in Nat : [f EXCEPT !.cleared = c, !.group_freed = g] \in FreeFrame
           /\ \A b, n \in Int, g \in Nat :
                [f EXCEPT !.block = b, !.count = n, !.freed = g] \in FreeFrame
  BY DEF FreeFrame

LEMMA InitType == Init => TypeOK
  <1> SUFFICES ASSUME Init PROVE TypeOK
    OBVIOUS
  <1>1. ASSUME NEW g \in Groups
        PROVE  Cardinality((GroupFirst(g) .. GroupLast(g)) \ (InitBitmap \cup MetadataBlocks(g))) \in Int
    <2>1. IsFiniteSet(GroupFirst(g) .. GroupLast(g))
      BY GroupBounds, FS_Interval
    <2>2. IsFiniteSet((GroupFirst(g) .. GroupLast(g)) \ (InitBitmap \cup MetadataBlocks(g)))
      BY <2>1, FS_Difference
    <2>3. QED
      BY <2>2, FS_CardinalityType
  <1>2. Cardinality(Bits \ (InitBitmap \cup UNION {MetadataBlocks(g) : g \in Groups})) \in Int
    <2>1. GroupsCount - 1 \in Groups
      BY ConstantsAssumption DEF Groups
    <2>2. IsFiniteSet(Bits)
      BY <2>1, GroupBounds, FS_Interval, ConstantsAssumption DEF Bits
    <2>3. IsFiniteSet(Bits \ (InitBitmap \cup UNION {MetadataBlocks(g) : g \in Groups}))
      BY <2>2, FS_Difference
    <2>4. QED
      BY <2>3, FS_CardinalityType
  <1>3. \A i \in Inodes : Cardinality(InitOwned[i]) \in Int
    BY FS_CardinalityType, ConstantsAssumption
  <1>4. NoAlloc \in AllocFrame
    BY ConstantsAssumption, GroupsAssumption DEF NoAlloc, AllocFrame, Groups, NoBlock
  <1>5. NoFree \in FreeFrame /\ Empty(0) \in Window
    BY DEF NoFree, FreeFrame, Empty, Window
  <1>6. bitmap \subseteq Int
    BY ConstantsAssumption, GroupBounds DEF Init, Bits
  <1>7. owned \in [Inodes -> SUBSET Int] /\ lost \in [Inodes -> SUBSET Int]
    BY ConstantsAssumption DEF Init
  <1>8. tree \subseteq Nodes /\ info \subseteq Regular
    BY DEF Init, Nodes
  <1>9. QED
    BY <1>1, <1>2, <1>3, <1>4, <1>5, <1>6, <1>7, <1>8 DEF Init, TypeOK, Labels

\* What find_next_reservable_window and its caller leave behind.
LEMMA FindNextType ==
    ASSUME TypeOK, NEW i \in Inodes, NEW head, NEW start_block \in Int, NEW size \in Nat,
           find_next_reservable_window(i, head, start_block, size)
    PROVE  /\ rsv' \in [Nodes -> Window]
           /\ tree' \subseteq Nodes
           /\ bug' \in BOOLEAN
           /\ pc' \in [Inodes -> Labels]
  <1>1. PICK prev \in tree :
           \/ /\ rsv' = [rsv EXCEPT ![i] = Empty(size)]
              /\ tree' = tree \ {i}
              /\ Goto(i, "scan")
              /\ UNCHANGED bug
           \/ /\ rsv' = [rsv EXCEPT ![i] =
                            [start |-> Cur(prev, start_block),
                             end |-> Cur(prev, start_block) + size - 1,
                             goal_size |-> size, hit |-> 0]]
              /\ tree' = tree \cup {i}
              /\ bug' = (bug \/ (prev # i /\ Collides(i, Cur(prev, start_block))))
              /\ Goto(i, "check")
    BY DEF find_next_reservable_window
  <1>2. Cur(prev, start_block) \in Int
    BY DEF Cur, TypeOK, Window
  <1>3. rsv' \in [Nodes -> Window]
    <2>1. Empty(size) \in Window
      BY DEF Empty, Window
    <2>2. [start |-> Cur(prev, start_block), end |-> Cur(prev, start_block) + size - 1,
           goal_size |-> size, hit |-> 0] \in Window
      BY <1>2 DEF Window
    <2>3. rsv \in [Nodes -> Window] /\ i \in Nodes
      BY DEF TypeOK, Nodes
    <2>4. QED
      BY <1>1, <2>1, <2>2, <2>3
  <1>4. tree' \subseteq Nodes /\ bug' \in BOOLEAN
    BY <1>1 DEF TypeOK, Nodes
  <1>5. pc' \in [Inodes -> Labels]
    BY <1>1 DEF TypeOK, Goto, Labels
  <1>6. QED
    BY <1>3, <1>4, <1>5

LEMMA NewGoalSizeType ==
    ASSUME TypeOK, NEW i \in Inodes
    PROVE  NewGoalSize(i) \in Nat
  BY ConstantsAssumption DEF NewGoalSize, TypeOK, Window, AllocFrame, Nodes

LEMMA NewBlocksType ==
    ASSUME TypeOK, NEW i \in Inodes, NewBlocks(i)
    PROVE  TypeOK'
  <1>1. af[i] \in AllocFrame /\ ff[i] \in FreeFrame /\ rsv[i] \in Window /\ i \in Nodes
    BY DEF TypeOK, Nodes
  <1>2. NoAlloc \in AllocFrame
    BY ConstantsAssumption, GroupsAssumption DEF NoAlloc, AllocFrame, Groups, NoBlock
  <1>3. Empty(DefaultReserve) \in Window
    BY ConstantsAssumption DEF Empty, Window
  <1>4. quota' \in [Inodes -> Int]
    <2>1. quota \in [Inodes -> Int]
      BY DEF TypeOK
    <2>2. QED
      BY <2>1, <1>1, <1>2, <1>3, ConstantsAssumption DEF NewBlocks
  <1>5. info' \subseteq Regular
    <2>1. info \subseteq Regular
      BY DEF TypeOK
    <2>2. QED
      BY <2>1, <1>1, <1>2, <1>3 DEF NewBlocks, Fresh
  <1>6. rsv' \in [Nodes -> Window]
    <2>1. rsv \in [Nodes -> Window]
      BY DEF TypeOK
    <2>2. QED
      BY <2>1, <1>1, <1>2, <1>3 DEF NewBlocks
  <1>7. af' \in [Inodes -> AllocFrame]
    <2>1. PICK goal \in Goals, count \in 1 .. MaxCount,
               privileged \in BOOLEAN, has_free \in kr_has_free_blocks,
               kmalloc \in (IF IOErrors THEN BOOLEAN ELSE {TRUE}) :
             af' = [af EXCEPT ![i] = EntryFrame(ClampedGoal(goal), count,
                                                WindowSize(i, Fresh(i, kmalloc)))]
      BY DEF NewBlocks
    <2>2. /\ ClampedGoal(goal) \in FirstDataBlock .. BlocksCount - 1
          /\ GroupOf(ClampedGoal(goal)) \in Groups
      BY ConstantsAssumption, GroupsAssumption DEF ClampedGoal
    <2>3. count \in Nat /\ WindowSize(i, Fresh(i, kmalloc)) \in Nat
      BY <1>1, ConstantsAssumption DEF Window, WindowSize
    <2>4. \A x \in FirstDataBlock .. BlocksCount - 1, n, size \in Nat :
             GroupOf(x) \in Groups => EntryFrame(x, n, size) \in AllocFrame
      <3> SUFFICES ASSUME NEW x \in FirstDataBlock .. BlocksCount - 1,
                          NEW n \in Nat, NEW size \in Nat, GroupOf(x) \in Groups
                   PROVE  EntryFrame(x, n, size) \in AllocFrame
        OBVIOUS
      <3>1. (size > 0) \in BOOLEAN
        OBVIOUS
      <3>2. QED
        BY <1>2, <3>1, AllocFrameUpdates DEF EntryFrame
    <2>5. af \in [Inodes -> AllocFrame]
      BY DEF TypeOK
    <2>6. QED
      BY <2>1, <2>2, <2>3, <2>4, <2>5
  <1>8. pc' \in [Inodes -> Labels]
    <2>1. pc \in [Inodes -> Labels]
      BY DEF TypeOK
    <2>2. QED
      BY <2>1, <1>1, <1>2, <1>3 DEF NewBlocks, Goto, Labels
  <1>9. calls' \in [Inodes -> Nat]
    <2>1. calls \in [Inodes -> Nat]
      BY DEF TypeOK
    <2>2. QED
      BY <2>1, <1>1, <1>2, <1>3 DEF NewBlocks, Enter
  <1>10. QED
    BY <1>4, <1>5, <1>6, <1>7, <1>8, <1>9 DEF TypeOK, NewBlocks, disk, window


LEMMA FreeBlocksType ==
    ASSUME TypeOK, NEW i \in Inodes, FreeBlocks(i)
    PROVE  TypeOK'
  <1>1. af[i] \in AllocFrame /\ ff[i] \in FreeFrame /\ rsv[i] \in Window /\ i \in Nodes
    BY DEF TypeOK, Nodes
  <1>2. owned' \in [Inodes -> SUBSET Int]
    <2>1. PICK run : owned' = [owned EXCEPT ![i] = @ \ run]
      BY DEF FreeBlocks
    <2>2. QED
      BY <2>1 DEF TypeOK
  <1>3. lost' \in [Inodes -> SUBSET Int]
    <2>1. lost' = lost \/ \E run \in SUBSET owned[i] : lost' = [lost EXCEPT ![i] = @ \cup run]
      BY DEF FreeBlocks
    <2>2. QED
      BY <2>1 DEF TypeOK
  <1>4. pc' \in [Inodes -> Labels]
    <2>1. pc \in [Inodes -> Labels]
      BY DEF TypeOK
    <2>2. QED
      BY <2>1, <1>1 DEF FreeBlocks, Goto, Labels
  <1>5. ff' \in [Inodes -> FreeFrame]
    <2>1. PICK b \in owned[i], n \in 1 .. Cardinality(owned[i]) :
             \/ ff' = ff
             \/ ff' = [ff EXCEPT ![i] = [NoFree EXCEPT !.block = b, !.count = n]]
      BY DEF FreeBlocks
    <2>2. ff \in [Inodes -> FreeFrame] /\ b \in Int /\ n \in Int
      BY DEF TypeOK
    <2>3. NoFree \in FreeFrame
      BY DEF NoFree, FreeFrame
    <2>4. [NoFree EXCEPT !.block = b, !.count = n] \in FreeFrame
      BY <2>2, <2>3, FreeFrameUpdates
    <2>5. QED
      BY <2>1, <2>2, <2>4
  <1>6. fs_error' \subseteq {"read", "damage"}
    <2>1. fs_error \subseteq {"read", "damage"}
      BY DEF TypeOK
    <2>2. QED
      BY <2>1, <1>1 DEF FreeBlocks, Complain
  <1>7. calls' \in [Inodes -> Nat]
    <2>1. Enter(i)
      BY DEF FreeBlocks
    <2>2. QED
      BY <2>1 DEF Enter, TypeOK
  <1>8. QED
    BY <1>2, <1>3, <1>4, <1>5, <1>6, <1>7 DEF TypeOK, FreeBlocks, disk, window


LEMMA DiscardReservationType ==
    ASSUME TypeOK, NEW i \in Inodes, DiscardReservation(i)
    PROVE  TypeOK'
  <1>1. af[i] \in AllocFrame /\ ff[i] \in FreeFrame /\ rsv[i] \in Window /\ i \in Nodes
    BY DEF TypeOK, Nodes
  <1>2. rsv' \in [Nodes -> Window]
    <2>1. rsv \in [Nodes -> Window]
      BY DEF TypeOK
    <2>2. QED
      BY <2>1, <1>1 DEF DiscardReservation, Empty, Window
  <1>3. tree' \subseteq Nodes
    <2>1. tree \subseteq Nodes
      BY DEF TypeOK
    <2>2. QED
      BY <2>1, <1>1 DEF DiscardReservation
  <1>4. calls' \in [Inodes -> Nat]
    <2>1. calls \in [Inodes -> Nat]
      BY DEF TypeOK
    <2>2. QED
      BY <2>1, <1>1 DEF DiscardReservation, Enter
  <1>5. QED
    BY <1>2, <1>3, <1>4 DEF TypeOK, DiscardReservation, disk, window


LEMMA SetReservationSizeType ==
    ASSUME TypeOK, NEW i \in Inodes, SetReservationSize(i)
    PROVE  TypeOK'
  <1>1. af[i] \in AllocFrame /\ ff[i] \in FreeFrame /\ rsv[i] \in Window /\ i \in Nodes
    BY DEF TypeOK, Nodes
  <1>2. rsv' \in [Nodes -> Window]
    <2>1. rsv \in [Nodes -> Window]
      BY DEF TypeOK
    <2>2. QED
      BY <2>1, <1>1, ConstantsAssumption DEF SetReservationSize, Window
  <1>3. info' \subseteq Regular
    <2>1. info \subseteq Regular
      BY DEF TypeOK
    <2>2. QED
      BY <2>1, <1>1 DEF SetReservationSize
  <1>4. calls' \in [Inodes -> Nat]
    <2>1. calls \in [Inodes -> Nat]
      BY DEF TypeOK
    <2>2. QED
      BY <2>1, <1>1 DEF SetReservationSize, Enter
  <1>5. QED
    BY <1>2, <1>3, <1>4 DEF TypeOK, SetReservationSize, disk, window


LEMMA RetryAllocType ==
    ASSUME TypeOK, NEW i \in Inodes, RetryAlloc(i)
    PROVE  TypeOK'
  <1>1. af[i] \in AllocFrame /\ ff[i] \in FreeFrame /\ rsv[i] \in Window /\ i \in Nodes
    BY DEF TypeOK, Nodes
  <1>2. GroupFirst(af[i].group) \in Int
    BY <1>1, GroupBounds DEF AllocFrame
  <1>3. GroupFirst(af[i].group) + ((af[i].goal - FirstDataBlock) % BlocksPerGroup) \in Int
    BY <1>1, <1>2, ConstantsAssumption DEF AllocFrame
  <1>4. af' \in [Inodes -> AllocFrame]
    <2>1. af \in [Inodes -> AllocFrame]
      BY DEF TypeOK
    <2>2. QED
      BY <2>1, <1>1, <1>2, <1>3 DEF RetryAlloc, AllocFrame
  <1>5. pc' \in [Inodes -> Labels]
    <2>1. pc \in [Inodes -> Labels]
      BY DEF TypeOK
    <2>2. QED
      BY <2>1, <1>1, <1>2, <1>3 DEF RetryAlloc, Goto, Labels
  <1>6. QED
    BY <1>4, <1>5 DEF TypeOK, RetryAlloc, disk, window


LEMMA ScanGroupType ==
    ASSUME TypeOK, NEW i \in Inodes, ScanGroup(i)
    PROVE  TypeOK'
  <1>1. af[i] \in AllocFrame /\ ff[i] \in FreeFrame /\ rsv[i] \in Window /\ i \in Nodes
    BY DEF TypeOK, Nodes
  <1>2. (af[i].group + 1) % GroupsCount \in Groups
    BY <1>1, ConstantsAssumption DEF AllocFrame, Groups
  <1>3. af' \in [Inodes -> AllocFrame]
    <2>1. af' = [af EXCEPT ![i] = [af[i] EXCEPT !.group = (af[i].group + 1) % GroupsCount,
                                               !.bgi = af[i].bgi + 1, !.grp_goal = NoBlock,
                                               !.failed = FALSE]]
      BY DEF ScanGroup
    <2>2. af \in [Inodes -> AllocFrame]
      BY DEF TypeOK
    <2>2a. af[i].bgi + 1 \in Nat /\ NoBlock \in Int /\ FALSE \in BOOLEAN
      BY <1>1 DEF AllocFrame, NoBlock
    <2>3. [af[i] EXCEPT !.group = (af[i].group + 1) % GroupsCount, !.bgi = af[i].bgi + 1,
                        !.grp_goal = NoBlock, !.failed = FALSE] \in AllocFrame
      BY <1>1, <1>2, <2>2a, AllocFrameUpdates
    <2>4. QED
      BY <2>1, <2>2, <2>3
  <1>4. pc' \in [Inodes -> Labels]
    <2>1. pc \in [Inodes -> Labels]
      BY DEF TypeOK
    <2>2. QED
      BY <2>1, <1>1, <1>2 DEF ScanGroup, Goto, Labels
  <1>5. QED
    BY <1>3, <1>4 DEF TypeOK, ScanGroup, disk, window


LEMMA ScanDoneType ==
    ASSUME TypeOK, NEW i \in Inodes, ScanDone(i)
    PROVE  TypeOK'
  <1>1. af[i] \in AllocFrame /\ ff[i] \in FreeFrame /\ rsv[i] \in Window /\ i \in Nodes
    BY DEF TypeOK, Nodes
  <1>2. GroupOf(af[i].goal) \in Groups
    BY <1>1, GroupsAssumption DEF AllocFrame
  <1>3. af' \in [Inodes -> AllocFrame]
    <2>1. af \in [Inodes -> AllocFrame]
      BY DEF TypeOK
    <2>2. QED
      BY <2>1, <1>1, <1>2 DEF ScanDone, AllocFrame
  <1>4. pc' \in [Inodes -> Labels]
    <2>1. pc \in [Inodes -> Labels]
      BY DEF TypeOK
    <2>2. QED
      BY <2>1, <1>1, <1>2 DEF ScanDone, Goto, Labels
  <1>5. QED
    BY <1>3, <1>4 DEF TypeOK, ScanDone, disk, window


LEMMA BitmapReadFailsType ==
    ASSUME TypeOK, NEW i \in Inodes, BitmapReadFails(i)
    PROVE  TypeOK'
  <1>1. af[i] \in AllocFrame /\ ff[i] \in FreeFrame /\ rsv[i] \in Window /\ i \in Nodes
    BY DEF TypeOK, Nodes
  <1>2. pc' \in [Inodes -> Labels]
    <2>1. pc \in [Inodes -> Labels]
      BY DEF TypeOK
    <2>2. QED
      BY <2>1, <1>1 DEF BitmapReadFails, Goto, Labels
  <1>3. fs_error' \subseteq {"read", "damage"}
    BY DEF TypeOK, BitmapReadFails, Complain
  <1>4. QED
    BY <1>2, <1>3 DEF TypeOK, BitmapReadFails, disk, window


LEMMA BitmapInvalidType ==
    ASSUME TypeOK, NEW i \in Inodes, BitmapInvalid(i)
    PROVE  TypeOK'
  <1>1. fs_error' \subseteq {"read", "damage"}
    BY DEF TypeOK, BitmapInvalid, Complain
  <1>2. QED
    BY <1>1 DEF TypeOK, BitmapInvalid, disk, window


LEMMA AllocNewReservationType ==
    ASSUME TypeOK, NEW i \in Inodes, AllocNewReservation(i)
    PROVE  TypeOK'
  <1> DEFINE start_block == IF af[i].grp_goal = NoBlock THEN GroupFirst(af[i].group)
                            ELSE af[i].grp_goal
  <1>1. TypeOK /\ af[i] \in AllocFrame /\ rsv[i] \in Window
    BY DEF TypeOK, Nodes
  <1>2. start_block \in Int /\ NewGoalSize(i) \in Nat
    BY <1>1, GroupBounds, NewGoalSizeType DEF AllocFrame
  <1>3. CASE CrossesGroup(i, start_block)
    <2>1. /\ rsv' = [rsv EXCEPT ![i].goal_size = IF @ < af[i].num THEN af[i].num ELSE @]
          /\ pc' = [pc EXCEPT ![i] = "scan"]
          /\ UNCHANGED <<tree, bug>>
      BY <1>3 DEF AllocNewReservation, Goto
    <2>2. rsv' \in [Nodes -> Window]
      BY <1>1, <2>1 DEF TypeOK, Window, AllocFrame, Nodes
    <2>3. QED
      BY <1>1, <2>1, <2>2 DEF TypeOK, AllocNewReservation, disk, Labels
  <1>4. CASE ~CrossesGroup(i, start_block)
    <2>1. PICK head \in tree :
             find_next_reservable_window(i, head, start_block, NewGoalSize(i))
      BY <1>4 DEF AllocNewReservation
    <2>2. /\ rsv' \in [Nodes -> Window]
          /\ tree' \subseteq Nodes
          /\ bug' \in BOOLEAN
          /\ pc' \in [Inodes -> Labels]
      BY <1>2, <2>1, FindNextType
    <2>3. QED
      BY <1>1, <2>2 DEF TypeOK, AllocNewReservation, disk
  <1>5. QED
    BY <1>3, <1>4


LEMMA RenewReservationType ==
    ASSUME TypeOK, NEW i \in Inodes, RenewReservation(i)
    PROVE  TypeOK'
  <1>1. TypeOK /\ af[i] \in AllocFrame /\ rsv[i] \in Window
    BY DEF TypeOK, Nodes
  <1>2. af[i].start \in Int /\ rsv[i].goal_size \in Nat
    BY <1>1 DEF AllocFrame, Window
  <1>3. /\ rsv' \in [Nodes -> Window]
        /\ tree' \subseteq Nodes
        /\ bug' \in BOOLEAN
        /\ pc' \in [Inodes -> Labels]
    BY <1>2, FindNextType DEF RenewReservation
  <1>4. QED
    BY <1>1, <1>3 DEF TypeOK, RenewReservation, disk


LEMMA CheckReservationType ==
    ASSUME TypeOK, NEW i \in Inodes, CheckReservation(i)
    PROVE  TypeOK'
  <1>1. af[i] \in AllocFrame /\ ff[i] \in FreeFrame /\ rsv[i] \in Window /\ i \in Nodes
    BY DEF TypeOK, Nodes
  <1>2. GroupLast(af[i].group) \in Int
    BY <1>1, GroupBounds DEF AllocFrame
  <1>3. rsv' \in [Nodes -> Window]
    <2>1. rsv' = rsv \/ rsv' = [rsv EXCEPT ![i] = Empty(rsv[i].goal_size)]
      BY DEF CheckReservation
    <2>2. rsv \in [Nodes -> Window]
      BY DEF TypeOK
    <2>3. Empty(rsv[i].goal_size) \in Window
      BY <1>1 DEF Window, Empty
    <2>4. QED
      BY <1>1, <2>1, <2>2, <2>3
  <1>4. tree' \subseteq Nodes
    <2>1. tree \subseteq Nodes
      BY DEF TypeOK
    <2>2. QED
      BY <2>1, <1>1, <1>2 DEF CheckReservation
  <1>5. af' \in [Inodes -> AllocFrame]
    <2>1. \/ af' = af
          \/ \E g \in {af[i].grp_goal, NoBlock} : af' = [af EXCEPT ![i].grp_goal = g]
          \/ \E b \in Int : af' = [af EXCEPT ![i].start = b]
      BY <1>1, <1>2 DEF CheckReservation, FreeIn, Window
    <2>2. af \in [Inodes -> AllocFrame]
      BY DEF TypeOK
    <2>3. QED
      BY <1>1, <2>1, <2>2 DEF AllocFrame, NoBlock
  <1>6. pc' \in [Inodes -> Labels]
    <2>1. pc \in [Inodes -> Labels]
      BY DEF TypeOK
    <2>2. QED
      BY <2>1, <1>1, <1>2 DEF CheckReservation, Goto, Labels
  <1>7. QED
    BY <1>3, <1>4, <1>5, <1>6 DEF TypeOK, CheckReservation, disk, window


LEMMA UseReservationType ==
    ASSUME TypeOK, NEW i \in Inodes, UseReservation(i)
    PROVE  TypeOK'
  <1>1. af[i] \in AllocFrame /\ ff[i] \in FreeFrame /\ rsv[i] \in Window /\ i \in Nodes
    BY DEF TypeOK, Nodes
  <1>2. rsv' \in [Nodes -> Window]
    <2>1. \/ rsv' = rsv
          \/ \E e \in Int : rsv' = [rsv EXCEPT ![i].end = e]
      <3>1. CASE rsv' = rsv
        BY <3>1
      <3>2. CASE try_to_extend_reservation(i, af[i].num - (rsv[i].end - af[i].grp_goal + 1))
        <4>1. \A n \in tree : rsv[n].start \in Int
          BY DEF TypeOK, Window
        <4>2. rsv[i].end \in Int /\ af[i].num - (rsv[i].end - af[i].grp_goal + 1) \in Int
          BY <1>1 DEF Window, AllocFrame
        <4>3. QED
          BY <3>2, <4>1, <4>2 DEF try_to_extend_reservation
      <3>3. QED
        BY <3>1, <3>2 DEF UseReservation
    <2>2. rsv \in [Nodes -> Window]
      BY DEF TypeOK
    <2>3. QED
      BY <1>1, <2>1, <2>2 DEF Window
  <1>3. pc' \in [Inodes -> Labels]
    <2>1. pc \in [Inodes -> Labels]
      BY DEF TypeOK
    <2>2. QED
      BY <2>1, <1>1 DEF UseReservation, Goto, Labels
  <1>4. QED
    BY <1>2, <1>3 DEF TypeOK, UseReservation, disk, window


LEMMA TryToAllocateType ==
    ASSUME TypeOK, NEW i \in Inodes, TryToAllocate(i)
    PROVE  TypeOK'
  <1>1. af[i] \in AllocFrame /\ ff[i] \in FreeFrame /\ rsv[i] \in Window /\ i \in Nodes
    BY DEF TypeOK, Nodes
  <1>2. RangeStart(i) \in Int /\ RangeEnd(i) \in Int
    BY <1>1, GroupBounds DEF RangeStart, RangeEnd, AllocFrame, Window
  <1>3. af' \in [Inodes -> AllocFrame]
    <2>1. af \in [Inodes -> AllocFrame]
      BY DEF TypeOK
    <2>2. TryFailed(i) => af' \in [Inodes -> AllocFrame]
      <3>1. (IF af[i].my_rsv THEN af[i].num ELSE 0) \in Nat /\ TRUE \in BOOLEAN /\ 0 \in Int
        BY <1>1 DEF AllocFrame
      <3>2. [af[i] EXCEPT !.failed = TRUE, !.num = IF af[i].my_rsv THEN af[i].num ELSE 0,
                          !.start = 0, !.end = 0] \in AllocFrame
        BY <1>1, <3>1, AllocFrameUpdates
      <3>3. QED
        BY <2>1, <3>2 DEF TryFailed
    <2>3. \A b, hi \in Int : [af[i] EXCEPT !.start = b, !.end = hi] \in AllocFrame
      BY <1>1, AllocFrameUpdates
    <2>4. \/ TryFailed(i)
          \/ \E b \in RangeStart(i) .. RangeEnd(i) - 1 :
                af' = [af EXCEPT ![i] = [af[i] EXCEPT !.start = b, !.end = RangeEnd(i)]]
      BY DEF TryToAllocate
    <2>5. \A b \in RangeStart(i) .. RangeEnd(i) - 1 : b \in Int
      BY <1>2
    <2>6. \A b \in RangeStart(i) .. RangeEnd(i) - 1 :
             [af[i] EXCEPT !.start = b, !.end = RangeEnd(i)] \in AllocFrame
      BY <1>2, <2>3, <2>5
    <2>7. QED
      BY <2>1, <2>2, <2>4, <2>6
  <1>4. pc' \in [Inodes -> Labels]
    <2>1. pc \in [Inodes -> Labels]
      BY DEF TypeOK
    <2>2. QED
      BY <2>1, <1>1, <1>2 DEF TryToAllocate, TryFailed, Goto, Labels
  <1>5. bug' \in BOOLEAN
    <2>1. bug \in BOOLEAN
      BY DEF TypeOK
    <2>2. QED
      BY <2>1, <1>1, <1>2 DEF TryToAllocate
  <1>6. QED
    BY <1>3, <1>4, <1>5 DEF TypeOK, TryToAllocate, disk, window


LEMMA ClaimFirstType ==
    ASSUME TypeOK, NEW i \in Inodes, ClaimFirst(i)
    PROVE  TypeOK'
  <1>1. af[i] \in AllocFrame /\ ff[i] \in FreeFrame /\ rsv[i] \in Window /\ i \in Nodes
    BY DEF TypeOK, Nodes
  <1>2. af' \in [Inodes -> AllocFrame]
    <2>1. af \in [Inodes -> AllocFrame]
      BY DEF TypeOK
    <2>2. TryFailed(i) => af' \in [Inodes -> AllocFrame]
      <3>1. (IF af[i].my_rsv THEN af[i].num ELSE 0) \in Nat /\ TRUE \in BOOLEAN /\ 0 \in Int
        BY <1>1 DEF AllocFrame
      <3>2. [af[i] EXCEPT !.failed = TRUE, !.num = IF af[i].my_rsv THEN af[i].num ELSE 0,
                          !.start = 0, !.end = 0] \in AllocFrame
        BY <1>1, <3>1, AllocFrameUpdates
      <3>3. QED
        BY <2>1, <3>2 DEF TryFailed
    <2>3. \/ TryFailed(i)
          \/ af' = [af EXCEPT ![i].start = af[i].start + 1]
          \/ af' = [af EXCEPT ![i].got = 1]
      BY DEF ClaimFirst
    <2>4. QED
      BY <1>1, <2>1, <2>2, <2>3 DEF AllocFrame
  <1>3. pc' \in [Inodes -> Labels]
    <2>1. pc \in [Inodes -> Labels]
      BY DEF TypeOK
    <2>2. QED
      BY <2>1, <1>1 DEF ClaimFirst, TryFailed, Goto, Labels
  <1>4. bitmap' \subseteq Int
    <2>1. bitmap \subseteq Int
      BY DEF TypeOK
    <2>2. QED
      BY <2>1, <1>1 DEF ClaimFirst, AllocFrame
  <1>5. QED
    BY <1>2, <1>3, <1>4 DEF TypeOK, ClaimFirst, disk, window


LEMMA ClaimMoreType ==
    ASSUME TypeOK, NEW i \in Inodes, ClaimMore(i)
    PROVE  TypeOK'
  <1>1. af[i] \in AllocFrame /\ ff[i] \in FreeFrame /\ rsv[i] \in Window /\ i \in Nodes
    BY DEF TypeOK, Nodes
  <1>2. af' \in [Inodes -> AllocFrame]
    <2>1. \/ af' = [af EXCEPT ![i].got = af[i].got + 1]
          \/ af' = [af EXCEPT ![i] = [af[i] EXCEPT !.num = af[i].got, !.end = 0]]
      BY DEF ClaimMore
    <2>2. af \in [Inodes -> AllocFrame]
      BY DEF TypeOK
    <2>3. af[i].got \in Nat /\ af[i].got + 1 \in Nat /\ 0 \in Int
      BY <1>1 DEF AllocFrame
    <2>4. [af[i] EXCEPT !.num = af[i].got, !.end = 0] \in AllocFrame
      BY <1>1, <2>3, AllocFrameUpdates
    <2>5. [af[i] EXCEPT !.got = af[i].got + 1] \in AllocFrame
      BY <1>1, <2>3 DEF AllocFrame
    <2>6. QED
      BY <2>1, <2>2, <2>4, <2>5
  <1>3. pc' \in [Inodes -> Labels]
    <2>1. pc \in [Inodes -> Labels]
      BY DEF TypeOK
    <2>2. QED
      BY <2>1, <1>1 DEF ClaimMore, Goto, Labels
  <1>4. bitmap' \subseteq Int
    <2>1. bitmap \subseteq Int
      BY DEF TypeOK
    <2>2. QED
      BY <2>1, <1>1 DEF ClaimMore, AllocFrame
  <1>5. rsv' \in [Nodes -> Window]
    <2>1. rsv' = rsv \/ \E h \in Nat : rsv' = [rsv EXCEPT ![i].hit = h]
      <3>1. \/ rsv' = rsv
            \/ rsv' = [rsv EXCEPT ![i].hit =
                         IF @ + af[i].got > HitCap THEN HitCap ELSE @ + af[i].got]
        BY DEF ClaimMore
      <3>2. (IF rsv[i].hit + af[i].got > HitCap THEN HitCap ELSE rsv[i].hit + af[i].got) \in Nat
        BY <1>1, ConstantsAssumption DEF Window, AllocFrame
      <3>3. QED
        BY <3>1, <3>2
    <2>2. rsv \in [Nodes -> Window]
      BY DEF TypeOK
    <2>3. QED
      BY <1>1, <2>1, <2>2 DEF Window
  <1>6. QED
    BY <1>2, <1>3, <1>4, <1>5 DEF TypeOK, ClaimMore, disk, window


LEMMA AllocatedType ==
    ASSUME TypeOK, NEW i \in Inodes, Allocated(i)
    PROVE  TypeOK'
  <1>1. af[i] \in AllocFrame /\ ff[i] \in FreeFrame /\ rsv[i] \in Window /\ i \in Nodes
    BY DEF TypeOK, Nodes
  <1>2. NoAlloc \in AllocFrame
    BY ConstantsAssumption, GroupsAssumption DEF NoAlloc, AllocFrame, Groups, NoBlock
  <1>3. \A n \in Int : U16(n) \in Int
    BY DEF U16
  <1>4. af' \in [Inodes -> AllocFrame]
    <2>1. \/ af' = af
          \/ af' = [af EXCEPT ![i] = NoAlloc]
          \/ af' = [af EXCEPT ![i] = [af[i] EXCEPT !.start = 0, !.got = 0]]
      BY DEF Allocated
    <2>2. af \in [Inodes -> AllocFrame]
      BY DEF TypeOK
    <2>2a. 0 \in Int /\ 0 \in Nat
      OBVIOUS
    <2>3. [af[i] EXCEPT !.start = 0, !.got = 0] \in AllocFrame
      BY <1>1, <2>2a, AllocFrameUpdates
    <2>4. QED
      BY <1>2, <2>1, <2>2, <2>3
  <1>5. pc' \in [Inodes -> Labels]
    <2>1. pc \in [Inodes -> Labels]
      BY DEF TypeOK
    <2>2. QED
      BY <2>1, <1>1, <1>2, <1>3 DEF Allocated, Goto, Labels
  <1>6. bg_free' \in [Groups -> Int]
    <2>1. bg_free \in [Groups -> Int]
      BY DEF TypeOK
    <2>2. QED
      BY <2>1, <1>1, <1>2, <1>3 DEF Allocated, AllocFrame
  <1>7. lost' \in [Inodes -> SUBSET Int]
    <2>1. lost \in [Inodes -> SUBSET Int]
      BY DEF TypeOK
    <2>2. QED
      BY <2>1, <1>1, <1>2, <1>3 DEF Allocated, Run, AllocFrame
  <1>8. fs_error' \subseteq {"read", "damage"}
    <2>1. fs_error \subseteq {"read", "damage"}
      BY DEF TypeOK
    <2>2. QED
      BY <2>1, <1>1, <1>2, <1>3 DEF Allocated, Complain
  <1>9. QED
    BY <1>4, <1>5, <1>6, <1>7, <1>8 DEF TypeOK, Allocated, disk, window


LEMMA ReturnType ==
    ASSUME TypeOK, NEW i \in Inodes, Return(i)
    PROVE  TypeOK'
  <1>1. af[i] \in AllocFrame /\ ff[i] \in FreeFrame /\ rsv[i] \in Window /\ i \in Nodes
    BY DEF TypeOK, Nodes
  <1>2. NoAlloc \in AllocFrame
    BY ConstantsAssumption, GroupsAssumption DEF NoAlloc, AllocFrame, Groups, NoBlock
  <1>3. freeblocks' \in Int
    <2>1. freeblocks \in Int
      BY DEF TypeOK
    <2>2. QED
      BY <2>1, <1>1, <1>2 DEF Return, AllocFrame
  <1>4. quota' \in [Inodes -> Int]
    <2>1. quota \in [Inodes -> Int]
      BY DEF TypeOK
    <2>2. QED
      BY <2>1, <1>1, <1>2 DEF Return, AllocFrame
  <1>5. owned' \in [Inodes -> SUBSET Int]
    <2>1. owned \in [Inodes -> SUBSET Int]
      BY DEF TypeOK
    <2>2. QED
      BY <2>1, <1>1, <1>2 DEF Return, AllocFrame, Run
  <1>6. af' \in [Inodes -> AllocFrame]
    <2>1. af \in [Inodes -> AllocFrame]
      BY DEF TypeOK
    <2>2. QED
      BY <2>1, <1>1, <1>2 DEF Return
  <1>7. pc' \in [Inodes -> Labels]
    <2>1. pc \in [Inodes -> Labels]
      BY DEF TypeOK
    <2>2. QED
      BY <2>1, <1>1, <1>2 DEF Return, Goto, Labels
  <1>8. QED
    BY <1>3, <1>4, <1>5, <1>6, <1>7 DEF TypeOK, Return, disk, window


LEMMA OutType ==
    ASSUME TypeOK, NEW i \in Inodes, Out(i)
    PROVE  TypeOK'
  <1>1. af[i] \in AllocFrame /\ ff[i] \in FreeFrame /\ rsv[i] \in Window /\ i \in Nodes
    BY DEF TypeOK, Nodes
  <1>2. NoAlloc \in AllocFrame
    BY ConstantsAssumption, GroupsAssumption DEF NoAlloc, AllocFrame, Groups, NoBlock
  <1>3. quota' \in [Inodes -> Int]
    <2>1. quota \in [Inodes -> Int]
      BY DEF TypeOK
    <2>2. QED
      BY <2>1, <1>1, <1>2 DEF Out, AllocFrame
  <1>4. af' \in [Inodes -> AllocFrame]
    <2>1. af \in [Inodes -> AllocFrame]
      BY DEF TypeOK
    <2>2. QED
      BY <2>1, <1>1, <1>2 DEF Out
  <1>5. pc' \in [Inodes -> Labels]
    <2>1. pc \in [Inodes -> Labels]
      BY DEF TypeOK
    <2>2. QED
      BY <2>1, <1>1, <1>2 DEF Out, Goto, Labels
  <1>6. QED
    BY <1>3, <1>4, <1>5 DEF TypeOK, Out, disk, window


LEMMA FreeGroupType ==
    ASSUME TypeOK, NEW i \in Inodes, FreeGroup(i)
    PROVE  TypeOK'
  <1>1. af[i] \in AllocFrame /\ ff[i] \in FreeFrame /\ rsv[i] \in Window /\ i \in Nodes
    BY DEF TypeOK, Nodes
  <1>2. GroupLast(GroupOf(ff[i].block)) \in Int
    BY <1>1, ConstantsAssumption DEF GroupLast, GroupFirst, GroupOf, FreeFrame
  <1>3. ff' \in [Inodes -> FreeFrame]
    <2> DEFINE past == ff[i].block + ff[i].count - (GroupLast(GroupOf(ff[i].block)) + 1)
               over == IF past > 0 THEN past ELSE 0
    <2>1. \/ ff' = ff
          \/ ff' = [ff EXCEPT ![i] =
                [ff[i] EXCEPT !.count = ff[i].count - over, !.overflow = over,
                              !.cleared = 0, !.group_freed = 0]]
      BY DEF FreeGroup
    <2>2. ff \in [Inodes -> FreeFrame]
      BY DEF TypeOK
    <2>3. over \in Int /\ ff[i].count - over \in Int /\ 0 \in Nat
      BY <1>1, <1>2 DEF FreeFrame
    <2> HIDE DEF over
    <2>4. [ff[i] EXCEPT !.count = ff[i].count - over, !.overflow = over,
                        !.cleared = 0, !.group_freed = 0] \in FreeFrame
      BY <1>1, <2>3, FreeFrameUpdates
    <2>5. QED
      BY <2>1, <2>2, <2>4
  <1>4. pc' \in [Inodes -> Labels]
    <2>1. pc \in [Inodes -> Labels]
      BY DEF TypeOK
    <2>2. QED
      BY <2>1, <1>1, <1>2 DEF FreeGroup, Goto, Labels
  <1>5. lost' \in [Inodes -> SUBSET Int]
    <2>1. lost \in [Inodes -> SUBSET Int]
      BY DEF TypeOK
    <2>2. QED
      BY <2>1, <1>1, <1>2 DEF FreeGroup, Run, FreeFrame
  <1>6. fs_error' \subseteq {"read", "damage"}
    <2>1. fs_error \subseteq {"read", "damage"}
      BY DEF TypeOK
    <2>2. QED
      BY <2>1, <1>1, <1>2 DEF FreeGroup, Complain
  <1>7. QED
    BY <1>3, <1>4, <1>5, <1>6 DEF TypeOK, FreeGroup, disk, window


LEMMA ClearBitType ==
    ASSUME TypeOK, NEW i \in Inodes, ClearBit(i)
    PROVE  TypeOK'
  <1>1. af[i] \in AllocFrame /\ ff[i] \in FreeFrame /\ rsv[i] \in Window /\ i \in Nodes
    BY DEF TypeOK, Nodes
  <1>2. bitmap' \subseteq Int
    <2>1. bitmap \subseteq Int
      BY DEF TypeOK
    <2>2. QED
      BY <2>1, <1>1 DEF ClearBit
  <1>3. fs_error' \subseteq {"read", "damage"}
    <2>1. fs_error \subseteq {"read", "damage"}
      BY DEF TypeOK
    <2>2. QED
      BY <2>1, <1>1 DEF ClearBit
  <1>4. ff' \in [Inodes -> FreeFrame]
    <2> DEFINE n == IF ff[i].block + ff[i].cleared \in bitmap
                    THEN ff[i].group_freed + 1 ELSE ff[i].group_freed
    <2>1. ff' = [ff EXCEPT ![i] = [ff[i] EXCEPT !.cleared = ff[i].cleared + 1,
                                                !.group_freed = n]]
      BY DEF ClearBit
    <2>2. ff \in [Inodes -> FreeFrame]
      BY DEF TypeOK
    <2>3. n \in Nat /\ ff[i].cleared + 1 \in Nat
      BY <1>1 DEF FreeFrame
    <2> HIDE DEF n
    <2>4. [ff[i] EXCEPT !.cleared = ff[i].cleared + 1, !.group_freed = n] \in FreeFrame
      BY <1>1, <2>3, FreeFrameUpdates
    <2>5. QED
      BY <2>1, <2>2, <2>4
  <1>5. QED
    BY <1>2, <1>3, <1>4 DEF TypeOK, ClearBit, disk, window


LEMMA FreeAdjustType ==
    ASSUME TypeOK, NEW i \in Inodes, FreeAdjust(i)
    PROVE  TypeOK'
  <1>1. af[i] \in AllocFrame /\ ff[i] \in FreeFrame /\ rsv[i] \in Window /\ i \in Nodes
    BY DEF TypeOK, Nodes
  <1>2. \A n \in Int : U16(n) \in Int
    BY DEF U16
  <1>3. bg_free' \in [Groups -> Int]
    <2> DEFINE g == GroupOf(ff[i].block)
    <2>1. bg_free' = [bg_free EXCEPT ![g] = U16(@ + ff[i].group_freed)]
      BY DEF FreeAdjust
    <2>2. bg_free \in [Groups -> Int] /\ ff[i].group_freed \in Int
      BY <1>1 DEF TypeOK, FreeFrame
    <2> HIDE DEF g
    <2>3. g \in Groups => U16(bg_free[g] + ff[i].group_freed) \in Int
      BY <1>2, <2>2
    <2>4. QED
      BY <2>1, <2>2, <2>3
  <1>4. ff' \in [Inodes -> FreeFrame]
    <2>1. ff' = [ff EXCEPT ![i] = [NoFree EXCEPT !.block = ff[i].block + ff[i].count,
                                                !.count = ff[i].overflow,
                                                !.freed = ff[i].freed + ff[i].group_freed]]
      BY DEF FreeAdjust
    <2>2. ff \in [Inodes -> FreeFrame]
      BY DEF TypeOK
    <2>3. NoFree \in FreeFrame
      BY DEF NoFree, FreeFrame
    <2>4. /\ ff[i].block + ff[i].count \in Int
          /\ ff[i].overflow \in Int
          /\ ff[i].freed + ff[i].group_freed \in Nat
      BY <1>1 DEF FreeFrame
    <2>5. [NoFree EXCEPT !.block = ff[i].block + ff[i].count, !.count = ff[i].overflow,
                         !.freed = ff[i].freed + ff[i].group_freed] \in FreeFrame
      BY <2>3, <2>4, FreeFrameUpdates
    <2>6. QED
      BY <2>1, <2>2, <2>5
  <1>5. pc' \in [Inodes -> Labels]
    <2>1. pc \in [Inodes -> Labels]
      BY DEF TypeOK
    <2>2. QED
      BY <2>1, <1>1, <1>2 DEF FreeAdjust, Goto, Labels
  <1>6. QED
    BY <1>3, <1>4, <1>5 DEF TypeOK, FreeAdjust, disk, window


LEMMA FreeReturnType ==
    ASSUME TypeOK, NEW i \in Inodes, FreeReturn(i)
    PROVE  TypeOK'
  <1>1. af[i] \in AllocFrame /\ ff[i] \in FreeFrame /\ rsv[i] \in Window /\ i \in Nodes
    BY DEF TypeOK, Nodes
  <1>2. NoFree \in FreeFrame
    BY DEF NoFree, FreeFrame
  <1>3. freeblocks' \in Int
    <2>1. freeblocks \in Int
      BY DEF TypeOK
    <2>2. QED
      BY <2>1, <1>1, <1>2 DEF FreeReturn, FreeFrame
  <1>4. quota' \in [Inodes -> Int]
    <2>1. quota \in [Inodes -> Int]
      BY DEF TypeOK
    <2>2. QED
      BY <2>1, <1>1, <1>2 DEF FreeReturn, FreeFrame
  <1>5. ff' \in [Inodes -> FreeFrame]
    <2>1. ff \in [Inodes -> FreeFrame]
      BY DEF TypeOK
    <2>2. QED
      BY <2>1, <1>1, <1>2 DEF FreeReturn
  <1>6. pc' \in [Inodes -> Labels]
    <2>1. pc \in [Inodes -> Labels]
      BY DEF TypeOK
    <2>2. QED
      BY <2>1, <1>1, <1>2 DEF FreeReturn, Goto, Labels
  <1>7. QED
    BY <1>3, <1>4, <1>5, <1>6 DEF TypeOK, FreeReturn, disk, window


LEMMA NextType == TypeOK /\ [Next]_vars => TypeOK'
  <1> SUFFICES ASSUME TypeOK, [Next]_vars PROVE TypeOK'
    OBVIOUS
  <1>1. ASSUME NEW i \in Inodes, Call(i) \/ AllocStep(i) \/ FreeStep(i)
        PROVE  TypeOK'
    BY <1>1, NextCases, NewBlocksType, FreeBlocksType, DiscardReservationType,
       SetReservationSizeType, RetryAllocType, ScanGroupType,
       ScanDoneType, BitmapReadFailsType, BitmapInvalidType, AllocNewReservationType,
       RenewReservationType, CheckReservationType, UseReservationType,
       TryToAllocateType, ClaimFirstType, ClaimMoreType,
       AllocatedType, ReturnType, OutType,
       FreeGroupType, ClearBitType, FreeAdjustType,
       FreeReturnType
  <1>2. CASE UNCHANGED vars
    BY <1>2 DEF TypeOK, vars, disk, window
  <1>3. QED
    BY <1>1, <1>2 DEF Next

\* Every variable keeps its type: counters stay integers, a call's group is a
\* group of the filesystem (no kr_get_group_desc fails), its goal a valid block.
THEOREM TypeCorrect == Spec => []TypeOK
  BY InitType, NextType, PTL DEF Spec

-----------------------------------------------------------------------------
(***************************************************************************)
(* The reservation windows: they never overlap, neither BUG() of balloc.c  *)
(* is reached, and an allocation from a window stays in it.                *)
(***************************************************************************)


\* The windows, and where they lie: the dummy head is block 0, the others come
\* after it, and only an inode with an i_block_alloc_info has one.
WindowsInv ==
    /\ WindowsDisjoint
    /\ rsv[RsvHead].start = 0 /\ rsv[RsvHead].end = 0
    /\ \A n \in tree : rsv[n].start >= 0
    /\ \A i \in Inodes : i \in tree => i \in info

\* A call with a window asks for something; a goal is not before its group.
RequestInv(i) ==
    /\ af[i].my_rsv => af[i].num >= 1 /\ i \in info
    /\ pc[i] = "more" => af[i].got >= 1
    /\ pc[i] \in {"rsv", "check", "renew", "try", "claim"} =>
          af[i].grp_goal = NoBlock \/ GroupFirst(af[i].group) <= af[i].grp_goal

\* While its bitmap is searched, a new window starts in the call's group.
SearchInv(i) ==
    /\ pc[i] \in {"check", "renew"} =>
          /\ i \in tree /\ af[i].my_rsv /\ rsv[i].goal_size >= 1
          /\ GroupFirst(af[i].group) <= rsv[i].start
    /\ pc[i] = "renew" => GroupFirst(af[i].group) <= af[i].start

\* A window that is allocated from overlaps the call's group, and the range
\* computed from it stays inside it.
ClaimInv(i) ==
    /\ pc[i] = "try" =>
          /\ i \in tree /\ af[i].my_rsv
          /\ rsv[i].start <= GroupLast(af[i].group)
          /\ rsv[i].end >= GroupFirst(af[i].group)
    /\ pc[i] \in {"claim", "more"} /\ af[i].my_rsv =>
          i \in tree /\ rsv[i].start <= af[i].start /\ af[i].end <= rsv[i].end + 1

CallInv(i) == RequestInv(i) /\ SearchInv(i) /\ ClaimInv(i)

\* The inductive invariant.
RsvInv == WindowsInv /\ ~bug /\ \A i \in Inodes : CallInv(i)

-----------------------------------------------------------------------------
(* What a step leaves alone.                                               *)

\* The step does not touch the call and the window of inode j.
Same(j) ==
    /\ pc'[j] = pc[j] /\ af'[j] = af[j] /\ rsv'[j] = rsv[j]
    /\ j \in tree' <=> j \in tree
    /\ j \in info => j \in info'

LEMMA OthersKept ==
    ASSUME NEW j, CallInv(j), Same(j)
    PROVE  CallInv(j)'
  BY DEF CallInv, RequestInv, SearchInv, ClaimInv, Same

\* The step moves no window.
Unmoved(n) ==
    /\ rsv'[n].end = rsv[n].end
    /\ n \in tree => rsv'[n].start = rsv[n].start

LEMMA WindowsKept ==
    ASSUME TypeOK, WindowsInv, tree' = tree, info \subseteq info', \A n \in Nodes : Unmoved(n)
    PROVE  WindowsInv'
  <1>1. tree \subseteq Nodes /\ Inodes \subseteq Nodes /\ RsvHead \in Nodes
    BY DEF TypeOK, Nodes
  <1>2. WindowsDisjoint'
    <2>1. RsvHead \in tree'
      BY DEF WindowsInv, WindowsDisjoint
    <2>2. \A i \in Inodes : i \in tree' <=> ~rsv_is_empty(i)'
      BY <1>1 DEF WindowsInv, WindowsDisjoint, rsv_is_empty, Unmoved
    <2>3. \A n \in tree' : rsv'[n].start <= rsv'[n].end
      BY <1>1 DEF WindowsInv, WindowsDisjoint, Unmoved
    <2>4. \A m, n \in tree' : m # n => ~Overlap(m, n)'
      BY <1>1 DEF WindowsInv, WindowsDisjoint, Overlap, Unmoved
    <2>5. QED
      BY <2>1, <2>2, <2>3, <2>4 DEF WindowsDisjoint
  <1>3. QED
    BY <1>1, <1>2 DEF WindowsInv, WindowsDisjoint, Unmoved

\* A step of inode i that moves no window.
LEMMA QuietStep ==
    ASSUME TypeOK, RsvInv, NEW i \in Inodes,
           tree' = tree, info \subseteq info', bug' = bug, \A n \in Nodes : Unmoved(n),
           \A j \in Inodes \ {i} : Same(j),
           CallInv(i)'
    PROVE  RsvInv'
  <1>1. WindowsInv' /\ ~bug'
    BY WindowsKept DEF RsvInv
  <1>2. \A j \in Inodes \ {i} : CallInv(j)'
    BY OthersKept DEF RsvInv
  <1>3. QED
    BY <1>1, <1>2 DEF RsvInv

\* Outside these labels a call says nothing of its window.
LEMMA QuietLabel ==
    ASSUME NEW i, pc'[i] \notin {"more", "rsv", "check", "renew", "try", "claim"},
           af'[i].my_rsv => af'[i].num >= 1 /\ i \in info'
    PROVE  CallInv(i)'
  BY DEF CallInv, RequestInv, SearchInv, ClaimInv

LEMMA FreeBlocksRsv ==
    ASSUME TypeOK, RsvInv, NEW i \in Inodes, FreeBlocks(i)
    PROVE  RsvInv'
  <1>1. /\ UNCHANGED <<rsv, tree, info, bug, af>>
        /\ \A j \in Inodes \ {i} : pc'[j] = pc[j]
        /\ pc'[i] \notin {"more", "rsv", "check", "renew", "try", "claim"}
    BY DEF FreeBlocks, window, Goto, At, Enter, TypeOK
  <1>2. CallInv(i)'
    BY <1>1, QuietLabel DEF RsvInv, CallInv, RequestInv
  <1>3. QED
    BY <1>1, <1>2, QuietStep DEF Same, Unmoved

LEMMA FreeGroupRsv ==
    ASSUME TypeOK, RsvInv, NEW i \in Inodes, FreeGroup(i)
    PROVE  RsvInv'
  <1>1. /\ UNCHANGED <<rsv, tree, info, bug, af>>
        /\ \A j \in Inodes \ {i} : pc'[j] = pc[j]
        /\ pc'[i] \notin {"more", "rsv", "check", "renew", "try", "claim"}
    BY DEF FreeGroup, window, Goto, At, Enter, TypeOK
  <1>2. CallInv(i)'
    BY <1>1, QuietLabel DEF RsvInv, CallInv, RequestInv
  <1>3. QED
    BY <1>1, <1>2, QuietStep DEF Same, Unmoved

LEMMA ClearBitRsv ==
    ASSUME TypeOK, RsvInv, NEW i \in Inodes, ClearBit(i)
    PROVE  RsvInv'
  <1>1. /\ UNCHANGED <<rsv, tree, info, bug, af>>
        /\ \A j \in Inodes \ {i} : pc'[j] = pc[j]
        /\ pc'[i] \notin {"more", "rsv", "check", "renew", "try", "claim"}
    BY DEF ClearBit, window, Goto, At, Enter, TypeOK
  <1>2. CallInv(i)'
    BY <1>1, QuietLabel DEF RsvInv, CallInv, RequestInv
  <1>3. QED
    BY <1>1, <1>2, QuietStep DEF Same, Unmoved

LEMMA FreeAdjustRsv ==
    ASSUME TypeOK, RsvInv, NEW i \in Inodes, FreeAdjust(i)
    PROVE  RsvInv'
  <1>1. /\ UNCHANGED <<rsv, tree, info, bug, af>>
        /\ \A j \in Inodes \ {i} : pc'[j] = pc[j]
        /\ pc'[i] \notin {"more", "rsv", "check", "renew", "try", "claim"}
    BY DEF FreeAdjust, window, Goto, At, Enter, TypeOK
  <1>2. CallInv(i)'
    BY <1>1, QuietLabel DEF RsvInv, CallInv, RequestInv
  <1>3. QED
    BY <1>1, <1>2, QuietStep DEF Same, Unmoved

LEMMA FreeReturnRsv ==
    ASSUME TypeOK, RsvInv, NEW i \in Inodes, FreeReturn(i)
    PROVE  RsvInv'
  <1>1. /\ UNCHANGED <<rsv, tree, info, bug, af>>
        /\ \A j \in Inodes \ {i} : pc'[j] = pc[j]
        /\ pc'[i] \notin {"more", "rsv", "check", "renew", "try", "claim"}
    BY DEF FreeReturn, window, Goto, At, Enter, TypeOK
  <1>2. CallInv(i)'
    BY <1>1, QuietLabel DEF RsvInv, CallInv, RequestInv
  <1>3. QED
    BY <1>1, <1>2, QuietStep DEF Same, Unmoved

LEMMA RetryAllocRsv ==
    ASSUME TypeOK, RsvInv, NEW i \in Inodes, RetryAlloc(i)
    PROVE  RsvInv'
  <1>1. /\ UNCHANGED <<rsv, tree, info, bug>>
        /\ \A j \in Inodes \ {i} : pc'[j] = pc[j] /\ af'[j] = af[j]
    BY DEF RetryAlloc, window, Goto, TypeOK
  <1>2. af[i] \in AllocFrame /\ CallInv(i)
    BY DEF TypeOK, RsvInv
  <1>3. /\ pc'[i] \in {"rsv", "scan"}
        /\ af'[i].group = af[i].group /\ af'[i].num = af[i].num
        /\ af'[i].my_rsv => af[i].my_rsv
        /\ af'[i].grp_goal = GroupFirst(af[i].group)
                                + ((af[i].goal - FirstDataBlock) % BlocksPerGroup)
    BY <1>2 DEF RetryAlloc, Goto, TypeOK, AllocFrame
  <1>4. (af[i].goal - FirstDataBlock) % BlocksPerGroup \in Nat
    BY <1>2, ConstantsAssumption DEF AllocFrame
  <1>5. GroupFirst(af[i].group) <= af'[i].grp_goal
    BY <1>2, <1>3, <1>4, GroupBounds DEF AllocFrame
  <1>6. CallInv(i)'
    BY <1>1, <1>2, <1>3, <1>5 DEF CallInv, RequestInv, SearchInv, ClaimInv
  <1>7. QED
    BY <1>1, <1>6, QuietStep DEF Same, Unmoved

LEMMA ScanGroupRsv ==
    ASSUME TypeOK, RsvInv, NEW i \in Inodes, ScanGroup(i)
    PROVE  RsvInv'
  <1>1. /\ UNCHANGED <<rsv, tree, info, bug>>
        /\ \A j \in Inodes \ {i} : pc'[j] = pc[j] /\ af'[j] = af[j]
    BY DEF ScanGroup, window, Goto, TypeOK
  <1>2. af[i] \in AllocFrame /\ CallInv(i)
    BY DEF TypeOK, RsvInv
  <1>3. /\ pc'[i] \in {"rsv", "scan"}
        /\ af'[i].num = af[i].num /\ af'[i].my_rsv = af[i].my_rsv
        /\ af'[i].grp_goal = NoBlock
    BY <1>2 DEF ScanGroup, Goto, TypeOK, AllocFrame
  <1>4. CallInv(i)'
    BY <1>1, <1>2, <1>3 DEF CallInv, RequestInv, SearchInv, ClaimInv
  <1>5. QED
    BY <1>1, <1>4, QuietStep DEF Same, Unmoved

LEMMA BitmapInvalidRsv ==
    ASSUME TypeOK, RsvInv, NEW i \in Inodes, BitmapInvalid(i)
    PROVE  RsvInv'
  <1>1. UNCHANGED <<rsv, tree, info, bug, af, pc>>
    BY DEF BitmapInvalid, window
  <1>2. QED
    BY <1>1 DEF RsvInv, WindowsInv, WindowsDisjoint, Overlap, rsv_is_empty, CallInv,
       RequestInv, SearchInv, ClaimInv

LEMMA BitmapReadFailsRsv ==
    ASSUME TypeOK, RsvInv, NEW i \in Inodes, BitmapReadFails(i)
    PROVE  RsvInv'
  <1>1. /\ UNCHANGED <<rsv, tree, info, bug, af>>
        /\ \A j \in Inodes \ {i} : pc'[j] = pc[j]
        /\ pc'[i] \notin {"more", "rsv", "check", "renew", "try", "claim"}
    BY DEF BitmapReadFails, window, Goto, TypeOK
  <1>2. CallInv(i)'
    BY <1>1, QuietLabel DEF RsvInv, CallInv, RequestInv
  <1>3. QED
    BY <1>1, <1>2, QuietStep DEF Same, Unmoved

LEMMA ScanDoneRsv ==
    ASSUME TypeOK, RsvInv, NEW i \in Inodes, ScanDone(i)
    PROVE  RsvInv'
  <1>1. /\ UNCHANGED <<rsv, tree, info, bug>>
        /\ \A j \in Inodes \ {i} : pc'[j] = pc[j] /\ af'[j] = af[j]
        /\ pc'[i] \notin {"more", "rsv", "check", "renew", "try", "claim"}
    BY DEF ScanDone, window, Goto, TypeOK
  <1>2. af[i] \in AllocFrame /\ CallInv(i)
    BY DEF TypeOK, RsvInv
  <1>3. af'[i].my_rsv => af[i].my_rsv /\ af'[i].num = af[i].num
    BY <1>2 DEF ScanDone, NoAlloc, TypeOK, AllocFrame
  <1>4. CallInv(i)'
    BY <1>1, <1>2, <1>3, QuietLabel DEF CallInv, RequestInv
  <1>5. QED
    BY <1>1, <1>4, QuietStep DEF Same, Unmoved

LEMMA AllocatedRsv ==
    ASSUME TypeOK, RsvInv, NEW i \in Inodes, Allocated(i)
    PROVE  RsvInv'
  <1>1. /\ UNCHANGED <<rsv, tree, info, bug>>
        /\ \A j \in Inodes \ {i} : pc'[j] = pc[j] /\ af'[j] = af[j]
        /\ pc'[i] \notin {"more", "rsv", "check", "renew", "try", "claim"}
    BY DEF Allocated, window, Goto, TypeOK
  <1>2. af[i] \in AllocFrame /\ CallInv(i)
    BY DEF TypeOK, RsvInv
  <1>3. af'[i].my_rsv => af[i].my_rsv /\ af'[i].num = af[i].num
    <2>1. CASE af' = af
      BY <2>1
    <2>2. CASE af' = [af EXCEPT ![i] = NoAlloc]
      BY <2>2 DEF TypeOK, NoAlloc
    <2>3. CASE af' = [af EXCEPT ![i] = [af[i] EXCEPT !.start = 0, !.got = 0]]
      <3>1. af'[i] = [af[i] EXCEPT !.start = 0, !.got = 0]
        BY <2>3 DEF TypeOK
      <3>2. QED
        BY <1>2, <3>1 DEF AllocFrame
    <2>4. QED
      BY <2>1, <2>2, <2>3 DEF Allocated
  <1>4. CallInv(i)'
    BY <1>1, <1>2, <1>3, QuietLabel DEF CallInv, RequestInv
  <1>5. QED
    BY <1>1, <1>4, QuietStep DEF Same, Unmoved

LEMMA ReturnRsv ==
    ASSUME TypeOK, RsvInv, NEW i \in Inodes, Return(i)
    PROVE  RsvInv'
  <1>1. /\ UNCHANGED <<rsv, tree, info, bug>>
        /\ \A j \in Inodes \ {i} : pc'[j] = pc[j] /\ af'[j] = af[j]
        /\ pc'[i] \notin {"more", "rsv", "check", "renew", "try", "claim"}
    BY DEF Return, window, Goto, TypeOK
  <1>2. af[i] \in AllocFrame /\ CallInv(i)
    BY DEF TypeOK, RsvInv
  <1>3. af'[i].my_rsv => af[i].my_rsv /\ af'[i].num = af[i].num
    BY <1>2 DEF Return, NoAlloc, TypeOK, AllocFrame
  <1>4. CallInv(i)'
    BY <1>1, <1>2, <1>3, QuietLabel DEF CallInv, RequestInv
  <1>5. QED
    BY <1>1, <1>4, QuietStep DEF Same, Unmoved

LEMMA OutRsv ==
    ASSUME TypeOK, RsvInv, NEW i \in Inodes, Out(i)
    PROVE  RsvInv'
  <1>1. /\ UNCHANGED <<rsv, tree, info, bug>>
        /\ \A j \in Inodes \ {i} : pc'[j] = pc[j] /\ af'[j] = af[j]
        /\ pc'[i] \notin {"more", "rsv", "check", "renew", "try", "claim"}
    BY DEF Out, window, Goto, TypeOK
  <1>2. af[i] \in AllocFrame /\ CallInv(i)
    BY DEF TypeOK, RsvInv
  <1>3. af'[i].my_rsv => af[i].my_rsv /\ af'[i].num = af[i].num
    BY <1>2 DEF Out, NoAlloc, TypeOK, AllocFrame
  <1>4. CallInv(i)'
    BY <1>1, <1>2, <1>3, QuietLabel DEF CallInv, RequestInv
  <1>5. QED
    BY <1>1, <1>4, QuietStep DEF Same, Unmoved

LEMMA ClaimFirstRsv ==
    ASSUME TypeOK, RsvInv, NEW i \in Inodes, ClaimFirst(i)
    PROVE  RsvInv'
  <1>1. /\ UNCHANGED <<rsv, tree, info, bug>>
        /\ \A j \in Inodes \ {i} : pc'[j] = pc[j] /\ af'[j] = af[j]
    BY DEF ClaimFirst, TryFailed, window, Goto, TypeOK
  <1>2. af[i] \in AllocFrame /\ CallInv(i) /\ pc[i] = "claim" /\ rsv[i] \in Window
    BY DEF TypeOK, RsvInv, ClaimFirst, At, Nodes
  <1>3. ASSUME TryFailed(i)
        PROVE  CallInv(i)'
    <2>1. /\ pc'[i] \in {"rsv", "scan"}
          /\ af'[i].group = af[i].group /\ af'[i].grp_goal = af[i].grp_goal
          /\ af'[i].my_rsv = af[i].my_rsv /\ (af[i].my_rsv => af'[i].num = af[i].num)
      BY <1>2, <1>3 DEF TryFailed, Goto, TypeOK, AllocFrame
    <2>2. QED
      BY <1>1, <1>2, <2>1 DEF CallInv, RequestInv, SearchInv, ClaimInv
  <1>4. ASSUME ~TryFailed(i)
        PROVE  CallInv(i)'
    <2>1. /\ \/ pc'[i] = "claim" /\ af'[i].start = af[i].start + 1
             \/ pc'[i] = "more" /\ af'[i].start = af[i].start /\ af'[i].got = 1
          /\ af'[i].group = af[i].group /\ af'[i].grp_goal = af[i].grp_goal
          /\ af'[i].my_rsv = af[i].my_rsv /\ af'[i].num = af[i].num
          /\ af'[i].end = af[i].end
      BY <1>2, <1>4 DEF ClaimFirst, Goto, TypeOK, AllocFrame
    <2>2. RequestInv(i)'
      BY <1>1, <1>2, <2>1 DEF CallInv, RequestInv
    <2>3. SearchInv(i)' /\ ClaimInv(i)'
      <3>1. /\ pc'[i] \in {"claim", "more"}
            /\ af[i].start <= af'[i].start
            /\ af[i].start \in Int /\ af'[i].start \in Int /\ rsv[i].start \in Int
        BY <1>2, <2>1 DEF AllocFrame, Window
      <3>2. QED
        BY <1>1, <1>2, <2>1, <3>1 DEF CallInv, SearchInv, ClaimInv
    <2>4. QED
      BY <2>2, <2>3 DEF CallInv
  <1>5. CallInv(i)'
    BY <1>3, <1>4
  <1>6. QED
    BY <1>1, <1>5, QuietStep DEF Same, Unmoved

LEMMA ClaimMoreRsv ==
    ASSUME TypeOK, RsvInv, NEW i \in Inodes, ClaimMore(i)
    PROVE  RsvInv'
  <1>1. /\ UNCHANGED <<tree, info, bug>>
        /\ \A j \in Inodes \ {i} : pc'[j] = pc[j] /\ af'[j] = af[j]
    BY DEF ClaimMore, Goto, TypeOK
  <1>2. af[i] \in AllocFrame /\ CallInv(i) /\ pc[i] = "more" /\ rsv[i] \in Window
    BY DEF TypeOK, RsvInv, ClaimMore, At, Nodes
  <1>3. /\ \A n \in Nodes : Unmoved(n)
        /\ \A n \in Nodes \ {i} : rsv'[n] = rsv[n]
    <2>1. rsv \in [Nodes -> Window] /\ i \in Nodes
      BY DEF TypeOK, Nodes
    <2>2. rsv' = rsv \/ \E h : rsv' = [rsv EXCEPT ![i].hit = h]
      BY DEF ClaimMore
    <2>3. QED
      BY <2>1, <2>2 DEF Window, Unmoved
  <1>4. /\ \/ pc'[i] = "more" /\ af'[i].got = af[i].got + 1 /\ af'[i].num = af[i].num
               /\ af'[i].end = af[i].end
           \/ pc'[i] = "allocated" /\ af'[i].num = af[i].got
        /\ af'[i].my_rsv = af[i].my_rsv /\ af'[i].start = af[i].start
    <2>1. \/ pc' = pc /\ af' = [af EXCEPT ![i].got = @ + 1]
          \/ /\ pc' = [pc EXCEPT ![i] = "allocated"]
             /\ af' = [af EXCEPT ![i] = [af[i] EXCEPT !.num = af[i].got, !.end = 0]]
      BY DEF ClaimMore, Goto
    <2>2. af \in [Inodes -> AllocFrame] /\ pc \in [Inodes -> Labels]
      BY DEF TypeOK
    <2>3. CASE pc' = pc /\ af' = [af EXCEPT ![i].got = @ + 1]
      BY <1>2, <2>2, <2>3 DEF AllocFrame
    <2>4. CASE /\ pc' = [pc EXCEPT ![i] = "allocated"]
               /\ af' = [af EXCEPT ![i] = [af[i] EXCEPT !.num = af[i].got, !.end = 0]]
      <3>1. af'[i] = [af[i] EXCEPT !.num = af[i].got, !.end = 0]
        BY <2>2, <2>4
      <3>2. QED
        BY <1>2, <2>2, <2>4, <3>1 DEF AllocFrame
    <2>5. QED
      BY <2>1, <2>3, <2>4
  <1>5. RequestInv(i)'
    BY <1>1, <1>2, <1>4 DEF CallInv, RequestInv, AllocFrame
  <1>6. SearchInv(i)' /\ ClaimInv(i)'
    <2>1. Unmoved(i)
      BY <1>3 DEF Nodes
    <2>2. QED
      BY <1>1, <1>2, <1>4, <2>1 DEF CallInv, SearchInv, ClaimInv, Unmoved
  <1>7. \A j \in Inodes \ {i} : Same(j)
    BY <1>1, <1>3 DEF Same, Nodes
  <1>8. QED
    BY <1>1, <1>3, <1>5, <1>6, <1>7, QuietStep DEF CallInv

-----------------------------------------------------------------------------
(* Steps that move a window.                                               *)

LEMMA WindowRemoved ==
    ASSUME TypeOK, WindowsInv, NEW i \in Inodes, info' = info, tree' = tree \ {i},
           \A n \in Nodes \ {i} : rsv'[n] = rsv[n], rsv'[i].end = 0
    PROVE  WindowsInv'
  <1>1. tree \subseteq Nodes /\ Inodes \subseteq Nodes /\ RsvHead \in Nodes /\ RsvHead # i
    BY ConstantsAssumption DEF TypeOK, Nodes
  <1>2. \A n \in tree' : n \in tree /\ rsv'[n] = rsv[n]
    BY <1>1
  <1>3. RsvHead \in tree' /\ rsv'[RsvHead] = rsv[RsvHead]
    BY <1>1 DEF WindowsInv, WindowsDisjoint
  <1>4. \A j \in Inodes : j \in tree' <=> ~rsv_is_empty(j)'
    BY <1>1 DEF WindowsInv, WindowsDisjoint, rsv_is_empty
  <1>5. \A m, n \in tree' : m # n => ~Overlap(m, n)'
    BY <1>2 DEF WindowsInv, WindowsDisjoint, Overlap
  <1>6. WindowsDisjoint'
    BY <1>2, <1>3, <1>4, <1>5 DEF WindowsInv, WindowsDisjoint
  <1>7. QED
    BY <1>2, <1>3, <1>6 DEF WindowsInv

\* Inode i gets the window lo .. hi, which meets no other one.
LEMMA WindowPlaced ==
    ASSUME TypeOK, WindowsInv, NEW i \in Inodes, i \in info, info' = info,
           tree' = tree \cup {i},
           NEW lo \in Int, NEW hi \in Int, 1 <= lo, lo <= hi,
           \A m \in tree \ {i} : hi < rsv[m].start \/ rsv[m].end < lo,
           \A n \in Nodes \ {i} : rsv'[n] = rsv[n],
           rsv'[i].start = lo, rsv'[i].end = hi
    PROVE  WindowsInv'
  <1>1. tree \subseteq Nodes /\ Inodes \subseteq Nodes /\ RsvHead \in Nodes /\ RsvHead # i
    BY ConstantsAssumption DEF TypeOK, Nodes
  <1>2. \A n \in tree' \ {i} : n \in tree /\ rsv'[n] = rsv[n]
    BY <1>1
  <1>3. RsvHead \in tree' /\ rsv'[RsvHead] = rsv[RsvHead]
    BY <1>1 DEF WindowsInv, WindowsDisjoint
  <1>4. \A j \in Inodes : j \in tree' <=> ~rsv_is_empty(j)'
    BY <1>1 DEF WindowsInv, WindowsDisjoint, rsv_is_empty
  <1>5. \A n \in tree' : rsv'[n].start <= rsv'[n].end /\ rsv'[n].start >= 0
    BY <1>2 DEF WindowsInv, WindowsDisjoint
  <1>6. ASSUME NEW m \in tree', NEW n \in tree', m # n
        PROVE  ~Overlap(m, n)'
    <2>1. \A k \in tree : rsv[k].start \in Int /\ rsv[k].end \in Int
      BY <1>1 DEF TypeOK, Window
    <2>2. CASE m = i
      BY <1>2, <1>6, <2>1, <2>2 DEF Overlap
    <2>3. CASE n = i
      BY <1>2, <1>6, <2>1, <2>3 DEF Overlap
    <2>4. CASE m # i /\ n # i
      BY <1>2, <1>6, <2>4 DEF WindowsInv, WindowsDisjoint, Overlap
    <2>5. QED
      BY <2>2, <2>3, <2>4
  <1>7. WindowsDisjoint'
    BY <1>3, <1>4, <1>5, <1>6 DEF WindowsDisjoint
  <1>8. QED
    BY <1>1, <1>3, <1>5, <1>7 DEF WindowsInv

\* Where the search of the window list stops, the space behind prev is free:
\* the window found starts after every window up to prev and ends before the
\* next one.
LEMMA GapIsFree ==
    ASSUME TypeOK, WindowsInv, NEW i \in Inodes, NEW prev \in tree, NEW start_block \in Int,
           NEW size \in Nat, size >= 1, GapAfter(prev, start_block, size)
    PROVE  /\ Cur(prev, start_block) \in Int
           /\ Cur(prev, start_block) >= 1
           /\ Cur(prev, start_block) >= start_block
           /\ \A m \in tree \ {i} : \/ Cur(prev, start_block) + size - 1 < rsv[m].start
                                    \/ rsv[m].end < Cur(prev, start_block)
  <1>1. \A n \in tree : /\ rsv[n].start \in Int /\ rsv[n].end \in Int
                        /\ 0 <= rsv[n].start /\ rsv[n].start <= rsv[n].end
    BY DEF TypeOK, Window, WindowsInv, WindowsDisjoint
  <1>2. /\ Cur(prev, start_block) \in Int
        /\ Cur(prev, start_block) > rsv[prev].end
        /\ Cur(prev, start_block) >= start_block
    BY <1>1 DEF Cur
  <1>3. ASSUME NEW m \in tree \ {i}
        PROVE  \/ Cur(prev, start_block) + size - 1 < rsv[m].start
               \/ rsv[m].end < Cur(prev, start_block)
    <2>1. CASE rsv[m].start > rsv[prev].start
      BY <1>1, <1>2, <2>1 DEF GapAfter
    <2>2. CASE rsv[m].start <= rsv[prev].start /\ m # prev
      <3>1. ~Overlap(m, prev)
        BY <2>2 DEF WindowsInv, WindowsDisjoint
      <3>2. QED
        BY <1>1, <1>2, <2>2, <3>1 DEF Overlap
    <2>3. CASE m = prev
      BY <1>2, <2>3
    <2>4. QED
      BY <1>1, <2>1, <2>2, <2>3
  <1>4. QED
    BY <1>1, <1>2, <1>3

\* find_next_reservable_window and kr_rsv_window_add keep the tree sound and
\* never reach BUG().
LEMMA FindNextRsv ==
    ASSUME TypeOK, WindowsInv, ~bug, NEW i \in Inodes, i \in info, info' = info,
           NEW head, NEW start_block \in Int, NEW size \in Nat, size >= 1,
           find_next_reservable_window(i, head, start_block, size)
    PROVE  /\ WindowsInv' /\ ~bug'
           /\ \A j \in Inodes \ {i} :
                 pc'[j] = pc[j] /\ rsv'[j] = rsv[j] /\ (j \in tree' <=> j \in tree)
           /\ \/ pc'[i] = "scan"
              \/ /\ pc'[i] = "check" /\ i \in tree' /\ rsv'[i].goal_size >= 1
                 /\ start_block <= rsv'[i].start
  <1>1. PICK prev \in tree :
           /\ StopsAt(prev, head, start_block, size)
           /\ \/ /\ rsv' = [rsv EXCEPT ![i] = Empty(size)]
                 /\ tree' = tree \ {i}
                 /\ Goto(i, "scan")
                 /\ UNCHANGED bug
              \/ /\ rsv' = [rsv EXCEPT ![i] =
                            [start |-> Cur(prev, start_block),
                             end |-> Cur(prev, start_block) + size - 1,
                             goal_size |-> size, hit |-> 0]]
                 /\ tree' = tree \cup {i}
                 /\ bug' = (bug \/ (prev # i /\ Collides(i, Cur(prev, start_block))))
                 /\ Goto(i, "check")
    BY DEF find_next_reservable_window
  <1> DEFINE cur == Cur(prev, start_block)
  <1>2. rsv \in [Nodes -> Window] /\ pc \in [Inodes -> Labels] /\ i \in Nodes
    BY DEF TypeOK, Nodes
  <1>3. CASE /\ rsv' = [rsv EXCEPT ![i] = Empty(size)]
             /\ tree' = tree \ {i}
             /\ Goto(i, "scan")
             /\ UNCHANGED bug
    <2>1. (\A n \in Nodes \ {i} : rsv'[n] = rsv[n]) /\ rsv'[i].end = 0
      BY <1>2, <1>3 DEF Empty
    <2>2. WindowsInv'
      BY <1>3, <2>1, WindowRemoved
    <2>3. \A j \in Inodes \ {i} : pc'[j] = pc[j]
      BY <1>2, <1>3 DEF Goto
    <2>4. pc'[i] = "scan"
      BY <1>2, <1>3 DEF Goto
    <2>5. QED
      BY <1>3, <2>1, <2>2, <2>3, <2>4 DEF Nodes
  <1>4. CASE /\ rsv' = [rsv EXCEPT ![i] = [start |-> cur, end |-> cur + size - 1,
                                           goal_size |-> size, hit |-> 0]]
             /\ tree' = tree \cup {i}
             /\ bug' = (bug \/ (prev # i /\ Collides(i, cur)))
             /\ Goto(i, "check")
    <2>1. /\ cur \in Int /\ cur >= 1 /\ cur >= start_block
          /\ \A m \in tree \ {i} : cur + size - 1 < rsv[m].start \/ rsv[m].end < cur
      BY <1>1, GapIsFree DEF StopsAt
    <2>2. rsv'[i] = [start |-> cur, end |-> cur + size - 1, goal_size |-> size, hit |-> 0]
      BY <1>2, <1>4
    <2>3. \A n \in Nodes \ {i} : rsv'[n] = rsv[n]
      BY <1>2, <1>4
    <2> HIDE DEF cur
    <2>4. rsv'[i].start = cur /\ rsv'[i].end = cur + size - 1 /\ rsv'[i].goal_size = size
      BY <2>2
    <2>5. cur + size - 1 \in Int /\ cur <= cur + size - 1
      BY <2>1
    <2>6. WindowsInv'
      BY <1>4, <2>1, <2>3, <2>4, <2>5, WindowPlaced
    <2>7. ~Collides(i, cur)
      <3>1. \A m \in tree : rsv[m].start \in Int /\ rsv[m].end \in Int
        BY DEF TypeOK, Window
      <3>2. QED
        BY <2>1, <3>1 DEF Collides
    <2>8. (\A j \in Inodes \ {i} : pc'[j] = pc[j]) /\ pc'[i] = "check"
      BY <1>2, <1>4 DEF Goto
    <2>9. QED
      BY <1>4, <2>1, <2>3, <2>4, <2>6, <2>7, <2>8 DEF Nodes
  <1>5. QED
    BY <1>1, <1>3, <1>4

-----------------------------------------------------------------------------
(* The actions that use the windows.                                       *)

LEMMA NewBlocksRsv ==
    ASSUME TypeOK, RsvInv, NEW i \in Inodes, NewBlocks(i)
    PROVE  RsvInv'
  <1>1. PICK goal \in Goals, count \in 1 .. MaxCount,
             privileged \in BOOLEAN, has_free \in kr_has_free_blocks,
             kmalloc \in (IF IOErrors THEN BOOLEAN ELSE {TRUE}) :
           /\ info' = IF Fresh(i, kmalloc) THEN info \cup {i} ELSE info
           /\ rsv' = IF Fresh(i, kmalloc) THEN [rsv EXCEPT ![i] = Empty(DefaultReserve)] ELSE rsv
           /\ af' = [af EXCEPT ![i] = EntryFrame(ClampedGoal(goal), count,
                                                 WindowSize(i, Fresh(i, kmalloc)))]
    BY DEF NewBlocks
  <1>1a. UNCHANGED <<tree, bug>> /\ (Goto(i, "retry") \/ Goto(i, "nospace"))
    BY DEF NewBlocks
  <1>2. /\ \A j \in Inodes \ {i} : pc'[j] = pc[j] /\ af'[j] = af[j]
        /\ pc'[i] \in {"retry", "nospace"}
        /\ af'[i] = EntryFrame(ClampedGoal(goal), count, WindowSize(i, Fresh(i, kmalloc)))
    BY <1>1, <1>1a DEF TypeOK, Goto
  <1>3. af'[i].my_rsv => af'[i].num >= 1 /\ i \in info'
    <2>1. af'[i].my_rsv = (WindowSize(i, Fresh(i, kmalloc)) > 0) /\ af'[i].num = count
      BY <1>2 DEF EntryFrame, NoAlloc
    <2>2. ~Fresh(i, kmalloc) /\ i \notin info => WindowSize(i, Fresh(i, kmalloc)) = 0
      BY DEF WindowSize
    <2>3. Fresh(i, kmalloc) \/ i \in info => i \in info'
      BY <1>1
    <2>4. count >= 1 /\ ~(0 > 0)
      BY ConstantsAssumption
    <2>5. QED
      BY <2>1, <2>2, <2>3, <2>4
  <1>4. rsv \in [Nodes -> Window] /\ i \in Nodes
    BY DEF TypeOK, Nodes
  <1>5. /\ \A n \in Nodes \ {i} : rsv'[n] = rsv[n]
        /\ \A n \in Nodes : Unmoved(n)
    <2>1. CASE ~Fresh(i, kmalloc)
      BY <1>1, <2>1 DEF Unmoved
    <2>2. CASE Fresh(i, kmalloc)
      <3>1. rsv' = [rsv EXCEPT ![i] = Empty(DefaultReserve)]
        BY <1>1, <2>2
      <3>2. rsv[i].end = 0 /\ i \notin tree
        BY <2>2 DEF Fresh, RsvInv, WindowsInv, WindowsDisjoint, rsv_is_empty
      <3>3. QED
        BY <1>4, <3>1, <3>2 DEF Unmoved, Empty
    <2>3. QED
      BY <2>1, <2>2
  <1>6. CallInv(i)'
    BY <1>2, <1>3, QuietLabel
  <1>7. \A j \in Inodes \ {i} : Same(j)
    BY <1>1, <1>1a, <1>2, <1>5 DEF Same, Nodes
  <1>8. QED
    BY <1>1, <1>1a, <1>5, <1>6, <1>7, QuietStep

LEMMA SetReservationSizeRsv ==
    ASSUME TypeOK, RsvInv, NEW i \in Inodes, SetReservationSize(i)
    PROVE  RsvInv'
  <1>1. PICK size : rsv' = [rsv EXCEPT ![i].goal_size = size]
    BY DEF SetReservationSize
  <1>2. /\ UNCHANGED <<tree, bug, pc, af>> /\ info \subseteq info'
        /\ pc[i] = "idle"
    BY DEF SetReservationSize, Enter, At
  <1>3. /\ \A n \in Nodes \ {i} : rsv'[n] = rsv[n]
        /\ \A n \in Nodes : Unmoved(n)
    BY <1>1 DEF Unmoved, TypeOK, Window
  <1>4. CallInv(i)'
    BY <1>2, QuietLabel DEF RsvInv, CallInv, RequestInv
  <1>5. \A j \in Inodes \ {i} : Same(j)
    BY <1>2, <1>3 DEF Same, Nodes
  <1>6. QED
    BY <1>2, <1>3, <1>4, <1>5, QuietStep

LEMMA DiscardReservationRsv ==
    ASSUME TypeOK, RsvInv, NEW i \in Inodes, DiscardReservation(i)
    PROVE  RsvInv'
  <1>1. /\ UNCHANGED <<info, bug, pc, af>> /\ tree' = tree \ {i}
        /\ rsv' = [rsv EXCEPT ![i] = Empty(rsv[i].goal_size)]
        /\ pc[i] = "idle"
    BY DEF DiscardReservation, Enter, At
  <1>2. (\A n \in Nodes \ {i} : rsv'[n] = rsv[n]) /\ rsv'[i].end = 0
    BY <1>1 DEF TypeOK, Nodes, Empty
  <1>3. WindowsInv' /\ ~bug'
    BY <1>1, <1>2, WindowRemoved DEF RsvInv
  <1>4. CallInv(i)'
    BY <1>1, QuietLabel DEF RsvInv, CallInv, RequestInv
  <1>5. \A j \in Inodes \ {i} : CallInv(j)'
    BY <1>1, <1>2, OthersKept DEF RsvInv, Same, Nodes
  <1>6. QED
    BY <1>3, <1>4, <1>5 DEF RsvInv

LEMMA CheckReservationRsv ==
    ASSUME TypeOK, RsvInv, NEW i \in Inodes, CheckReservation(i)
    PROVE  RsvInv'
  <1>1. /\ af[i] \in AllocFrame /\ CallInv(i) /\ pc[i] = "check"
        /\ rsv[i] \in Window /\ i \in Nodes
        /\ af \in [Inodes -> AllocFrame] /\ pc \in [Inodes -> Labels]
        /\ rsv \in [Nodes -> Window]
    BY DEF TypeOK, RsvInv, CheckReservation, At, Nodes
  <1>2. /\ GroupFirst(af[i].group) \in Int /\ GroupLast(af[i].group) \in Int
        /\ rsv[i].start \in Int /\ rsv[i].end \in Int
    BY <1>1, GroupBounds DEF AllocFrame, Window
  <1>3. UNCHANGED <<info, bug>>
    BY DEF CheckReservation
  <1>4. ASSUME rsv' = [rsv EXCEPT ![i] = Empty(rsv[i].goal_size)], tree' = tree \ {i},
               Goto(i, "scan"), af' = af
        PROVE  RsvInv'
    <2>1. (\A n \in Nodes \ {i} : rsv'[n] = rsv[n]) /\ rsv'[i].end = 0
      BY <1>1, <1>4 DEF Empty
    <2>2. (\A j \in Inodes \ {i} : pc'[j] = pc[j]) /\ pc'[i] = "scan"
      BY <1>1, <1>4 DEF Goto
    <2>3. WindowsInv' /\ ~bug'
      BY <1>3, <1>4, <2>1, WindowRemoved DEF RsvInv
    <2>4. CallInv(i)'
      BY <1>1, <1>3, <1>4, <2>2, QuietLabel DEF CallInv, RequestInv
    <2>5. \A j \in Inodes \ {i} : CallInv(j)'
      BY <1>3, <1>4, <2>1, <2>2, OthersKept DEF RsvInv, Same, Nodes
    <2>6. QED
      BY <2>3, <2>4, <2>5 DEF RsvInv
  <1>5. ASSUME NEW b \in Int, rsv[i].start <= b, b <= GroupLast(af[i].group),
               UNCHANGED <<rsv, tree>>,
               IF b <= rsv[i].end
               THEN /\ af' = [af EXCEPT ![i].grp_goal =
                                IF goal_in_my_reservation(i, @, af[i].group) THEN @ ELSE NoBlock]
                    /\ Goto(i, "try")
               ELSE /\ af' = [af EXCEPT ![i].start = b]
                    /\ Goto(i, "renew")
        PROVE  RsvInv'
    <2>1. \A j \in Inodes \ {i} : pc'[j] = pc[j] /\ af'[j] = af[j]
      BY <1>1, <1>5 DEF Goto
    <2>2. \/ /\ pc'[i] = "try" /\ b <= rsv[i].end
             /\ af'[i].grp_goal \in {af[i].grp_goal, NoBlock}
             /\ af'[i].start = af[i].start
          \/ /\ pc'[i] = "renew" /\ af'[i].start = b /\ af'[i].grp_goal = af[i].grp_goal
      BY <1>1, <1>5 DEF Goto, AllocFrame
    <2>3. /\ af'[i].my_rsv = af[i].my_rsv /\ af'[i].num = af[i].num
          /\ af'[i].group = af[i].group
      BY <1>1, <1>5 DEF AllocFrame
    <2>4. RequestInv(i)'
      BY <1>1, <1>3, <2>2, <2>3 DEF CallInv, RequestInv
    <2>5. SearchInv(i)' /\ ClaimInv(i)'
      <3>1. GroupFirst(af[i].group) <= rsv[i].start /\ i \in tree /\ af[i].my_rsv
            /\ rsv[i].goal_size >= 1
        BY <1>1 DEF CallInv, SearchInv
      <3>2. GroupFirst(af[i].group) <= b /\ rsv[i].start <= GroupLast(af[i].group)
        BY <1>2, <1>5, <3>1
      <3>3. b <= rsv[i].end => GroupFirst(af[i].group) <= rsv[i].end
        BY <1>2, <1>5, <3>2
      <3>4. QED
        BY <1>5, <2>2, <2>3, <3>1, <3>2, <3>3 DEF SearchInv, ClaimInv
    <2>6. QED
      BY <1>3, <1>5, <2>1, <2>4, <2>5, QuietStep DEF Same, Unmoved, CallInv
  <1>6. QED
    <2>1. ASSUME NEW b \in FreeIn(rsv[i].start, GroupLast(af[i].group) + 1)
          PROVE  b \in Int /\ rsv[i].start <= b /\ b <= GroupLast(af[i].group)
      BY <1>2 DEF FreeIn
    <2>2. \/ /\ rsv' = [rsv EXCEPT ![i] = Empty(rsv[i].goal_size)]
             /\ tree' = tree \ {i} /\ Goto(i, "scan") /\ af' = af
          \/ \E b \in FreeIn(rsv[i].start, GroupLast(af[i].group) + 1) :
                /\ IF b <= rsv[i].end
                   THEN /\ af' = [af EXCEPT ![i].grp_goal =
                                    IF goal_in_my_reservation(i, @, af[i].group)
                                    THEN @ ELSE NoBlock]
                        /\ Goto(i, "try")
                   ELSE /\ af' = [af EXCEPT ![i].start = b]
                        /\ Goto(i, "renew")
                /\ UNCHANGED <<rsv, tree>>
      BY DEF CheckReservation
    <2>3. QED
      BY <1>4, <1>5, <2>1, <2>2

LEMMA AllocNewReservationRsv ==
    ASSUME TypeOK, RsvInv, NEW i \in Inodes, AllocNewReservation(i)
    PROVE  RsvInv'
  <1> DEFINE start_block == IF af[i].grp_goal = NoBlock THEN GroupFirst(af[i].group)
                            ELSE af[i].grp_goal
  <1>1. /\ af[i] \in AllocFrame /\ CallInv(i) /\ pc[i] = "rsv" /\ af[i].my_rsv
        /\ rsv[i] \in Window /\ i \in Nodes
        /\ UNCHANGED <<info, af>>
        /\ rsv \in [Nodes -> Window] /\ pc \in [Inodes -> Labels]
    BY DEF TypeOK, RsvInv, AllocNewReservation, At, Nodes
  <1>2. /\ start_block \in Int /\ GroupFirst(af[i].group) <= start_block
        /\ GroupFirst(af[i].group) \in Int
    BY <1>1, GroupBounds DEF AllocFrame, CallInv, RequestInv
  <1>3. i \in info /\ af[i].num >= 1
    BY <1>1 DEF CallInv, RequestInv
  <1>4. NewGoalSize(i) \in Nat /\ NewGoalSize(i) >= 1
    <2>1. rsv[i].goal_size \in Nat /\ af[i].num \in Nat /\ MaxReserve \in Nat \ {0}
      BY <1>1, ConstantsAssumption DEF Window, AllocFrame
    <2>2. QED
      BY <1>3, <2>1, NewGoalSizeType DEF NewGoalSize
  <1>5. CASE CrossesGroup(i, start_block)
    <2>1. /\ rsv' = [rsv EXCEPT ![i].goal_size = IF @ < af[i].num THEN af[i].num ELSE @]
          /\ Goto(i, "scan")
          /\ UNCHANGED <<tree, bug>>
      BY <1>5 DEF AllocNewReservation
    <2>2. /\ \A n \in Nodes \ {i} : rsv'[n] = rsv[n]
          /\ \A n \in Nodes : Unmoved(n)
      BY <1>1, <2>1 DEF Unmoved, Window
    <2>3. (\A j \in Inodes \ {i} : pc'[j] = pc[j]) /\ pc'[i] = "scan"
      BY <1>1, <2>1 DEF Goto
    <2>4. CallInv(i)'
      BY <1>1, <1>3, <2>3, QuietLabel
    <2>5. \A j \in Inodes \ {i} : Same(j)
      BY <1>1, <2>1, <2>2, <2>3 DEF Same, Nodes
    <2>6. QED
      BY <1>1, <2>1, <2>2, <2>4, <2>5, QuietStep
  <1>6. CASE ~CrossesGroup(i, start_block)
    <2>1. PICK head \in tree :
             find_next_reservable_window(i, head, start_block, NewGoalSize(i))
      BY <1>6 DEF AllocNewReservation
    <2> HIDE DEF start_block
    <2>2. /\ WindowsInv' /\ ~bug'
          /\ \A j \in Inodes \ {i} :
                pc'[j] = pc[j] /\ rsv'[j] = rsv[j] /\ (j \in tree' <=> j \in tree)
          /\ \/ pc'[i] = "scan"
             \/ /\ pc'[i] = "check" /\ i \in tree' /\ rsv'[i].goal_size >= 1
                /\ start_block <= rsv'[i].start
      BY <1>1, <1>2, <1>3, <1>4, <2>1, FindNextRsv DEF RsvInv
    <2>3. rsv'[i].start \in Int
      BY <1>1, AllocNewReservationType DEF TypeOK, Window
    <2>4. CallInv(i)'
      <3>1. RequestInv(i)'
        BY <1>1, <1>3, <2>2 DEF RequestInv, CallInv
      <3>2. SearchInv(i)' /\ ClaimInv(i)'
        BY <1>1, <1>2, <2>2, <2>3 DEF SearchInv, ClaimInv
      <3>3. QED
        BY <3>1, <3>2 DEF CallInv
    <2>5. \A j \in Inodes \ {i} : CallInv(j)'
      BY <1>1, <2>2, OthersKept DEF RsvInv, Same
    <2>6. QED
      BY <2>2, <2>4, <2>5 DEF RsvInv
  <1>7. QED
    BY <1>5, <1>6

LEMMA RenewReservationRsv ==
    ASSUME TypeOK, RsvInv, NEW i \in Inodes, RenewReservation(i)
    PROVE  RsvInv'
  <1>1. /\ af[i] \in AllocFrame /\ CallInv(i) /\ pc[i] = "renew"
        /\ rsv[i] \in Window /\ i \in Nodes
        /\ UNCHANGED <<info, af>>
        /\ find_next_reservable_window(i, i, af[i].start, rsv[i].goal_size)
    BY DEF TypeOK, RsvInv, RenewReservation, At, Nodes
  <1>2. /\ af[i].start \in Int /\ rsv[i].goal_size \in Nat
        /\ GroupFirst(af[i].group) \in Int
    BY <1>1, GroupBounds DEF AllocFrame, Window
  <1>3. /\ i \in info /\ af[i].my_rsv /\ rsv[i].goal_size >= 1 /\ af[i].num >= 1
        /\ GroupFirst(af[i].group) <= af[i].start
    BY <1>1 DEF CallInv, RequestInv, SearchInv
  <1>4. /\ WindowsInv' /\ ~bug'
        /\ \A j \in Inodes \ {i} :
              pc'[j] = pc[j] /\ rsv'[j] = rsv[j] /\ (j \in tree' <=> j \in tree)
        /\ \/ pc'[i] = "scan"
           \/ /\ pc'[i] = "check" /\ i \in tree' /\ rsv'[i].goal_size >= 1
              /\ af[i].start <= rsv'[i].start
    BY <1>1, <1>2, <1>3, FindNextRsv DEF RsvInv
  <1>5. rsv'[i].start \in Int
    BY <1>1, RenewReservationType DEF TypeOK, Window
  <1>6. CallInv(i)'
    <2>1. RequestInv(i)'
      BY <1>1, <1>3, <1>4 DEF RequestInv, CallInv
    <2>2. SearchInv(i)' /\ ClaimInv(i)'
      BY <1>1, <1>2, <1>3, <1>4, <1>5 DEF SearchInv, ClaimInv
    <2>3. QED
      BY <2>1, <2>2 DEF CallInv
  <1>7. \A j \in Inodes \ {i} : CallInv(j)'
    BY <1>1, <1>4, OthersKept DEF RsvInv, Same
  <1>8. QED
    BY <1>4, <1>6, <1>7 DEF RsvInv

\* try_to_extend_reservation grows the window up to the next one at most.
LEMMA ExtendRsv ==
    ASSUME TypeOK, WindowsInv, NEW i \in Inodes, i \in tree, info' = info, tree' = tree,
           NEW size \in Nat, try_to_extend_reservation(i, size)
    PROVE  /\ WindowsInv'
           /\ \A n \in Nodes \ {i} : rsv'[n] = rsv[n]
           /\ rsv'[i].start = rsv[i].start
           /\ rsv'[i].end \in Int /\ rsv[i].end <= rsv'[i].end
  <1>1. \A n \in tree : /\ rsv[n].start \in Int /\ rsv[n].end \in Int
                        /\ 0 <= rsv[n].start /\ rsv[n].start <= rsv[n].end
    BY DEF TypeOK, Window, WindowsInv, WindowsDisjoint
  <1>2. i \in info /\ rsv \in [Nodes -> Window] /\ i \in Nodes
    BY DEF WindowsInv, TypeOK, Nodes
  <1>3. 1 <= rsv[i].start
    <2>1. RsvHead \in tree /\ RsvHead # i /\ ~Overlap(RsvHead, i)
      BY ConstantsAssumption DEF WindowsInv, WindowsDisjoint
    <2>2. QED
      BY <1>1, <2>1 DEF Overlap, WindowsInv
  <1>4. \A m \in tree \ {i} : rsv[m].end < rsv[i].start \/ rsv[i].end < rsv[m].start
    <2>1. \A m \in tree \ {i} : ~Overlap(m, i)
      BY DEF WindowsInv, WindowsDisjoint
    <2>2. QED
      BY <1>1, <2>1 DEF Overlap
  <1>5. ASSUME NEW hi \in Int, rsv[i].end <= hi, rsv' = [rsv EXCEPT ![i].end = hi],
               \A m \in tree \ {i} : rsv[m].start > rsv[i].start => hi < rsv[m].start
        PROVE  /\ WindowsInv'
               /\ \A n \in Nodes \ {i} : rsv'[n] = rsv[n]
               /\ rsv'[i].start = rsv[i].start
               /\ rsv'[i].end \in Int /\ rsv[i].end <= rsv'[i].end
    <2>1. /\ \A n \in Nodes \ {i} : rsv'[n] = rsv[n]
          /\ rsv'[i].start = rsv[i].start /\ rsv'[i].end = hi
      BY <1>2, <1>5 DEF Window
    <2>2. \A m \in tree \ {i} : hi < rsv[m].start \/ rsv[m].end < rsv[i].start
      BY <1>1, <1>4, <1>5
    <2>3. rsv[i].start \in Int /\ rsv[i].start <= hi /\ tree' = tree \cup {i}
      BY <1>1, <1>5
    <2>4. WindowsInv'
      BY <1>2, <1>3, <1>5, <2>1, <2>2, <2>3, WindowPlaced
    <2>5. QED
      BY <1>5, <2>1, <2>4
  <1>6. CASE \E n \in tree :
               /\ IsNext(n, i)
               /\ rsv' = [rsv EXCEPT ![i].end =
                            IF rsv[n].start - @ - 1 >= size THEN @ + size ELSE rsv[n].start - 1]
    <2>1. PICK n \in tree :
             /\ IsNext(n, i)
             /\ rsv' = [rsv EXCEPT ![i].end =
                          IF rsv[n].start - @ - 1 >= size THEN @ + size ELSE rsv[n].start - 1]
      BY <1>6
    <2> DEFINE hi == IF rsv[n].start - rsv[i].end - 1 >= size
                     THEN rsv[i].end + size ELSE rsv[n].start - 1
    <2>2. rsv[i].end < rsv[n].start
      BY <1>1, <1>4, <2>1 DEF IsNext
    <2>3. hi \in Int /\ rsv[i].end <= hi /\ hi < rsv[n].start
      BY <1>1, <2>2
    <2>4. \A m \in tree \ {i} : rsv[m].start > rsv[i].start => hi < rsv[m].start
      BY <1>1, <2>1, <2>3 DEF IsNext
    <2>5. rsv' = [rsv EXCEPT ![i].end = hi]
      BY <2>1
    <2> HIDE DEF hi
    <2>6. QED
      BY <1>5, <2>3, <2>4, <2>5
  <1>7. CASE /\ \A n \in tree : rsv[n].start <= rsv[i].start
             /\ rsv' = [rsv EXCEPT ![i].end = @ + size]
    <2>1. rsv[i].end + size \in Int /\ rsv[i].end <= rsv[i].end + size
      BY <1>1
    <2>2. \A m \in tree \ {i} : rsv[m].start > rsv[i].start => rsv[i].end + size < rsv[m].start
      BY <1>1, <1>7
    <2>3. rsv' = [rsv EXCEPT ![i].end = rsv[i].end + size]
      BY <1>7
    <2>4. QED
      BY <1>5, <2>1, <2>2, <2>3
  <1>8. QED
    BY <1>6, <1>7 DEF try_to_extend_reservation

LEMMA UseReservationRsv ==
    ASSUME TypeOK, RsvInv, NEW i \in Inodes, UseReservation(i)
    PROVE  RsvInv'
  <1>1. /\ af[i] \in AllocFrame /\ CallInv(i) /\ pc[i] = "rsv" /\ af[i].my_rsv
        /\ rsv[i] \in Window /\ i \in Nodes
        /\ UNCHANGED <<info, af, tree, bug>> /\ Goto(i, "try") /\ pc \in [Inodes -> Labels]
    BY DEF TypeOK, RsvInv, UseReservation, At, Nodes
  <1>2. i \in tree
    BY DEF UseReservation, NeedsNewWindow, RsvInv, WindowsInv, WindowsDisjoint
  <1>3. rsv[i].start <= GroupLast(af[i].group) /\ GroupFirst(af[i].group) <= rsv[i].end
    <2>1. /\ GroupFirst(af[i].group) \in Int /\ rsv[i].end \in Int
          /\ rsv[i].end >= GroupFirst(af[i].group)
      BY <1>1, GroupBounds DEF UseReservation, NeedsNewWindow, goal_in_my_reservation,
         AllocFrame, Window
    <2>2. QED
      BY <2>1 DEF UseReservation, NeedsNewWindow, goal_in_my_reservation
  <1>4. /\ WindowsInv'
        /\ \A n \in Nodes \ {i} : rsv'[n] = rsv[n]
        /\ rsv'[i].start = rsv[i].start
        /\ rsv'[i].end \in Int /\ rsv[i].end <= rsv'[i].end
    <2> DEFINE curr == rsv[i].end - af[i].grp_goal + 1
    <2>1. CASE UNCHANGED rsv
      BY <1>1, <2>1, WindowsKept DEF Unmoved, RsvInv, Window
    <2>2. CASE curr < af[i].num /\ try_to_extend_reservation(i, af[i].num - curr)
      <3>1. af[i].num - curr \in Nat
        BY <1>1, <2>2 DEF AllocFrame, Window
      <3> HIDE DEF curr
      <3>2. QED
        BY <1>1, <1>2, <2>2, <3>1, ExtendRsv DEF RsvInv
    <2>3. QED
      BY <2>1, <2>2 DEF UseReservation
  <1>5. (\A j \in Inodes \ {i} : pc'[j] = pc[j]) /\ pc'[i] = "try"
    BY <1>1 DEF Goto
  <1>6. CallInv(i)'
    <2>1. RequestInv(i)'
      BY <1>1, <1>5 DEF CallInv, RequestInv
    <2>2. SearchInv(i)'
      BY <1>5 DEF SearchInv
    <2>3. GroupFirst(af[i].group) \in Int /\ rsv[i].end \in Int
      BY <1>1, GroupBounds DEF AllocFrame, Window
    <2>4. rsv'[i].end >= GroupFirst(af[i].group)
      BY <1>3, <1>4, <2>3
    <2>5. ClaimInv(i)'
      BY <1>1, <1>2, <1>3, <1>4, <1>5, <2>4 DEF ClaimInv
    <2>6. QED
      BY <2>1, <2>2, <2>5 DEF CallInv
  <1>7. \A j \in Inodes \ {i} : CallInv(j)'
    BY <1>1, <1>4, <1>5, OthersKept DEF RsvInv, Same, Nodes
  <1>8. QED
    BY <1>1, <1>4, <1>6, <1>7 DEF RsvInv

\* The range kr_try_to_allocate computes lies in the window.
LEMMA TryToAllocateRsv ==
    ASSUME TypeOK, RsvInv, NEW i \in Inodes, TryToAllocate(i)
    PROVE  RsvInv'
  <1>1. /\ af[i] \in AllocFrame /\ CallInv(i)
        /\ pc[i] = "try" \/ (pc[i] = "rsv" /\ ~af[i].my_rsv)
        /\ rsv[i] \in Window /\ i \in Nodes
        /\ UNCHANGED <<info, rsv, tree>>
        /\ af \in [Inodes -> AllocFrame] /\ pc \in [Inodes -> Labels]
    BY DEF TypeOK, RsvInv, TryToAllocate, At, Nodes, window
  <1>2. /\ GroupFirst(af[i].group) \in Int /\ GroupLast(af[i].group) \in Int
        /\ rsv[i].start \in Int /\ rsv[i].end \in Int
    BY <1>1, GroupBounds DEF AllocFrame, Window
  <1>3. af[i].my_rsv => /\ i \in tree
                        /\ rsv[i].start <= GroupLast(af[i].group)
                        /\ rsv[i].end >= GroupFirst(af[i].group)
    BY <1>1 DEF CallInv, ClaimInv
  <1>4. bug' = bug
    <2>1. bug' = (bug \/ (af[i].my_rsv /\ \/ rsv[i].start > GroupLast(af[i].group)
                                          \/ rsv[i].end < GroupFirst(af[i].group)))
      BY DEF TryToAllocate
    <2>2. ~(af[i].my_rsv /\ \/ rsv[i].start > GroupLast(af[i].group)
                            \/ rsv[i].end < GroupFirst(af[i].group))
      BY <1>2, <1>3
    <2>3. bug \in BOOLEAN
      BY DEF TypeOK
    <2>4. QED
      BY <2>1, <2>2, <2>3
  <1>5. /\ RangeStart(i) \in Int /\ RangeEnd(i) \in Int
        /\ af[i].my_rsv => rsv[i].start <= RangeStart(i) /\ RangeEnd(i) <= rsv[i].end + 1
    BY <1>2 DEF RangeStart, RangeEnd
  <1>6. \/ TryFailed(i)
        \/ \E b \in RangeStart(i) .. RangeEnd(i) - 1 :
              /\ af' = [af EXCEPT ![i] = [af[i] EXCEPT !.start = b, !.end = RangeEnd(i)]]
              /\ Goto(i, "claim")
    BY DEF TryToAllocate
  <1>7. ASSUME TryFailed(i)
        PROVE  /\ \A j \in Inodes \ {i} : pc'[j] = pc[j] /\ af'[j] = af[j]
               /\ CallInv(i)'
    <2>1. /\ pc'[i] \in {"rsv", "scan"}
          /\ af'[i].group = af[i].group /\ af'[i].grp_goal = af[i].grp_goal
          /\ af'[i].my_rsv = af[i].my_rsv /\ (af[i].my_rsv => af'[i].num = af[i].num)
      BY <1>1, <1>7 DEF TryFailed, Goto, AllocFrame
    <2>2. \A j \in Inodes \ {i} : pc'[j] = pc[j] /\ af'[j] = af[j]
      BY <1>1, <1>7 DEF TryFailed, Goto
    <2>3. QED
      BY <1>1, <2>1, <2>2 DEF CallInv, RequestInv, SearchInv, ClaimInv
  <1>8. ASSUME NEW b \in RangeStart(i) .. RangeEnd(i) - 1,
               af' = [af EXCEPT ![i] = [af[i] EXCEPT !.start = b, !.end = RangeEnd(i)]],
               Goto(i, "claim")
        PROVE  /\ \A j \in Inodes \ {i} : pc'[j] = pc[j] /\ af'[j] = af[j]
               /\ CallInv(i)'
    <2>1. \A j \in Inodes \ {i} : pc'[j] = pc[j] /\ af'[j] = af[j]
      BY <1>1, <1>8 DEF Goto
    <2>2. af'[i] = [af[i] EXCEPT !.start = b, !.end = RangeEnd(i)] /\ pc'[i] = "claim"
      BY <1>1, <1>8 DEF Goto
    <2>3. /\ af'[i].start = b /\ af'[i].end = RangeEnd(i)
          /\ af'[i].group = af[i].group /\ af'[i].grp_goal = af[i].grp_goal
          /\ af'[i].my_rsv = af[i].my_rsv /\ af'[i].num = af[i].num
      BY <1>1, <2>2 DEF AllocFrame
    <2>4. RequestInv(i)' /\ SearchInv(i)'
      BY <1>1, <2>2, <2>3 DEF CallInv, RequestInv, SearchInv
    <2>5. af[i].my_rsv => rsv[i].start <= b
      BY <1>2, <1>5
    <2>6. ClaimInv(i)'
      BY <1>1, <1>3, <1>5, <2>2, <2>3, <2>5 DEF ClaimInv
    <2>7. QED
      BY <2>1, <2>4, <2>6 DEF CallInv
  <1>9. /\ \A j \in Inodes \ {i} : pc'[j] = pc[j] /\ af'[j] = af[j]
        /\ CallInv(i)'
    BY <1>6, <1>7, <1>8
  <1>10. QED
    BY <1>1, <1>4, <1>9, QuietStep DEF Same, Unmoved

-----------------------------------------------------------------------------
(* The theorems.                                                           *)

LEMMA InitRsv == Init => RsvInv
  <1> SUFFICES ASSUME Init PROVE RsvInv
    OBVIOUS
  <1>1. \A n \in Nodes : rsv[n] = Empty(0)
    BY DEF Init
  <1>2. RsvHead \in Nodes /\ Inodes \subseteq Nodes
    BY DEF Nodes
  <1>3. Empty(0).start = 0 /\ Empty(0).end = 0
    BY DEF Empty
  <1>4. WindowsInv
    <2>1. \A i \in Inodes : i \notin tree /\ rsv_is_empty(i)
      BY <1>1, <1>2, <1>3, ConstantsAssumption DEF Init, rsv_is_empty
    <2>2. tree = {RsvHead} /\ rsv[RsvHead].start = 0 /\ rsv[RsvHead].end = 0
      BY <1>1, <1>2, <1>3 DEF Init
    <2>3. QED
      BY <2>1, <2>2 DEF WindowsInv, WindowsDisjoint
  <1>5. \A i \in Inodes : CallInv(i)
    <2>1. \A i \in Inodes : pc[i] = "idle" /\ ~af[i].my_rsv
      BY DEF Init, NoAlloc
    <2>2. QED
      BY <2>1 DEF CallInv, RequestInv, SearchInv, ClaimInv
  <1>6. QED
    BY <1>4, <1>5 DEF RsvInv, Init

LEMMA NextRsv == TypeOK /\ RsvInv /\ [Next]_vars => RsvInv'
  <1> SUFFICES ASSUME TypeOK, RsvInv, [Next]_vars PROVE RsvInv'
    OBVIOUS
  <1>1. ASSUME NEW i \in Inodes, Call(i) \/ AllocStep(i) \/ FreeStep(i)
        PROVE  RsvInv'
    BY <1>1, NextCases, NewBlocksRsv, FreeBlocksRsv, DiscardReservationRsv,
       SetReservationSizeRsv, RetryAllocRsv, ScanGroupRsv, ScanDoneRsv,
       BitmapReadFailsRsv, BitmapInvalidRsv, AllocNewReservationRsv, RenewReservationRsv,
       CheckReservationRsv, UseReservationRsv, TryToAllocateRsv, ClaimFirstRsv,
       ClaimMoreRsv, AllocatedRsv, ReturnRsv, OutRsv, FreeGroupRsv, ClearBitRsv,
       FreeAdjustRsv, FreeReturnRsv
  <1>2. CASE UNCHANGED vars
    BY <1>2 DEF RsvInv, WindowsInv, WindowsDisjoint, Overlap, rsv_is_empty, CallInv,
       RequestInv, SearchInv, ClaimInv, vars, disk, window
  <1>3. QED
    BY <1>1, <1>2 DEF Next

\* The inductive invariant of the reservation windows holds in every behaviour:
\* the windows, the two BUG() tests and what each call in progress remembers
\* of its own window between two critical sections of s_rsv_window_lock.
THEOREM RsvInvariant == Spec => []RsvInv
  BY TypeCorrect, InitRsv, NextRsv, PTL DEF Spec

\* The reservation windows of different inodes never overlap, and a window is
\* in the tree exactly while it is allocated, however the calls interleave:
\* what find_next_reservable_window, kr_rsv_window_add, rsv_window_remove and
\* try_to_extend_reservation keep under s_rsv_window_lock.
THEOREM ReservationsDisjoint == Spec => []WindowsDisjoint
  <1>1. RsvInv => WindowsDisjoint
    BY DEF RsvInv, WindowsInv
  <1>2. QED
    BY <1>1, RsvInvariant, PTL

\* Neither of the two BUG() calls of balloc.c is reached.
THEOREM BugUnreachable == Spec => []NoBUG
  <1>1. RsvInv => NoBUG
    BY DEF RsvInv, NoBUG
  <1>2. QED
    BY <1>1, RsvInvariant, PTL

\* kr_try_to_allocate, given a window, only claims blocks that no other inode
\* has reserved, although it runs without s_rsv_window_lock.
THEOREM ClaimsStayReserved == Spec => []ClaimsOnlyOwnReservation
  <1>1. TypeOK /\ RsvInv => ClaimsOnlyOwnReservation
    <2> SUFFICES ASSUME TypeOK, RsvInv, NEW i \in Inodes,
                        pc[i] \in {"claim", "more"} /\ af[i].my_rsv,
                        NEW b \in af[i].start .. af[i].end - 1, NEW n \in tree \ {i},
                        rsv[n].start <= b /\ b <= rsv[n].end
                 PROVE  FALSE
      BY DEF ClaimsOnlyOwnReservation
    <2>1. i \in tree /\ rsv[i].start <= af[i].start /\ af[i].end <= rsv[i].end + 1
      BY DEF RsvInv, CallInv, ClaimInv
    <2>2. ~Overlap(i, n)
      BY <2>1 DEF RsvInv, WindowsInv, WindowsDisjoint
    <2>3. /\ af[i].start \in Int /\ af[i].end \in Int
          /\ rsv[i].start \in Int /\ rsv[i].end \in Int
          /\ rsv[n].start \in Int /\ rsv[n].end \in Int
      BY <2>1 DEF TypeOK, AllocFrame, Window
    <2>4. QED
      BY <2>1, <2>2, <2>3 DEF Overlap
  <1>2. QED
    BY <1>1, TypeCorrect, RsvInvariant, PTL

-----------------------------------------------------------------------------
(* Who holds a block.                                                      *)

\* The blocks a call in progress on inode i has between bitmap and block map.
InHand(i) == Claimed(i) \cup ToClear(i)

\* An inode's map, the blocks it lost and those of its call are disjoint, and
\* a run cut at the end of its group has a rest that is not negative.
HandsInv(i) ==
    /\ owned[i] \cap lost[i] = {}
    /\ owned[i] \cap InHand(i) = {}
    /\ lost[i] \cap InHand(i) = {}
    /\ pc[i] = "clear" => ff[i].overflow >= 0

\* The inductive invariant.
HeldInv == NoBlockHeldTwice /\ \A i \in Inodes : HandsInv(i)

Busy == {"more", "allocated", "percpu", "free", "clear"}

\* Outside these labels a call has no block in hand.
LEMMA NothingInHand ==
    ASSUME NEW i
    PROVE  /\ pc[i] \notin Busy => InHand(i) = {}
           /\ pc'[i] \notin Busy => InHand(i)' = {}
  BY DEF InHand, Claimed, ToClear, Busy

LEMMA HeldParts ==
    ASSUME NEW i
    PROVE  /\ Held(i) = owned[i] \cup lost[i] \cup InHand(i)
           /\ Held(i)' = owned'[i] \cup lost'[i] \cup InHand(i)'
  BY DEF Held, InHand

\* The step does not touch the call and the blocks of inode j.
Bystander(j) ==
    /\ pc'[j] = pc[j] /\ af'[j] = af[j] /\ ff'[j] = ff[j]
    /\ owned'[j] = owned[j] /\ lost'[j] = lost[j]

LEMMA BystanderKept ==
    ASSUME NEW j, Bystander(j), HandsInv(j)
    PROVE  Held(j)' = Held(j) /\ HandsInv(j)'
  <1>1. Claimed(j)' = Claimed(j)
    BY DEF Claimed, Bystander
  <1>2. ToClear(j)' = ToClear(j)
    BY DEF ToClear, Bystander
  <1>3. InHand(j)' = InHand(j)
    BY <1>1, <1>2 DEF InHand
  <1>4. QED
    BY <1>3, HeldParts DEF HandsInv, Bystander

\* Where blocks come from and what becomes of bits, in any step: a block that somebody
\* comes to hold was free, and a bit that is cleared was somebody's.
HeldMoves ==
    /\ \A j \in Inodes : \A x \in Held(j)' : x \in Held(j) \/ x \notin bitmap
    /\ \A x \in bitmap : x \in bitmap' \/ \E j \in Inodes : x \in Held(j)

\* What a step of inode i must respect: whatever it comes to hold it held
\* before or took from the free blocks, and it clears no bit of the others.
LEMMA HeldStep ==
    ASSUME HeldInv, NEW i \in Inodes,
           \A j \in Inodes \ {i} : Bystander(j),
           \A x \in Held(i)' : x \in Held(i) \/ x \notin bitmap,
           Held(i)' \subseteq bitmap',
           \A x \in bitmap : x \in bitmap' \/ x \in Held(i),
           HandsInv(i)'
    PROVE  HeldInv' /\ HeldMoves
  <1>1. \A j \in Inodes \ {i} : Held(j)' = Held(j) /\ HandsInv(j)'
    BY BystanderKept DEF HeldInv
  <1>2. /\ \A j \in Inodes : Held(j) \subseteq bitmap
        /\ \A j, k \in Inodes : j # k => Held(j) \cap Held(k) = {}
    BY DEF HeldInv, NoBlockHeldTwice
  <1>3. \A j \in Inodes : Held(j)' \subseteq bitmap'
    BY <1>1, <1>2
  <1>4. \A j \in Inodes \ {i} : Held(i)' \cap Held(j)' = {}
    BY <1>1, <1>2
  <1>5. \A j, k \in Inodes : j # k => Held(j)' \cap Held(k)' = {}
    BY <1>1, <1>2, <1>4
  <1>6. HeldMoves
    BY <1>1 DEF HeldMoves
  <1>7. QED
    BY <1>1, <1>3, <1>5, <1>6 DEF HeldInv, NoBlockHeldTwice

\* A step that only moves inode i's blocks around, or gives some up.
LEMMA Reshuffle ==
    ASSUME HeldInv, NEW i \in Inodes, \A j \in Inodes \ {i} : Bystander(j),
           bitmap' = bitmap, Held(i)' \subseteq Held(i), HandsInv(i)'
    PROVE  HeldInv' /\ HeldMoves
  <1>1. Held(i) \subseteq bitmap
    BY DEF HeldInv, NoBlockHeldTwice
  <1>2. QED
    BY <1>1, HeldStep

\* A step that ends with nothing in hand and leaves the maps alone.
LEMMA LetGo ==
    ASSUME HeldInv, NEW i \in Inodes, \A j \in Inodes \ {i} : Bystander(j),
           bitmap' = bitmap, owned'[i] = owned[i], lost'[i] = lost[i], pc'[i] \notin Busy
    PROVE  HeldInv' /\ HeldMoves
  <1>1. InHand(i)' = {}
    BY NothingInHand
  <1>2. Held(i)' \subseteq Held(i)
    BY <1>1, HeldParts
  <1>3. HandsInv(i)'
    BY <1>1 DEF HandsInv, HeldInv, Busy
  <1>4. QED
    BY <1>2, <1>3, Reshuffle

LEMMA NewBlocksHeld ==
    ASSUME TypeOK, HeldInv, NEW i \in Inodes, NewBlocks(i)
    PROVE  HeldInv' /\ HeldMoves
  <1>1. UNCHANGED <<bitmap, owned, lost>> /\ pc'[i] \notin Busy
    BY DEF NewBlocks, Goto, At, TypeOK, disk, window, Busy, Enter
  <1>2. \A j \in Inodes \ {i} : Bystander(j)
    BY DEF NewBlocks, Goto, TypeOK, Bystander, disk, Enter
  <1>3. QED
    BY <1>1, <1>2, LetGo

LEMMA DiscardReservationHeld ==
    ASSUME TypeOK, HeldInv, NEW i \in Inodes, DiscardReservation(i)
    PROVE  HeldInv' /\ HeldMoves
  <1>1. UNCHANGED <<bitmap, owned, lost>> /\ pc'[i] \notin Busy
    BY DEF DiscardReservation, Goto, At, TypeOK, disk, window, Busy, Enter
  <1>2. \A j \in Inodes \ {i} : Bystander(j)
    BY DEF DiscardReservation, Goto, TypeOK, Bystander, disk, Enter
  <1>3. QED
    BY <1>1, <1>2, LetGo

LEMMA SetReservationSizeHeld ==
    ASSUME TypeOK, HeldInv, NEW i \in Inodes, SetReservationSize(i)
    PROVE  HeldInv' /\ HeldMoves
  <1>1. UNCHANGED <<bitmap, owned, lost>> /\ pc'[i] \notin Busy
    BY DEF SetReservationSize, Goto, At, TypeOK, disk, window, Busy, Enter
  <1>2. \A j \in Inodes \ {i} : Bystander(j)
    BY DEF SetReservationSize, Goto, TypeOK, Bystander, disk, Enter
  <1>3. QED
    BY <1>1, <1>2, LetGo

LEMMA RetryAllocHeld ==
    ASSUME TypeOK, HeldInv, NEW i \in Inodes, RetryAlloc(i)
    PROVE  HeldInv' /\ HeldMoves
  <1>1. UNCHANGED <<bitmap, owned, lost>> /\ pc'[i] \notin Busy
    BY DEF RetryAlloc, Goto, At, TypeOK, disk, window, Busy
  <1>2. \A j \in Inodes \ {i} : Bystander(j)
    BY DEF RetryAlloc, Goto, TypeOK, Bystander, disk
  <1>3. QED
    BY <1>1, <1>2, LetGo

LEMMA ScanGroupHeld ==
    ASSUME TypeOK, HeldInv, NEW i \in Inodes, ScanGroup(i)
    PROVE  HeldInv' /\ HeldMoves
  <1>1. UNCHANGED <<bitmap, owned, lost>> /\ pc'[i] \notin Busy
    BY DEF ScanGroup, Goto, At, TypeOK, disk, window, Busy
  <1>2. \A j \in Inodes \ {i} : Bystander(j)
    BY DEF ScanGroup, Goto, TypeOK, Bystander, disk
  <1>3. QED
    BY <1>1, <1>2, LetGo

LEMMA ScanDoneHeld ==
    ASSUME TypeOK, HeldInv, NEW i \in Inodes, ScanDone(i)
    PROVE  HeldInv' /\ HeldMoves
  <1>1. UNCHANGED <<bitmap, owned, lost>> /\ pc'[i] \notin Busy
    BY DEF ScanDone, Goto, At, TypeOK, disk, window, Busy
  <1>2. \A j \in Inodes \ {i} : Bystander(j)
    BY DEF ScanDone, Goto, TypeOK, Bystander, disk
  <1>3. QED
    BY <1>1, <1>2, LetGo

LEMMA BitmapInvalidHeld ==
    ASSUME TypeOK, HeldInv, NEW i \in Inodes, BitmapInvalid(i)
    PROVE  HeldInv' /\ HeldMoves
  <1>1. UNCHANGED <<bitmap, owned, lost, pc, af, ff>> /\ pc'[i] \notin Busy
    BY DEF BitmapInvalid, At, disk, Busy
  <1>2. \A j \in Inodes \ {i} : Bystander(j)
    BY <1>1 DEF Bystander
  <1>3. QED
    BY <1>1, <1>2, LetGo

LEMMA BitmapReadFailsHeld ==
    ASSUME TypeOK, HeldInv, NEW i \in Inodes, BitmapReadFails(i)
    PROVE  HeldInv' /\ HeldMoves
  <1>1. UNCHANGED <<bitmap, owned, lost>> /\ pc'[i] \notin Busy
    BY DEF BitmapReadFails, Goto, At, TypeOK, disk, window, Busy
  <1>2. \A j \in Inodes \ {i} : Bystander(j)
    BY DEF BitmapReadFails, Goto, TypeOK, Bystander, disk
  <1>3. QED
    BY <1>1, <1>2, LetGo

LEMMA CheckReservationHeld ==
    ASSUME TypeOK, HeldInv, NEW i \in Inodes, CheckReservation(i)
    PROVE  HeldInv' /\ HeldMoves
  <1>1. UNCHANGED <<bitmap, owned, lost>> /\ pc'[i] \notin Busy
    BY DEF CheckReservation, Goto, At, TypeOK, disk, window, Busy
  <1>2. \A j \in Inodes \ {i} : Bystander(j)
    BY DEF CheckReservation, Goto, TypeOK, Bystander, disk
  <1>3. QED
    BY <1>1, <1>2, LetGo

LEMMA UseReservationHeld ==
    ASSUME TypeOK, HeldInv, NEW i \in Inodes, UseReservation(i)
    PROVE  HeldInv' /\ HeldMoves
  <1>1. UNCHANGED <<bitmap, owned, lost>> /\ pc'[i] \notin Busy
    BY DEF UseReservation, Goto, At, TypeOK, disk, window, Busy
  <1>2. \A j \in Inodes \ {i} : Bystander(j)
    BY DEF UseReservation, Goto, TypeOK, Bystander, disk
  <1>3. QED
    BY <1>1, <1>2, LetGo

LEMMA TryToAllocateHeld ==
    ASSUME TypeOK, HeldInv, NEW i \in Inodes, TryToAllocate(i)
    PROVE  HeldInv' /\ HeldMoves
  <1>1. UNCHANGED <<bitmap, owned, lost>> /\ pc'[i] \notin Busy
    BY DEF TryToAllocate, Goto, At, TypeOK, disk, window, Busy, TryFailed
  <1>2. \A j \in Inodes \ {i} : Bystander(j)
    BY DEF TryToAllocate, Goto, TypeOK, Bystander, disk, TryFailed
  <1>3. QED
    BY <1>1, <1>2, LetGo

LEMMA OutHeld ==
    ASSUME TypeOK, HeldInv, NEW i \in Inodes, Out(i)
    PROVE  HeldInv' /\ HeldMoves
  <1>1. UNCHANGED <<bitmap, owned, lost>> /\ pc'[i] \notin Busy
    BY DEF Out, Goto, At, TypeOK, disk, window, Busy
  <1>2. \A j \in Inodes \ {i} : Bystander(j)
    BY DEF Out, Goto, TypeOK, Bystander, disk
  <1>3. QED
    BY <1>1, <1>2, LetGo

LEMMA FreeReturnHeld ==
    ASSUME TypeOK, HeldInv, NEW i \in Inodes, FreeReturn(i)
    PROVE  HeldInv' /\ HeldMoves
  <1>1. UNCHANGED <<bitmap, owned, lost>> /\ pc'[i] \notin Busy
    BY DEF FreeReturn, Goto, At, TypeOK, disk, window, Busy
  <1>2. \A j \in Inodes \ {i} : Bystander(j)
    BY DEF FreeReturn, Goto, TypeOK, Bystander, disk
  <1>3. QED
    BY <1>1, <1>2, LetGo

LEMMA FindNextHeld ==
    ASSUME TypeOK, NEW i \in Inodes, NEW head, NEW start_block, NEW size,
           find_next_reservable_window(i, head, start_block, size)
    PROVE  pc'[i] \in {"scan", "check"} /\ \A j \in Inodes \ {i} : pc'[j] = pc[j]
  <1>1. Goto(i, "scan") \/ Goto(i, "check")
    BY DEF find_next_reservable_window
  <1>2. QED
    BY <1>1 DEF Goto, TypeOK

LEMMA AllocNewReservationHeld ==
    ASSUME TypeOK, HeldInv, NEW i \in Inodes, AllocNewReservation(i)
    PROVE  HeldInv' /\ HeldMoves
  <1>1. UNCHANGED <<bitmap, owned, lost, af, ff>>
    BY DEF AllocNewReservation, disk
  <1>2. \/ Goto(i, "scan")
        \/ \E head, start_block, size : find_next_reservable_window(i, head, start_block, size)
    BY DEF AllocNewReservation
  <1>3. pc'[i] \in {"scan", "check"} /\ \A j \in Inodes \ {i} : pc'[j] = pc[j]
    <2>1. CASE Goto(i, "scan")
      BY <2>1 DEF Goto, TypeOK
    <2>2. QED
      BY <1>2, <2>1, FindNextHeld
  <1>4. QED
    BY <1>1, <1>3, LetGo DEF Bystander, Busy

LEMMA RenewReservationHeld ==
    ASSUME TypeOK, HeldInv, NEW i \in Inodes, RenewReservation(i)
    PROVE  HeldInv' /\ HeldMoves
  <1>1. UNCHANGED <<bitmap, owned, lost, af, ff>>
    BY DEF RenewReservation, disk
  <1>2. pc'[i] \in {"scan", "check"} /\ \A j \in Inodes \ {i} : pc'[j] = pc[j]
    BY FindNextHeld DEF RenewReservation
  <1>3. QED
    BY <1>1, <1>2, LetGo DEF Bystander, Busy

-----------------------------------------------------------------------------
(* The steps that claim, return and free blocks.                           *)

LEMMA ClaimFirstHeld ==
    ASSUME TypeOK, HeldInv, NEW i \in Inodes, ClaimFirst(i)
    PROVE  HeldInv' /\ HeldMoves
  <1>1. /\ UNCHANGED <<owned, lost, ff>> /\ pc[i] = "claim"
        /\ \A j \in Inodes \ {i} : pc'[j] = pc[j] /\ af'[j] = af[j]
    BY DEF ClaimFirst, TryFailed, Goto, At, TypeOK
  <1>2. \A j \in Inodes \ {i} : Bystander(j)
    BY <1>1 DEF Bystander
  <1>3. CASE af[i].start \in bitmap
    <2>1. bitmap' = bitmap /\ pc'[i] \notin Busy
      BY <1>1, <1>3 DEF ClaimFirst, TryFailed, Goto, TypeOK, Busy
    <2>2. QED
      BY <1>1, <1>2, <2>1, LetGo
  <1>4. CASE af[i].start \notin bitmap
    <2>1. /\ bitmap' = bitmap \cup {af[i].start}
          /\ pc'[i] = "more" /\ af'[i].start = af[i].start /\ af'[i].got = 1
      BY <1>1, <1>4 DEF ClaimFirst, Goto, TypeOK, AllocFrame
    <2>2. af[i].start \in Int
      BY DEF TypeOK, AllocFrame
    <2>3. InHand(i)' = {af[i].start} /\ InHand(i) = {}
      <3>1. Claimed(i)' = {af[i].start}
        BY <2>1, <2>2 DEF Claimed, Run
      <3>2. ToClear(i)' = {}
        BY <2>1 DEF ToClear
      <3>3. QED
        BY <1>1, <3>1, <3>2, NothingInHand DEF InHand, Busy
    <2>4. Held(i) \subseteq bitmap
      BY DEF HeldInv, NoBlockHeldTwice
    <2>5. Held(i)' = Held(i) \cup {af[i].start}
      BY <1>1, <2>3, HeldParts
    <2>6. HandsInv(i)'
      BY <1>1, <1>4, <2>1, <2>3, <2>4, HeldParts DEF HandsInv, HeldInv
    <2>7. QED
      BY <1>2, <1>4, <2>1, <2>4, <2>5, <2>6, HeldStep
  <1>5. QED
    BY <1>3, <1>4

LEMMA ClaimMoreHeld ==
    ASSUME TypeOK, HeldInv, NEW i \in Inodes, ClaimMore(i)
    PROVE  HeldInv' /\ HeldMoves
  <1> DEFINE b == af[i].start + af[i].got
  <1>1. /\ UNCHANGED <<owned, lost, ff>> /\ pc[i] = "more"
        /\ \A j \in Inodes \ {i} : pc'[j] = pc[j] /\ af'[j] = af[j]
    BY DEF ClaimMore, Goto, At, TypeOK
  <1>2. \A j \in Inodes \ {i} : Bystander(j)
    BY <1>1 DEF Bystander
  <1>3. af[i] \in AllocFrame /\ af[i].start \in Int /\ af[i].got \in Nat
    BY DEF TypeOK, AllocFrame
  <1>4. InHand(i) = af[i].start .. b - 1
    <2>1. Claimed(i) = af[i].start .. b - 1
      BY <1>1, <1>3 DEF Claimed, Run
    <2>2. ToClear(i) = {}
      BY <1>1 DEF ToClear
    <2>3. QED
      BY <2>1, <2>2 DEF InHand
  <1>5. CASE bitmap' = bitmap \cup {b} /\ b \notin bitmap /\ pc' = pc
             /\ af' = [af EXCEPT ![i].got = @ + 1]
    <2>1. pc'[i] = "more" /\ af'[i].start = af[i].start /\ af'[i].got = af[i].got + 1
      BY <1>1, <1>3, <1>5 DEF TypeOK, AllocFrame
    <2>2. InHand(i)' = af[i].start .. b
      <3>1. Claimed(i)' = af[i].start .. b
        BY <1>3, <2>1 DEF Claimed, Run
      <3>2. ToClear(i)' = {}
        BY <2>1 DEF ToClear
      <3>3. QED
        BY <3>1, <3>2 DEF InHand
    <2>3. InHand(i)' = InHand(i) \cup {b}
      BY <1>3, <1>4, <2>2
    <2>4. Held(i) \subseteq bitmap
      BY DEF HeldInv, NoBlockHeldTwice
    <2> HIDE DEF b
    <2>5. Held(i)' = Held(i) \cup {b}
      BY <1>1, <2>3, HeldParts
    <2>6. HandsInv(i)'
      BY <1>1, <1>5, <2>1, <2>3, <2>4, HeldParts DEF HandsInv, HeldInv
    <2>7. QED
      BY <1>2, <1>5, <2>4, <2>5, <2>6, HeldStep
  <1>6. CASE bitmap' = bitmap /\ Goto(i, "allocated")
             /\ af' = [af EXCEPT ![i] = [af[i] EXCEPT !.num = af[i].got, !.end = 0]]
    <2>1. pc'[i] = "allocated" /\ af'[i] = [af[i] EXCEPT !.num = af[i].got, !.end = 0]
      BY <1>6 DEF TypeOK, Goto
    <2>2. af'[i].start = af[i].start /\ af'[i].got = af[i].got
      BY <1>3, <2>1 DEF AllocFrame
    <2>3. InHand(i)' = InHand(i)
      BY <1>1, <2>1, <2>2 DEF InHand, Claimed, ToClear
    <2>4. Held(i)' = Held(i) /\ HandsInv(i)'
      <3>1. HandsInv(i)
        BY DEF HeldInv
      <3>2. Held(i)' = Held(i)
        BY <1>1, <2>3, HeldParts
      <3>3. HandsInv(i)'
        BY <1>1, <2>1, <2>3, <3>1 DEF HandsInv
      <3>4. QED
        BY <3>2, <3>3
    <2>5. QED
      BY <1>2, <1>6, <2>4, Reshuffle
  <1>7. QED
    BY <1>5, <1>6 DEF ClaimMore

LEMMA AllocatedHeld ==
    ASSUME TypeOK, HeldInv, NEW i \in Inodes, Allocated(i)
    PROVE  HeldInv' /\ HeldMoves
  <1>1. /\ UNCHANGED <<bitmap, owned, ff>> /\ pc[i] = "allocated"
        /\ \A j \in Inodes \ {i} : pc'[j] = pc[j] /\ af'[j] = af[j] /\ lost'[j] = lost[j]
    BY DEF Allocated, Goto, At, TypeOK
  <1>2. \A j \in Inodes \ {i} : Bystander(j)
    BY <1>1 DEF Bystander
  <1>3. InHand(i) = Run(af[i].start, af[i].got)
    BY <1>1 DEF InHand, Claimed, ToClear
  <1>4. \/ pc'[i] = "retry" /\ lost'[i] = lost[i]
        \/ pc'[i] = "idle" /\ lost'[i] = lost[i] \cup InHand(i)
        \/ pc'[i] = "percpu" /\ lost'[i] = lost[i] /\ af' = af
    <2>1. \/ Goto(i, "retry") /\ lost' = lost
          \/ /\ Goto(i, "idle")
             /\ lost' = [lost EXCEPT ![i] = @ \cup Run(af[i].start, af[i].got)]
          \/ Goto(i, "percpu") /\ lost' = lost /\ af' = af
      BY DEF Allocated
    <2>2. QED
      BY <1>3, <2>1 DEF Goto, TypeOK
  <1>5. CASE pc'[i] = "retry" /\ lost'[i] = lost[i]
    BY <1>1, <1>2, <1>5, LetGo DEF Busy
  <1>6. CASE pc'[i] = "idle" /\ lost'[i] = lost[i] \cup InHand(i)
    <2>1. InHand(i)' = {}
      BY <1>6, NothingInHand DEF Busy
    <2>2. Held(i)' = Held(i) /\ HandsInv(i)'
      BY <1>1, <1>6, <2>1, HeldParts DEF HandsInv, HeldInv
    <2>3. QED
      BY <1>1, <1>2, <2>2, Reshuffle
  <1>7. CASE pc'[i] = "percpu" /\ lost'[i] = lost[i] /\ af' = af
    <2>1. InHand(i)' = InHand(i)
      BY <1>1, <1>7 DEF InHand, Claimed, ToClear
    <2>2. Held(i)' = Held(i) /\ HandsInv(i)'
      BY <1>1, <1>7, <2>1, HeldParts DEF HandsInv, HeldInv
    <2>3. QED
      BY <1>1, <1>2, <2>2, Reshuffle
  <1>8. QED
    BY <1>4, <1>5, <1>6, <1>7

LEMMA ReturnHeld ==
    ASSUME TypeOK, HeldInv, NEW i \in Inodes, Return(i)
    PROVE  HeldInv' /\ HeldMoves
  <1>1. /\ UNCHANGED <<bitmap, lost, ff>> /\ pc[i] = "percpu" /\ pc'[i] = "idle"
        /\ owned'[i] = owned[i] \cup Run(af[i].start, af[i].got)
        /\ \A j \in Inodes \ {i} : pc'[j] = pc[j] /\ af'[j] = af[j] /\ owned'[j] = owned[j]
    BY DEF Return, Goto, At, TypeOK
  <1>2. \A j \in Inodes \ {i} : Bystander(j)
    BY <1>1 DEF Bystander
  <1>3. InHand(i) = Run(af[i].start, af[i].got) /\ InHand(i)' = {}
    BY <1>1, NothingInHand DEF InHand, Claimed, ToClear, Busy
  <1>4. Held(i)' = Held(i) /\ HandsInv(i)'
    <2>1. HandsInv(i)
      BY DEF HeldInv
    <2>2. owned'[i] = owned[i] \cup InHand(i)
      BY <1>1, <1>3
    <2>3. Held(i)' = Held(i)
      BY <1>1, <1>3, <2>2, HeldParts
    <2>4. HandsInv(i)'
      BY <1>1, <1>3, <2>1, <2>2 DEF HandsInv
    <2>5. QED
      BY <2>3, <2>4
  <1>5. QED
    BY <1>1, <1>2, <1>4, Reshuffle

LEMMA FreeBlocksHeld ==
    ASSUME TypeOK, HeldInv, NEW i \in Inodes, FreeBlocks(i)
    PROVE  HeldInv' /\ HeldMoves
  <1>1. PICK b \in owned[i], n \in 1 .. Cardinality(owned[i]) :
           /\ Run(b, n) \subseteq owned[i]
           /\ owned' = [owned EXCEPT ![i] = @ \ Run(b, n)]
           /\ \/ lost' = [lost EXCEPT ![i] = @ \cup Run(b, n)] /\ UNCHANGED <<pc, ff>>
              \/ /\ ff' = [ff EXCEPT ![i] = [NoFree EXCEPT !.block = b, !.count = n]]
                 /\ Goto(i, "free")
                 /\ lost' = lost
    BY DEF FreeBlocks
  <1>2. UNCHANGED <<bitmap, af>> /\ pc[i] = "idle"
    BY DEF FreeBlocks, Enter, At
  <1>3. \A j \in Inodes \ {i} : Bystander(j)
    BY <1>1, <1>2 DEF Bystander, Goto, TypeOK
  <1>4. InHand(i) = {} /\ owned'[i] = owned[i] \ Run(b, n)
    BY <1>1, <1>2, NothingInHand DEF Busy, TypeOK
  <1>5. CASE lost' = [lost EXCEPT ![i] = @ \cup Run(b, n)] /\ UNCHANGED <<pc, ff>>
    <2>1. InHand(i)' = {} /\ lost'[i] = lost[i] \cup Run(b, n) /\ pc'[i] = "idle"
      BY <1>2, <1>5, NothingInHand DEF Busy, TypeOK
    <2>2. Held(i)' \subseteq Held(i) /\ HandsInv(i)'
      BY <1>1, <1>4, <2>1, HeldParts DEF HandsInv, HeldInv
    <2>3. QED
      BY <1>2, <1>3, <2>2, Reshuffle
  <1>6. CASE /\ ff' = [ff EXCEPT ![i] = [NoFree EXCEPT !.block = b, !.count = n]]
             /\ Goto(i, "free")
             /\ lost' = lost
    <2>1. pc'[i] = "free" /\ ff'[i] = [NoFree EXCEPT !.block = b, !.count = n]
      BY <1>6 DEF Goto, TypeOK
    <2>2. ff'[i].block = b /\ ff'[i].count = n
      BY <2>1 DEF NoFree
    <2>3. InHand(i)' = Run(b, n)
      BY <2>1, <2>2 DEF InHand, Claimed, ToClear
    <2>4. Held(i)' \subseteq Held(i) /\ HandsInv(i)'
      BY <1>1, <1>4, <1>6, <2>1, <2>3, HeldParts DEF HandsInv, HeldInv
    <2>5. QED
      BY <1>2, <1>3, <2>4, Reshuffle
  <1>7. QED
    BY <1>1, <1>5, <1>6

LEMMA FreeGroupHeld ==
    ASSUME TypeOK, HeldInv, NEW i \in Inodes, FreeGroup(i)
    PROVE  HeldInv' /\ HeldMoves
  <1> DEFINE past == ff[i].block + ff[i].count - (GroupLast(GroupOf(ff[i].block)) + 1)
             over == IF past > 0 THEN past ELSE 0
  <1>1. UNCHANGED <<bitmap, owned, af>> /\ pc[i] = "free"
    BY DEF FreeGroup, At
  <1>2. \/ /\ lost' = [lost EXCEPT ![i] = @ \cup Run(ff[i].block, ff[i].count)]
           /\ Goto(i, "freed") /\ ff' = ff
        \/ /\ ff' = [ff EXCEPT ![i] = [ff[i] EXCEPT !.count = ff[i].count - over,
                                                    !.overflow = over, !.cleared = 0,
                                                    !.group_freed = 0]]
           /\ Goto(i, "clear") /\ lost' = lost
    BY DEF FreeGroup
  <1>3. /\ ff[i] \in FreeFrame /\ ff[i].block \in Int /\ ff[i].count \in Int
        /\ over \in Int /\ over >= 0
    <2>1. ff[i] \in FreeFrame /\ ff[i].block \in Int /\ ff[i].count \in Int
      BY DEF TypeOK, FreeFrame
    <2>2. GroupLast(GroupOf(ff[i].block)) \in Int
      BY <2>1, ConstantsAssumption DEF GroupLast, GroupFirst, GroupOf
    <2>3. QED
      BY <2>1, <2>2
  <1> HIDE DEF over
  <1>4. \A j \in Inodes \ {i} : Bystander(j)
    BY <1>1, <1>2 DEF Bystander, Goto, TypeOK
  <1>5. InHand(i) = Run(ff[i].block, ff[i].count)
    BY <1>1 DEF InHand, Claimed, ToClear
  <1>6. CASE /\ lost' = [lost EXCEPT ![i] = @ \cup Run(ff[i].block, ff[i].count)]
             /\ Goto(i, "freed") /\ ff' = ff
    <2>1. /\ pc'[i] = "freed" /\ InHand(i)' = {}
          /\ lost'[i] = lost[i] \cup InHand(i)
      BY <1>5, <1>6, NothingInHand DEF Busy, Goto, TypeOK
    <2>2. Held(i)' = Held(i) /\ HandsInv(i)'
      BY <1>1, <2>1, HeldParts DEF HandsInv, HeldInv
    <2>3. QED
      BY <1>1, <1>4, <2>2, Reshuffle
  <1>7. CASE /\ ff' = [ff EXCEPT ![i] = [ff[i] EXCEPT !.count = ff[i].count - over,
                                                      !.overflow = over, !.cleared = 0,
                                                      !.group_freed = 0]]
             /\ Goto(i, "clear") /\ lost' = lost
    <2>1. /\ pc'[i] = "clear"
          /\ ff'[i] = [ff[i] EXCEPT !.count = ff[i].count - over, !.overflow = over,
                                    !.cleared = 0, !.group_freed = 0]
      BY <1>7 DEF Goto, TypeOK
    <2>2. /\ ff'[i].block = ff[i].block /\ ff'[i].count = ff[i].count - over
          /\ ff'[i].overflow = over /\ ff'[i].cleared = 0
      BY <1>3, <2>1 DEF FreeFrame
    <2>3. InHand(i)' = InHand(i)
      <3>1. ToClear(i)' = (ff[i].block + 0) ..
                          (ff[i].block + (ff[i].count - over) + over - 1)
        BY <2>1, <2>2 DEF ToClear
      <3>2. ToClear(i)' = Run(ff[i].block, ff[i].count)
        BY <1>3, <3>1 DEF Run
      <3>3. Claimed(i)' = {}
        BY <2>1 DEF Claimed
      <3>4. QED
        BY <1>5, <3>2, <3>3 DEF InHand
    <2>4. Held(i)' = Held(i) /\ HandsInv(i)'
      <3>1. HandsInv(i)
        BY DEF HeldInv
      <3>2. Held(i)' = Held(i)
        BY <1>1, <1>7, <2>3, HeldParts
      <3>3. HandsInv(i)'
        BY <1>1, <1>3, <1>7, <2>1, <2>2, <2>3, <3>1 DEF HandsInv
      <3>4. QED
        BY <3>2, <3>3
    <2>5. QED
      BY <1>1, <1>4, <2>4, Reshuffle
  <1>8. QED
    BY <1>2, <1>6, <1>7

LEMMA ClearBitHeld ==
    ASSUME TypeOK, HeldInv, NEW i \in Inodes, ClearBit(i)
    PROVE  HeldInv' /\ HeldMoves
  <1> DEFINE b == ff[i].block + ff[i].cleared
             last == ff[i].block + ff[i].count + ff[i].overflow - 1
  <1>1. /\ UNCHANGED <<owned, lost, af, pc>> /\ pc[i] = "clear"
        /\ bitmap' = bitmap \ {b} /\ ff[i].cleared < ff[i].count
        /\ \A j \in Inodes \ {i} : ff'[j] = ff[j]
    BY DEF ClearBit, At, TypeOK
  <1>2. \A j \in Inodes \ {i} : Bystander(j)
    BY <1>1 DEF Bystander
  <1>3. /\ ff[i] \in FreeFrame /\ ff[i].overflow >= 0
        /\ ff[i].block \in Int /\ ff[i].count \in Int /\ ff[i].overflow \in Int
        /\ ff[i].cleared \in Nat
    BY <1>1 DEF TypeOK, FreeFrame, HeldInv, HandsInv
  <1>4. /\ ff'[i].block = ff[i].block /\ ff'[i].count = ff[i].count
        /\ ff'[i].overflow = ff[i].overflow /\ ff'[i].cleared = ff[i].cleared + 1
    <2>1. PICK n : ff' = [ff EXCEPT ![i] = [ff[i] EXCEPT !.cleared = ff[i].cleared + 1,
                                                         !.group_freed = n]]
      BY DEF ClearBit
    <2>2. ff'[i] = [ff[i] EXCEPT !.cleared = ff[i].cleared + 1, !.group_freed = n]
      BY <2>1 DEF TypeOK
    <2>3. QED
      BY <1>3, <2>2 DEF FreeFrame
  <1>5. InHand(i) = b .. last /\ InHand(i)' = b + 1 .. last
    <2>1. ToClear(i) = b .. last
      BY <1>1 DEF ToClear
    <2>2. ToClear(i)' = b + 1 .. last
      <3>1. ToClear(i)' = (ff[i].block + (ff[i].cleared + 1)) .. last
        BY <1>1, <1>4 DEF ToClear
      <3>2. QED
        BY <1>3, <3>1
    <2>3. Claimed(i) = {} /\ Claimed(i)' = {}
      BY <1>1 DEF Claimed
    <2>4. QED
      BY <2>1, <2>2, <2>3 DEF InHand
  <1>6. InHand(i)' = InHand(i) \ {b} /\ b \in InHand(i)
    BY <1>1, <1>3, <1>5
  <1> HIDE DEF b, last
  <1>7. HandsInv(i) /\ Held(i) \subseteq bitmap
    BY DEF HeldInv, NoBlockHeldTwice
  <1>8. Held(i)' = Held(i) \ {b} /\ b \in Held(i)
    BY <1>1, <1>6, <1>7, HeldParts DEF HandsInv
  <1>9. HandsInv(i)'
    BY <1>1, <1>3, <1>4, <1>6, <1>7 DEF HandsInv
  <1>10. QED
    BY <1>1, <1>2, <1>7, <1>8, <1>9, HeldStep

LEMMA FreeAdjustHeld ==
    ASSUME TypeOK, HeldInv, NEW i \in Inodes, FreeAdjust(i)
    PROVE  HeldInv' /\ HeldMoves
  <1>1. /\ UNCHANGED <<bitmap, owned, lost, af>> /\ pc[i] = "clear"
        /\ ff[i].cleared = ff[i].count
        /\ pc'[i] \in {"free", "freed"}
        /\ \A j \in Inodes \ {i} : ff'[j] = ff[j] /\ pc'[j] = pc[j]
    BY DEF FreeAdjust, At, Goto, TypeOK
  <1>2. \A j \in Inodes \ {i} : Bystander(j)
    BY <1>1 DEF Bystander
  <1>3. /\ ff[i].block \in Int /\ ff[i].count \in Int /\ ff[i].overflow \in Int
    BY DEF TypeOK, FreeFrame
  <1>4. ff'[i].block = ff[i].block + ff[i].count /\ ff'[i].count = ff[i].overflow
    BY DEF FreeAdjust, TypeOK, NoFree
  <1>5. InHand(i)' \subseteq InHand(i)
    <2>1. CASE pc'[i] = "freed"
      BY <2>1, NothingInHand DEF Busy
    <2>2. CASE pc'[i] = "free"
      <3>1. ToClear(i)' = Run(ff[i].block + ff[i].count, ff[i].overflow)
        BY <1>4, <2>2 DEF ToClear
      <3>2. Claimed(i)' = {}
        BY <2>2 DEF Claimed
      <3>3. ToClear(i) = (ff[i].block + ff[i].count) ..
                         (ff[i].block + ff[i].count + ff[i].overflow - 1)
        BY <1>1 DEF ToClear
      <3>4. QED
        BY <3>1, <3>2, <3>3 DEF InHand, Run
    <2>3. QED
      BY <1>1, <2>1, <2>2
  <1>6. Held(i)' \subseteq Held(i) /\ HandsInv(i)'
    BY <1>1, <1>5, HeldParts DEF HandsInv, HeldInv
  <1>7. QED
    BY <1>1, <1>2, <1>6, Reshuffle

-----------------------------------------------------------------------------
(* The theorem.                                                            *)

LEMMA InitHeld == SaneMount /\ Init => HeldInv
  <1> SUFFICES ASSUME SaneMount, Init PROVE HeldInv
    OBVIOUS
  <1>1. \A i \in Inodes : /\ owned[i] = InitOwned[i] /\ lost[i] = {} /\ pc[i] = "idle"
    BY DEF Init
  <1>2. \A i \in Inodes : InHand(i) = {}
    BY <1>1, NothingInHand DEF Busy
  <1>3. \A i \in Inodes : Held(i) = InitOwned[i] /\ HandsInv(i)
    BY <1>1, <1>2, HeldParts DEF HandsInv
  <1>4. QED
    BY <1>3 DEF HeldInv, NoBlockHeldTwice, SaneMount, Init

LEMMA NextHeld == TypeOK /\ HeldInv /\ [Next]_vars => HeldInv' /\ HeldMoves
  <1> SUFFICES ASSUME TypeOK, HeldInv, [Next]_vars PROVE HeldInv' /\ HeldMoves
    OBVIOUS
  <1>1. ASSUME NEW i \in Inodes, Call(i) \/ AllocStep(i) \/ FreeStep(i)
        PROVE  HeldInv' /\ HeldMoves
    BY <1>1, NextCases, NewBlocksHeld, FreeBlocksHeld, DiscardReservationHeld,
       SetReservationSizeHeld, RetryAllocHeld, ScanGroupHeld, ScanDoneHeld,
       BitmapReadFailsHeld, BitmapInvalidHeld, AllocNewReservationHeld, RenewReservationHeld,
       CheckReservationHeld, UseReservationHeld, TryToAllocateHeld, ClaimFirstHeld,
       ClaimMoreHeld, AllocatedHeld, ReturnHeld, OutHeld, FreeGroupHeld, ClearBitHeld,
       FreeAdjustHeld, FreeReturnHeld
  <1>2. CASE UNCHANGED vars
    <2>1. \A i \in Inodes : Bystander(i)
      BY <1>2 DEF vars, disk, Bystander
    <2>2. \A i \in Inodes : Held(i)' = Held(i) /\ HandsInv(i)'
      BY <2>1, BystanderKept DEF HeldInv
    <2>3. bitmap' = bitmap
      BY <1>2 DEF vars, disk
    <2>4. QED
      BY <2>2, <2>3 DEF HeldInv, NoBlockHeldTwice, HeldMoves
  <1>3. QED
    BY <1>1, <1>2 DEF Next

\* On a filesystem that was sane when it was mounted, no block is ever in the
\* hands of two inodes (their block maps, allocations or frees in progress),
\* and every block in somebody's hands is marked in its bitmap, whatever bits
\* kr_try_to_allocate loses and whatever reads fail.
THEOREM BlocksHaveOneHolder == SaneMount => (Spec => []NoBlockHeldTwice)
  <1> SUFFICES ASSUME SaneMount PROVE Spec => []NoBlockHeldTwice
    OBVIOUS
  <1>1. Init => HeldInv
    BY InitHeld
  <1>2. HeldInv => NoBlockHeldTwice
    BY DEF HeldInv
  <1>3. QED
    BY <1>1, <1>2, NextHeld, TypeCorrect, PTL DEF Spec

-----------------------------------------------------------------------------
(***************************************************************************)
(* The free counts and the quota.                                          *)
(***************************************************************************)

\* A 16-bit count follows whatever is added to the number it counts.
LEMMA CountFollows ==
    ASSUME NEW n \in Int, NEW d \in Int
    PROVE  U16(U16(n) + d) = U16(n + d) /\ U16(n) \in Int
  BY DEF U16

\* A group's bits are bits of the filesystem, and of no other group.
LEMMA GroupsApart ==
    ASSUME NEW g \in Groups, NEW b \in GroupBits(g)
    PROVE  b \in Bits /\ \A h \in Groups : b \in GroupBits(h) => h = g
  <1>1. b \in Int /\ GroupFirst(g) <= b /\ b <= GroupLast(g)
    BY GroupBounds DEF GroupBits
  <1>2. ASSUME NEW k \in Groups, NEW h \in Groups, k < h
        PROVE  GroupLast(k) < GroupFirst(h)
    <2>1. k \in Nat /\ h \in Nat /\ k + 1 <= h
      BY <1>2 DEF Groups
    <2>2. (k + 1) * BlocksPerGroup <= h * BlocksPerGroup
      BY <2>1, ConstantsAssumption
    <2>3. (k + 1) * BlocksPerGroup = k * BlocksPerGroup + BlocksPerGroup
      BY <2>1, ConstantsAssumption
    <2>4. k * BlocksPerGroup \in Nat /\ h * BlocksPerGroup \in Nat
      BY <2>1, ConstantsAssumption
    <2>5. QED
      BY <2>2, <2>3, <2>4, ConstantsAssumption DEF GroupLast, GroupFirst
  <1>3. ASSUME NEW h \in Groups, b \in GroupBits(h)
        PROVE  h = g
    <2>1. GroupFirst(h) <= b /\ b <= GroupLast(h)
      BY <1>3, GroupBounds DEF GroupBits
    <2>2. ~(g < h) /\ ~(h < g)
      BY <1>1, <1>2, <2>1, GroupBounds
    <2>3. QED
      BY <2>2 DEF Groups
  <1>4. b \in Bits
    BY <1>1, GroupBounds, ConstantsAssumption DEF Bits, Groups
  <1>5. QED
    BY <1>3, <1>4

\* The group of a block of the filesystem holds that block.
LEMMA BlockInGroup ==
    ASSUME NEW b \in FirstDataBlock .. BlocksCount - 1
    PROVE  /\ GroupOf(b) \in Groups
           /\ GroupFirst(GroupOf(b)) <= b /\ b <= GroupLast(GroupOf(b))
  <1> DEFINE d == b - FirstDataBlock
             q == d \div BlocksPerGroup
  <1>1. d \in Nat /\ BlocksPerGroup \in Nat \ {0} /\ FirstDataBlock \in Nat /\ b \in Int
    BY ConstantsAssumption
  <1>2. q \in Nat
    BY <1>1
  <1>3. d = BlocksPerGroup * q + (d % BlocksPerGroup)
        /\ 0 <= d % BlocksPerGroup /\ d % BlocksPerGroup < BlocksPerGroup
    BY <1>1
  <1>4. d % BlocksPerGroup \in Int
    BY <1>1
  <1>5. BlocksPerGroup * q = q * BlocksPerGroup /\ q * BlocksPerGroup \in Nat
    BY <1>1, <1>2
  <1>6. GroupOf(b) = q
    BY DEF GroupOf
  <1>7. d = b - FirstDataBlock
    OBVIOUS
  <1> DEFINE m == q * BlocksPerGroup
             r == d % BlocksPerGroup
  <1>8. GroupFirst(q) = FirstDataBlock + m /\ GroupLast(q) = FirstDataBlock + m + BlocksPerGroup - 1
    BY DEF GroupFirst, GroupLast
  <1>9. d = m + r /\ 0 <= r /\ r < BlocksPerGroup /\ m \in Nat /\ r \in Int
    BY <1>3, <1>4, <1>5
  <1> HIDE DEF m, r, d, q
  <1>10. QED
    BY <1>1, <1>6, <1>7, <1>8, <1>9, GroupsAssumption

\* The pairs that Total counts.
Pairs(f) == UNION {{i} \X (1 .. f[i]) : i \in Inodes}

LEMMA PairsFinite ==
    ASSUME IsFiniteSet(Inodes), NEW f \in [Inodes -> Nat]
    PROVE  IsFiniteSet(Pairs(f))
  <1> DEFINE S == {{i} \X (1 .. f[i]) : i \in Inodes}
             F == [i \in Inodes |-> {i} \X (1 .. f[i])]
  <1>1. F \in Surjection(Inodes, S)
    BY DEF Surjection
  <1>2. \A s \in S : IsFiniteSet(s)
    <2>1. ASSUME NEW i \in Inodes PROVE IsFiniteSet({i} \X (1 .. f[i]))
      <3>1. IsFiniteSet({i})
        BY FS_Singleton
      <3>2. IsFiniteSet(1 .. f[i])
        BY FS_Interval
      <3>3. QED
        BY <3>1, <3>2, FS_Product
    <2>2. QED
      BY <2>1
  <1> HIDE DEF F, S
  <1>3. IsFiniteSet(S)
    BY <1>1, FS_Surjection
  <1>4. IsFiniteSet(UNION S)
    BY <1>2, <1>3, FS_UNION
  <1>5. QED
    BY <1>4 DEF Pairs, S

\* A sum changes by what the one number that changes changes by.
LEMMA TotalMoves ==
    ASSUME IsFiniteSet(Inodes), NEW f \in [Inodes -> Nat], NEW h \in [Inodes -> Nat],
           NEW i \in Inodes, \A j \in Inodes \ {i} : h[j] = f[j]
    PROVE  Total(f) \in Nat /\ Total(h) \in Nat /\ Total(h) = Total(f) + h[i] - f[i]
  <1> DEFINE R == UNION {{j} \X (1 .. f[j]) : j \in Inodes \ {i}}
             A == {i} \X (1 .. f[i])
             C == {i} \X (1 .. h[i])
  <1>1. IsFiniteSet(Pairs(f)) /\ IsFiniteSet(Pairs(h))
    BY PairsFinite
  <1>2. Pairs(f) = R \cup A
    BY DEF Pairs
  <1>3. Pairs(h) = R \cup C
    <2>1. R = UNION {{j} \X (1 .. h[j]) : j \in Inodes \ {i}}
      OBVIOUS
    <2>2. QED
      BY <2>1 DEF Pairs
  <1>4. R \cap A = {} /\ R \cap C = {}
    OBVIOUS
  <1>5. /\ IsFiniteSet(A) /\ Cardinality(A) = f[i]
        /\ IsFiniteSet(C) /\ Cardinality(C) = h[i]
    <2>1. IsFiniteSet({i}) /\ Cardinality({i}) = 1
      BY FS_Singleton
    <2>2. f[i] \in Nat /\ h[i] \in Nat
      OBVIOUS
    <2>3. ASSUME NEW n \in Nat
          PROVE  IsFiniteSet({i} \X (1 .. n)) /\ Cardinality({i} \X (1 .. n)) = n
      <3>0. 1 \in Int /\ n \in Int
        OBVIOUS
      <3>1. IsFiniteSet(1 .. n) /\ Cardinality(1 .. n) = IF 1 > n THEN 0 ELSE n - 1 + 1
        BY <3>0, FS_Interval, Zenon
      <3>2. Cardinality(1 .. n) = n
        BY <3>1
      <3>3. /\ IsFiniteSet({i} \X (1 .. n))
            /\ Cardinality({i} \X (1 .. n)) = Cardinality({i}) * Cardinality(1 .. n)
        BY <2>1, <3>1, FS_Product
      <3>4. QED
        BY <2>1, <3>2, <3>3
    <2>4. QED
      BY <2>2, <2>3
  <1> HIDE DEF R, A, C
  <1>6. IsFiniteSet(R)
    BY <1>1, <1>2, FS_Subset
  <1>7. Cardinality(R) \in Nat
    BY <1>6, FS_CardinalityType
  <1>8. /\ Cardinality(Pairs(f)) = Cardinality(R) + f[i]
        /\ Cardinality(Pairs(h)) = Cardinality(R) + h[i]
    <2>1. Cardinality(R \cup A) = Cardinality(R) + Cardinality(A) - Cardinality(R \cap A)
      BY <1>5, <1>6, FS_Union
    <2>2. Cardinality(R \cup C) = Cardinality(R) + Cardinality(C) - Cardinality(R \cap C)
      BY <1>5, <1>6, FS_Union
    <2>3. Cardinality(R \cap A) = 0 /\ Cardinality(R \cap C) = 0
      BY <1>4, FS_EmptySet
    <2>4. QED
      BY <1>2, <1>3, <1>5, <1>7, <2>1, <2>2, <2>3
  <1>9. Total(f) = Cardinality(Pairs(f)) /\ Total(h) = Cardinality(Pairs(h))
    BY DEF Total, Pairs
  <1>10. QED
    BY <1>7, <1>8, <1>9

\* The clear bits of a group, and of the filesystem.
FreeBits(g) == Cardinality(GroupBits(g) \ bitmap)

AllFreeBits == Cardinality(Bits \ bitmap)

\* What the call on inode i has changed in the bits and not in the counts.
GroupWeight(i, g) == ClaimedUncounted(i, g) - ClearedUncounted(i, g)

AllWeight(i) == Unreturned(i) - Unfreed(i)

WeightsAreNumbers(g) ==
    /\ [i \in Inodes |-> ClaimedUncounted(i, g)] \in [Inodes -> Nat]
    /\ [i \in Inodes |-> ClearedUncounted(i, g)] \in [Inodes -> Nat]
    /\ [i \in Inodes |-> Unreturned(i)] \in [Inodes -> Nat]
    /\ [i \in Inodes |-> Unfreed(i)] \in [Inodes -> Nat]
    /\ FreeBits(g) \in Nat /\ AllFreeBits \in Nat

\* They are natural numbers.
LEMMA WeightTypes == TypeOK => \A g \in Groups : WeightsAreNumbers(g)
  <1> SUFFICES ASSUME TypeOK, NEW g \in Groups PROVE WeightsAreNumbers(g)
    OBVIOUS
  <1>1. \A i \in Inodes : af[i].got \in Nat /\ ff[i].freed \in Nat /\ ff[i].group_freed \in Nat
    BY DEF TypeOK, AllocFrame, FreeFrame
  <1>2. IsFiniteSet(GroupBits(g))
    BY GroupBounds, FS_Interval DEF GroupBits
  <1>3. IsFiniteSet(Bits)
    <2>1. GroupsCount - 1 \in Groups
      BY ConstantsAssumption DEF Groups
    <2>2. QED
      BY <2>1, ConstantsAssumption, GroupBounds, FS_Interval DEF Bits
  <1>4. IsFiniteSet(GroupBits(g) \ bitmap) /\ IsFiniteSet(Bits \ bitmap)
    BY <1>2, <1>3, FS_Difference
  <1>5. FreeBits(g) \in Nat /\ AllFreeBits \in Nat
    BY <1>4, FS_CardinalityType DEF FreeBits, AllFreeBits
  <1>6. QED
    BY <1>1, <1>5 DEF WeightsAreNumbers, ClaimedUncounted, ClearedUncounted, Unreturned, Unfreed

LEMMA WeightTypesNext == TypeOK' => (\A g \in Groups : WeightsAreNumbers(g))'
  BY WeightTypes, PTL

\* A step of inode i moves the expected counts by the bits it flips and by what it
\* has on its way.
ExpectedMove(i, g) ==
    /\ ExpectedFree(g) \in Int /\ FreeBits(g) \in Int /\ FreeBits(g)' \in Int
    /\ GroupWeight(i, g) \in Int /\ GroupWeight(i, g)' \in Int
    /\ ExpectedFree(g)' = ExpectedFree(g) + (FreeBits(g)' - FreeBits(g))
                              + (GroupWeight(i, g)' - GroupWeight(i, g))

AllExpectedMove(i) ==
    /\ ExpectedFreeBlocks \in Int /\ AllFreeBits \in Int /\ AllFreeBits' \in Int
    /\ AllWeight(i) \in Int /\ AllWeight(i)' \in Int
    /\ ExpectedFreeBlocks' = ExpectedFreeBlocks + (AllFreeBits' - AllFreeBits)
                                 + (AllWeight(i)' - AllWeight(i))

LEMMA ExpectedMoves ==
    ASSUME IsFiniteSet(Inodes), TypeOK, TypeOK', NEW i \in Inodes, NEW g \in Groups,
           \A j \in Inodes \ {i} : Bystander(j)
    PROVE  ExpectedMove(i, g) /\ AllExpectedMove(i)
  <1> DEFINE cl(j) == ClaimedUncounted(j, g)
             cr(j) == ClearedUncounted(j, g)
             CL == [j \in Inodes |-> cl(j)]
             CR == [j \in Inodes |-> cr(j)]
             UR == [j \in Inodes |-> Unreturned(j)]
             UF == [j \in Inodes |-> Unfreed(j)]
  <1>1. /\ CL \in [Inodes -> Nat] /\ CR \in [Inodes -> Nat]
        /\ UR \in [Inodes -> Nat] /\ UF \in [Inodes -> Nat]
        /\ FreeBits(g) \in Nat /\ AllFreeBits \in Nat
    BY WeightTypes DEF WeightsAreNumbers
  <1>2. /\ CL' \in [Inodes -> Nat] /\ CR' \in [Inodes -> Nat]
        /\ UR' \in [Inodes -> Nat] /\ UF' \in [Inodes -> Nat]
        /\ FreeBits(g)' \in Nat /\ AllFreeBits' \in Nat
    BY WeightTypesNext DEF WeightsAreNumbers
  <1>3. \A j \in Inodes \ {i} : /\ CL'[j] = CL[j] /\ CR'[j] = CR[j]
                                /\ UR'[j] = UR[j] /\ UF'[j] = UF[j]
    BY DEF Bystander, ClaimedUncounted, ClearedUncounted, Unreturned, Unfreed
  <1>4. /\ CL[i] = cl(i) /\ CL'[i] = cl(i)' /\ CR[i] = cr(i) /\ CR'[i] = cr(i)'
        /\ UR[i] = Unreturned(i) /\ UR'[i] = Unreturned(i)'
        /\ UF[i] = Unfreed(i) /\ UF'[i] = Unfreed(i)'
    OBVIOUS
  <1>5. /\ ExpectedFree(g) = FreeBits(g) + Total(CL) - Total(CR)
        /\ ExpectedFree(g)' = FreeBits(g)' + Total(CL') - Total(CR')
        /\ ExpectedFreeBlocks = AllFreeBits + Total(UR) - Total(UF)
        /\ ExpectedFreeBlocks' = AllFreeBits' + Total(UR') - Total(UF')
    BY DEF ExpectedFree, ExpectedFreeBlocks, FreeBits, AllFreeBits, Total
  <1> HIDE DEF CL, CR, UR, UF
  <1>6. /\ Total(CL) \in Nat /\ Total(CL') = Total(CL) + CL'[i] - CL[i]
        /\ Total(CR) \in Nat /\ Total(CR') = Total(CR) + CR'[i] - CR[i]
        /\ Total(UR) \in Nat /\ Total(UR') = Total(UR) + UR'[i] - UR[i]
        /\ Total(UF) \in Nat /\ Total(UF') = Total(UF) + UF'[i] - UF[i]
    BY <1>1, <1>2, <1>3, TotalMoves
  <1>7. /\ CL[i] \in Nat /\ CL'[i] \in Nat /\ CR[i] \in Nat /\ CR'[i] \in Nat
        /\ UR[i] \in Nat /\ UR'[i] \in Nat /\ UF[i] \in Nat /\ UF'[i] \in Nat
    BY <1>1, <1>2
  <1>8. /\ GroupWeight(i, g) = CL[i] - CR[i] /\ GroupWeight(i, g)' = CL'[i] - CR'[i]
        /\ AllWeight(i) = UR[i] - UF[i] /\ AllWeight(i)' = UR'[i] - UF'[i]
    BY <1>4 DEF GroupWeight, AllWeight
  <1>9. ExpectedMove(i, g)
    BY <1>1, <1>2, <1>5, <1>6, <1>7, <1>8 DEF ExpectedMove
  <1>10. AllExpectedMove(i)
    BY <1>1, <1>2, <1>5, <1>6, <1>7, <1>8 DEF AllExpectedMove
  <1>11. QED
    BY <1>9, <1>10

-----------------------------------------------------------------------------
(* The inductive invariant, and what a step must do to keep it.            *)

\* What a call keeps charged, and for what.
Charge(i) == Cardinality(owned[i]) + Cardinality(lost[i]) + InFlight(i)

\* The bits a call is about to claim lie in its group.
ClaimRange(i) ==
    /\ pc[i] \in {"claim", "more"} =>
          /\ GroupFirst(af[i].group) <= af[i].start
          /\ af[i].end <= GroupLast(af[i].group) + 1
    /\ pc[i] = "claim" => af[i].start < af[i].end

\* The run a call frees lies in the filesystem, and the part it clears in one group,
\* where every cleared bit has been counted.
FreeRange(i) ==
    /\ pc[i] = "free" => ff[i].overflow = 0
    /\ pc[i] \in {"free", "clear"} =>
          /\ FirstDataBlock <= ff[i].block
          /\ ff[i].count >= 1 /\ ff[i].overflow >= 0
          /\ ff[i].block + ff[i].count + ff[i].overflow <= BlocksCount
    /\ pc[i] = "clear" =>
          /\ ff[i].block + ff[i].count <= GroupLast(GroupOf(ff[i].block)) + 1
          /\ ff[i].cleared <= ff[i].count
          /\ "damage" \notin fs_error => ff[i].group_freed = ff[i].cleared

\* A call that is over, or of the other kind, has nothing on its way.
NothingLeft(i) ==
    /\ pc[i] \in {"idle", "free", "clear", "freed"} => af[i].count = 0
    /\ pc[i] \notin {"free", "clear", "freed"} => ff[i].freed = 0

RangeInv(i) ==
    ClaimRange(i) /\ FreeRange(i) /\ NothingLeft(i)
        /\ IsFiniteSet(owned[i]) /\ IsFiniteSet(lost[i])

\* The inductive invariant.
AccountsInv == AccountsAgree /\ \A i \in Inodes : RangeInv(i)

GroupCountsMove(i) ==
    \A g \in Groups :
        bg_free'[g] = U16(bg_free[g] + ((FreeBits(g)' - FreeBits(g))
                                        + (GroupWeight(i, g)' - GroupWeight(i, g))))

CounterMoves(i) ==
    freeblocks' = freeblocks + (AllFreeBits' - AllFreeBits) + (AllWeight(i)' - AllWeight(i))

QuotaMoves(i) == quota'[i] = quota[i] + (Charge(i)' - Charge(i))

\* A step of inode i keeps the accounts if every count moves by what the step does to
\* the bits and to the call.
LEMMA AccountsStep ==
    ASSUME IsFiniteSet(Inodes), TypeOK, TypeOK', AccountsInv, NEW i \in Inodes,
           \A j \in Inodes \ {i} : Bystander(j) /\ quota'[j] = quota[j],
           fs_error \subseteq fs_error',
           RangeInv(i)',
           "damage" \notin fs_error' => GroupCountsMove(i) /\ CounterMoves(i) /\ QuotaMoves(i)
    PROVE  AccountsInv'
  <1>1. ASSUME NEW j \in Inodes \ {i} PROVE RangeInv(j)'
    <2>1. RangeInv(j) /\ Bystander(j)
      BY DEF AccountsInv
    <2>2. ClaimRange(j)'
      BY <2>1 DEF RangeInv, ClaimRange, Bystander
    <2>3. FreeRange(j)'
      BY <2>1 DEF RangeInv, FreeRange, Bystander
    <2>4. NothingLeft(j)'
      BY <2>1 DEF RangeInv, NothingLeft, Bystander
    <2>5. QED
      BY <2>1, <2>2, <2>3, <2>4 DEF RangeInv, Bystander
  <1>2. CASE "damage" \in fs_error'
    BY <1>1, <1>2 DEF AccountsInv, AccountsAgree, FreeCountsAgree, QuotaAgrees
  <1>3. CASE "damage" \notin fs_error'
    <2>1. /\ \A g \in Groups : bg_free[g] = U16(ExpectedFree(g))
          /\ freeblocks = ExpectedFreeBlocks
          /\ \A j \in Inodes : quota[j] = Charge(j)
      BY <1>3 DEF AccountsInv, AccountsAgree, FreeCountsAgree, QuotaAgrees, Charge
    <2>2. ASSUME NEW g \in Groups PROVE bg_free'[g] = U16(ExpectedFree(g)')
      <3> DEFINE d == (FreeBits(g)' - FreeBits(g)) + (GroupWeight(i, g)' - GroupWeight(i, g))
      <3>1. ExpectedMove(i, g)
        BY ExpectedMoves
      <3>2. bg_free'[g] = U16(U16(ExpectedFree(g)) + d)
        BY <1>3, <2>1 DEF GroupCountsMove
      <3>3. d \in Int /\ ExpectedFree(g) \in Int /\ ExpectedFree(g)' = ExpectedFree(g) + d
        BY <3>1 DEF ExpectedMove
      <3> HIDE DEF d
      <3>4. QED
        BY <3>2, <3>3, CountFollows
    <2>3. freeblocks' = ExpectedFreeBlocks'
      <3>1. \E g : g \in Groups
        BY ConstantsAssumption DEF Groups
      <3>2. AllExpectedMove(i)
        BY <3>1, ExpectedMoves
      <3>3. QED
        BY <1>3, <2>1, <3>2 DEF AllExpectedMove, CounterMoves
    <2>4. ASSUME NEW j \in Inodes PROVE quota'[j] = Charge(j)'
      <3>1. CASE j = i
        <4>1. quota[i] \in Int /\ quota[i] = Charge(i)
          BY <2>1 DEF TypeOK
        <4>2. quota'[i] = quota[i] + (Charge(i)' - Charge(i))
          BY <1>3 DEF QuotaMoves
        <4>3. Charge(i)' \in Int
          <5>1. IsFiniteSet(owned'[i]) /\ IsFiniteSet(lost'[i])
            BY DEF RangeInv
          <5>2. Cardinality(owned'[i]) \in Nat /\ Cardinality(lost'[i]) \in Nat
            BY <5>1, FS_CardinalityType
          <5>3. af'[i] \in AllocFrame /\ ff'[i] \in FreeFrame
            BY DEF TypeOK
          <5>4. InFlight(i)' \in Int
            BY <5>3 DEF InFlight, AllocFrame, FreeFrame
          <5>5. QED
            BY <5>2, <5>4 DEF Charge
        <4>4. QED
          BY <3>1, <4>1, <4>2, <4>3
      <3>2. CASE j # i
        <4>1. InFlight(j)' = InFlight(j)
          BY <3>2 DEF InFlight, Bystander
        <4>2. QED
          BY <2>1, <3>2, <4>1 DEF Charge, Bystander
      <3>3. QED
        BY <3>1, <3>2
    <2>5. QED
      BY <1>1, <2>2, <2>3, <2>4
         DEF AccountsInv, AccountsAgree, FreeCountsAgree, QuotaAgrees, Charge
  <1>4. QED
    BY <1>2, <1>3

\* A step of inode i that flips no bit and moves no count, and the labels it may
\* move between.
Quiet(i) ==
    /\ UNCHANGED <<bitmap, bg_free, freeblocks, quota, owned, lost, ff>>
    /\ fs_error \subseteq fs_error'
    /\ \A j \in Inodes \ {i} : pc'[j] = pc[j] /\ af'[j] = af[j]
    /\ af'[i].count = af[i].count
    /\ pc[i] \notin Busy \cup {"freed"} /\ pc'[i] \notin Busy \cup {"freed"}
    /\ pc'[i] = "idle" => pc[i] = "idle"

\* A step that flips no bit keeps a group's count right if the count gets what the
\* call no longer has on its way.
LEMMA GroupAdjust ==
    ASSUME IsFiniteSet(Inodes), TypeOK, TypeOK', AccountsInv, NEW i \in Inodes, "damage" \notin fs_error,
           \A j \in Inodes \ {i} : Bystander(j), bitmap' = bitmap,
           NEW h \in Groups, NEW d \in Int,
           bg_free'[h] = U16(bg_free[h] + d), GroupWeight(i, h)' = GroupWeight(i, h) + d,
           \A g \in Groups \ {h} : /\ bg_free'[g] = bg_free[g]
                                  /\ GroupWeight(i, g)' = GroupWeight(i, g)
    PROVE  GroupCountsMove(i)
  <1> SUFFICES ASSUME NEW g \in Groups
               PROVE  bg_free'[g] = U16(bg_free[g] + ((FreeBits(g)' - FreeBits(g))
                                         + (GroupWeight(i, g)' - GroupWeight(i, g))))
    BY DEF GroupCountsMove
  <1>1. ExpectedMove(i, g)
    BY ExpectedMoves
  <1>2. bg_free[g] = U16(ExpectedFree(g)) /\ ExpectedFree(g) \in Int
    BY <1>1 DEF AccountsInv, AccountsAgree, FreeCountsAgree, ExpectedMove
  <1>3. bg_free[g] = U16(bg_free[g] + 0)
    BY <1>2, CountFollows
  <1>4. FreeBits(g)' = FreeBits(g)
    BY DEF FreeBits
  <1>5. CASE g = h
    <2>1. (FreeBits(g)' - FreeBits(g)) + (GroupWeight(i, g)' - GroupWeight(i, g)) = d
      BY <1>1, <1>4, <1>5 DEF ExpectedMove
    <2>2. QED
      BY <1>5, <2>1
  <1>6. CASE g # h
    <2>1. (FreeBits(g)' - FreeBits(g)) + (GroupWeight(i, g)' - GroupWeight(i, g)) = 0
      BY <1>1, <1>4, <1>6 DEF ExpectedMove
    <2>2. QED
      BY <1>3, <1>6, <2>1
  <1>7. QED
    BY <1>5, <1>6

\* The same of the counter.
LEMMA CounterAdjust ==
    ASSUME IsFiniteSet(Inodes), TypeOK, TypeOK', NEW i \in Inodes,
           \A j \in Inodes \ {i} : Bystander(j), bitmap' = bitmap, NEW d \in Int,
           freeblocks' = freeblocks + d, AllWeight(i)' = AllWeight(i) + d
    PROVE  CounterMoves(i)
  <1>1. 0 \in Groups
    BY ConstantsAssumption DEF Groups
  <1>2. AllExpectedMove(i)
    BY <1>1, ExpectedMoves
  <1>3. AllFreeBits' = AllFreeBits
    BY DEF AllFreeBits
  <1>4. freeblocks \in Int
    BY DEF TypeOK
  <1>5. QED
    BY <1>2, <1>3, <1>4 DEF CounterMoves, AllExpectedMove

\* The counts may stay if the call keeps its weight.
LEMMA SameGroups ==
    ASSUME IsFiniteSet(Inodes), TypeOK, TypeOK', AccountsInv, NEW i \in Inodes, "damage" \notin fs_error,
           \A j \in Inodes \ {i} : Bystander(j), UNCHANGED <<bg_free, bitmap>>,
           \A g \in Groups : GroupWeight(i, g)' = GroupWeight(i, g)
    PROVE  GroupCountsMove(i)
  <1>1. 0 \in Groups
    BY ConstantsAssumption DEF Groups
  <1>2. ExpectedMove(i, 0)
    BY <1>1, ExpectedMoves
  <1>3. bg_free[0] = U16(ExpectedFree(0)) /\ ExpectedFree(0) \in Int
    BY <1>1, <1>2 DEF AccountsInv, AccountsAgree, FreeCountsAgree, ExpectedMove
  <1>4. bg_free[0] = U16(bg_free[0] + 0)
    BY <1>3, CountFollows
  <1>5. GroupWeight(i, 0)' = GroupWeight(i, 0) + 0
    BY <1>1, <1>2 DEF ExpectedMove
  <1>6. QED
    BY <1>1, <1>4, <1>5, GroupAdjust

LEMMA SameCounts ==
    ASSUME IsFiniteSet(Inodes), TypeOK, TypeOK', AccountsInv, NEW i \in Inodes, "damage" \notin fs_error,
           \A j \in Inodes \ {i} : Bystander(j),
           UNCHANGED <<bg_free, freeblocks, bitmap>>,
           \A g \in Groups : GroupWeight(i, g)' = GroupWeight(i, g),
           AllWeight(i)' = AllWeight(i)
    PROVE  GroupCountsMove(i) /\ CounterMoves(i)
  <1>1. 0 \in Groups
    BY ConstantsAssumption DEF Groups
  <1>2. AllExpectedMove(i)
    BY <1>1, ExpectedMoves
  <1>3. freeblocks' = freeblocks + 0 /\ AllWeight(i)' = AllWeight(i) + 0
    BY <1>2 DEF TypeOK, AllExpectedMove
  <1>4. CounterMoves(i)
    BY <1>3, CounterAdjust
  <1>5. QED
    BY <1>4, SameGroups

LEMMA QuietAccounts ==
    ASSUME IsFiniteSet(Inodes), TypeOK, TypeOK', AccountsInv, NEW i \in Inodes, Quiet(i),
           ClaimRange(i)'
    PROVE  AccountsInv'
  <1>1. \A j \in Inodes \ {i} : Bystander(j) /\ quota'[j] = quota[j]
    BY DEF Quiet, Bystander
  <1>2. RangeInv(i)
    BY DEF AccountsInv
  <1>3. FreeRange(i)'
    BY DEF Quiet, FreeRange, Busy
  <1>4. NothingLeft(i)'
    BY <1>2 DEF Quiet, NothingLeft, RangeInv, Busy
  <1>5. RangeInv(i)'
    BY <1>2, <1>3, <1>4 DEF RangeInv, Quiet
  <1>6. \A g \in Groups : GroupWeight(i, g)' = GroupWeight(i, g)
    BY DEF Quiet, GroupWeight, ClaimedUncounted, ClearedUncounted, Busy
  <1>7. AllWeight(i)' = AllWeight(i)
    BY DEF Quiet, AllWeight, Unreturned, Unfreed, Busy
  <1>8. Charge(i)' = Charge(i)
    BY DEF Quiet, Charge, InFlight, Busy
  <1>9. Charge(i) \in Int /\ quota[i] \in Int
    <2>1. Cardinality(owned[i]) \in Nat /\ Cardinality(lost[i]) \in Nat
      BY <1>2, FS_CardinalityType DEF RangeInv
    <2>2. InFlight(i) = af[i].count
      BY DEF Quiet, InFlight, Busy
    <2>3. af[i].count \in Nat /\ quota[i] \in Int
      BY DEF TypeOK, AllocFrame
    <2>4. QED
      BY <2>1, <2>2, <2>3 DEF Charge
  <1>10. "damage" \notin fs_error' => GroupCountsMove(i) /\ CounterMoves(i) /\ QuotaMoves(i)
    <2>1. UNCHANGED <<bg_free, freeblocks, bitmap, quota>> /\ fs_error \subseteq fs_error'
      BY DEF Quiet
    <2>2. QuotaMoves(i)
      BY <1>8, <1>9, <2>1 DEF QuotaMoves
    <2>3. QED
      BY <1>1, <1>6, <1>7, <2>1, <2>2, SameCounts
  <1>11. QED
    BY <1>1, <1>5, <1>10, AccountsStep DEF Quiet

-----------------------------------------------------------------------------
(* The steps of the search: they flip no bit and move no count.            *)

LEMMA SearchQuiet ==
    ASSUME TypeOK, NEW i \in Inodes,
           \/ DiscardReservation(i) \/ SetReservationSize(i) \/ RetryAlloc(i) \/ ScanGroup(i)
           \/ ScanDone(i) \/ BitmapReadFails(i) \/ BitmapInvalid(i)
           \/ AllocNewReservation(i)
           \/ RenewReservation(i) \/ CheckReservation(i) \/ UseReservation(i)
    PROVE  Quiet(i) /\ ClaimRange(i)'
  <1> SUFFICES /\ UNCHANGED <<disk, ff>> /\ fs_error \subseteq fs_error'
               /\ \A j \in Inodes \ {i} : pc'[j] = pc[j] /\ af'[j] = af[j]
               /\ af'[i].count = af[i].count
               /\ pc[i] \in {"retry", "scan", "rsv", "check", "renew", "try", "idle"}
               /\ pc'[i] \in {"retry", "scan", "rsv", "check", "renew", "try", "nospace",
                              "ioerror", "idle"}
               /\ pc'[i] = "idle" => pc[i] = "idle"
    BY DEF Quiet, Busy, disk, ClaimRange
  <1>1. af[i] \in AllocFrame
    BY DEF TypeOK
  <1>2. CASE DiscardReservation(i)
    BY <1>2 DEF DiscardReservation, Enter, At
  <1>3. CASE SetReservationSize(i)
    BY <1>3 DEF SetReservationSize, Enter, At
  <1>4. CASE RetryAlloc(i)
    BY <1>1, <1>4 DEF RetryAlloc, At, Goto, TypeOK, AllocFrame
  <1>5. CASE ScanGroup(i)
    BY <1>1, <1>5 DEF ScanGroup, At, Goto, TypeOK, AllocFrame
  <1>6. CASE ScanDone(i)
    BY <1>1, <1>6 DEF ScanDone, At, Goto, TypeOK, AllocFrame
  <1>7. CASE BitmapReadFails(i)
    BY <1>7 DEF BitmapReadFails, At, Goto, TypeOK, Complain
  <1>8. CASE AllocNewReservation(i)
    <2>1. \/ Goto(i, "scan")
          \/ \E head, start_block, size : find_next_reservable_window(i, head, start_block, size)
      BY <1>8 DEF AllocNewReservation
    <2>2. pc'[i] \in {"scan", "check"} /\ \A j \in Inodes \ {i} : pc'[j] = pc[j]
      <3>1. CASE Goto(i, "scan")
        BY <3>1 DEF Goto, TypeOK
      <3>2. QED
        BY <2>1, <3>1, FindNextHeld
    <2>3. QED
      BY <1>8, <2>2 DEF AllocNewReservation, At
  <1>9. CASE RenewReservation(i)
    BY <1>9, FindNextHeld DEF RenewReservation, At
  <1>10. CASE CheckReservation(i)
    <2>1. \/ af' = af
          \/ \E x : af' = [af EXCEPT ![i].grp_goal = x] \/ af' = [af EXCEPT ![i].start = x]
      BY <1>10 DEF CheckReservation
    <2>2. af'[i].count = af[i].count /\ \A j \in Inodes \ {i} : af'[j] = af[j]
      BY <1>1, <2>1 DEF TypeOK, AllocFrame
    <2>3. QED
      BY <1>10, <2>2 DEF CheckReservation, At, Goto, TypeOK
  <1>11. CASE UseReservation(i)
    BY <1>11 DEF UseReservation, At, Goto, TypeOK
  <1>12. CASE BitmapInvalid(i)
    BY <1>12 DEF BitmapInvalid, At, Complain
  <1>13. QED
    BY <1>2, <1>3, <1>4, <1>5, <1>6, <1>7, <1>8, <1>9, <1>10, <1>11, <1>12

LEMMA TryFailedQuiet ==
    ASSUME TypeOK, NEW i \in Inodes, TryFailed(i)
    PROVE  /\ \A j \in Inodes \ {i} : pc'[j] = pc[j] /\ af'[j] = af[j]
           /\ af'[i].count = af[i].count
           /\ pc'[i] \in {"rsv", "scan"}
  <1>1. af[i] \in AllocFrame
    BY DEF TypeOK
  <1>2. PICK n, l : /\ af' = [af EXCEPT ![i] = [af[i] EXCEPT !.failed = TRUE, !.num = n,
                                                             !.start = 0, !.end = 0]]
                    /\ pc' = [pc EXCEPT ![i] = l] /\ l \in {"rsv", "scan"}
    BY DEF TryFailed, Goto
  <1>3. QED
    BY <1>1, <1>2 DEF TypeOK, AllocFrame

LEMMA TryToAllocateQuiet ==
    ASSUME TypeOK, NEW i \in Inodes, TryToAllocate(i)
    PROVE  Quiet(i) /\ ClaimRange(i)'
  <1> DEFINE lo == RangeStart(i)
             hi == RangeEnd(i)
             f == af[i]
  <1>1. af[i] \in AllocFrame /\ f.group \in Groups /\ rsv[i] \in Window
    BY DEF TypeOK, AllocFrame, Nodes
  <1>2. /\ lo \in Int /\ hi \in Int
        /\ GroupFirst(f.group) <= lo /\ hi <= GroupLast(f.group) + 1
    BY <1>1, GroupBounds DEF RangeStart, RangeEnd, Window
  <1>3. UNCHANGED <<disk, ff, fs_error>> /\ pc[i] \in {"try", "rsv"}
    BY DEF TryToAllocate, At
  <1>4. \/ TryFailed(i)
        \/ \E b \in lo .. hi - 1 : /\ af' = [af EXCEPT ![i] = [f EXCEPT !.start = b, !.end = hi]]
                                   /\ Goto(i, "claim")
    BY DEF TryToAllocate
  <1>5. CASE TryFailed(i)
    BY <1>3, <1>5, TryFailedQuiet DEF Quiet, ClaimRange, Busy, disk
  <1>6. ASSUME NEW b \in lo .. hi - 1,
               af' = [af EXCEPT ![i] = [f EXCEPT !.start = b, !.end = hi]], Goto(i, "claim")
        PROVE  Quiet(i) /\ ClaimRange(i)'
    <2>1. /\ pc'[i] = "claim" /\ af'[i].count = f.count /\ af'[i].group = f.group
          /\ af'[i].start = b /\ af'[i].end = hi
          /\ \A j \in Inodes \ {i} : pc'[j] = pc[j] /\ af'[j] = af[j]
      BY <1>1, <1>6 DEF Goto, TypeOK, AllocFrame
    <2>2. Quiet(i)
      BY <1>3, <2>1 DEF Quiet, Busy, disk
    <2>3. ClaimRange(i)'
      <3>1. b \in Int /\ lo <= b /\ b < hi
        BY <1>2
      <3>2. GroupFirst(f.group) \in Int /\ GroupLast(f.group) \in Int
        BY <1>1, GroupBounds
      <3> HIDE DEF lo, hi
      <3>3. GroupFirst(f.group) <= b
        BY <1>2, <3>1, <3>2
      <3>4. QED
        BY <1>2, <2>1, <3>1, <3>3 DEF ClaimRange
    <2>4. QED
      BY <2>2, <2>3
  <1>7. QED
    BY <1>4, <1>5, <1>6

-----------------------------------------------------------------------------
(* The steps that claim, return and free blocks.                           *)

LEMMA BitSetsFinite ==
    ASSUME NEW g \in Groups
    PROVE  IsFiniteSet(GroupBits(g)) /\ IsFiniteSet(Bits)
  <1>1. GroupsCount - 1 \in Groups
    BY ConstantsAssumption DEF Groups
  <1>2. QED
    BY <1>1, ConstantsAssumption, GroupBounds, FS_Interval DEF Bits, GroupBits

\* A bit that is set is one fewer clear bit in its group and in the filesystem.
BitSetIn(h) ==
    /\ \A g \in Groups : FreeBits(g)' = IF g = h THEN FreeBits(g) - 1 ELSE FreeBits(g)
    /\ AllFreeBits' = AllFreeBits - 1

BitClearedIn(h) ==
    /\ \A g \in Groups : FreeBits(g)' = IF g = h THEN FreeBits(g) + 1 ELSE FreeBits(g)
    /\ AllFreeBits' = AllFreeBits + 1

LEMMA BitSetCounts ==
    ASSUME NEW h \in Groups, NEW b \in GroupBits(h), b \notin bitmap, bitmap' = bitmap \cup {b}
    PROVE  BitSetIn(h)
  <1>1. b \in Bits /\ \A g \in Groups : b \in GroupBits(g) => g = h
    BY GroupsApart
  <1>2. ASSUME NEW S, IsFiniteSet(S)
        PROVE  Cardinality(S \ bitmap') = IF b \in S THEN Cardinality(S \ bitmap) - 1
                                          ELSE Cardinality(S \ bitmap)
    <2>1. IsFiniteSet(S \ bitmap)
      BY <1>2, FS_Difference
    <2>2. S \ bitmap' = (S \ bitmap) \ {b} /\ (b \in S <=> b \in S \ bitmap)
      OBVIOUS
    <2>3. QED
      BY <2>1, <2>2, FS_RemoveElement
  <1>3. AllFreeBits' = AllFreeBits - 1
    BY <1>1, <1>2, BitSetsFinite DEF AllFreeBits
  <1>4. ASSUME NEW g \in Groups
        PROVE  FreeBits(g)' = IF g = h THEN FreeBits(g) - 1 ELSE FreeBits(g)
    BY <1>1, <1>2, BitSetsFinite DEF FreeBits
  <1>5. QED
    BY <1>3, <1>4 DEF BitSetIn

LEMMA BitClearedCounts ==
    ASSUME NEW h \in Groups, NEW b \in GroupBits(h), b \in bitmap, bitmap' = bitmap \ {b}
    PROVE  BitClearedIn(h)
  <1>1. b \in Bits /\ \A g \in Groups : b \in GroupBits(g) => g = h
    BY GroupsApart
  <1>2. ASSUME NEW S, IsFiniteSet(S)
        PROVE  Cardinality(S \ bitmap') = IF b \in S THEN Cardinality(S \ bitmap) + 1
                                          ELSE Cardinality(S \ bitmap)
    <2>1. IsFiniteSet(S \ bitmap)
      BY <1>2, FS_Difference
    <2>2. b \notin S \ bitmap
      OBVIOUS
    <2>3. S \ bitmap' = IF b \in S THEN (S \ bitmap) \cup {b} ELSE S \ bitmap
      OBVIOUS
    <2>4. Cardinality((S \ bitmap) \cup {b}) = Cardinality(S \ bitmap) + 1
      <3>1. PICK D : D = S \ bitmap
        OBVIOUS
      <3>2. Cardinality(D \cup {b}) = IF b \in D THEN Cardinality(D) ELSE Cardinality(D) + 1
        BY <2>1, <3>1, FS_AddElement, Zenon
      <3>3. QED
        BY <2>2, <3>1, <3>2
    <2>5. QED
      BY ONLY <2>3, <2>4
  <1>3. AllFreeBits' = AllFreeBits + 1
    BY <1>1, <1>2, BitSetsFinite DEF AllFreeBits
  <1>4. ASSUME NEW g \in Groups
        PROVE  FreeBits(g)' = IF g = h THEN FreeBits(g) + 1 ELSE FreeBits(g)
    BY <1>1, <1>2, BitSetsFinite DEF FreeBits
  <1>5. QED
    BY <1>3, <1>4 DEF BitClearedIn

\* A step that flips one bit of group h and has it on its way to the counts.
LEMMA FlipCounts ==
    ASSUME IsFiniteSet(Inodes), TypeOK, TypeOK', AccountsInv, NEW i \in Inodes, "damage" \notin fs_error,
           \A j \in Inodes \ {i} : Bystander(j),
           UNCHANGED <<bg_free, freeblocks>>, NEW h \in Groups, NEW d \in {-1, 1},
           \A g \in Groups : FreeBits(g)' = IF g = h THEN FreeBits(g) - d ELSE FreeBits(g),
           AllFreeBits' = AllFreeBits - d,
           \A g \in Groups : GroupWeight(i, g)' = IF g = h THEN GroupWeight(i, g) + d
                                                  ELSE GroupWeight(i, g),
           AllWeight(i)' = AllWeight(i) + d
    PROVE  GroupCountsMove(i) /\ CounterMoves(i)
  <1>1. ASSUME NEW g \in Groups
        PROVE  /\ bg_free[g] = U16(bg_free[g] + 0)
               /\ ExpectedMove(i, g) /\ AllExpectedMove(i)
    <2>1. ExpectedMove(i, g) /\ AllExpectedMove(i)
      BY ExpectedMoves
    <2>2. bg_free[g] = U16(ExpectedFree(g)) /\ ExpectedFree(g) \in Int
      BY <2>1 DEF AccountsInv, AccountsAgree, FreeCountsAgree, ExpectedMove
    <2>3. QED
      BY <2>1, <2>2, CountFollows
  <1>2. GroupCountsMove(i)
    <2> SUFFICES ASSUME NEW g \in Groups
                 PROVE  bg_free'[g] = U16(bg_free[g] + ((FreeBits(g)' - FreeBits(g))
                                           + (GroupWeight(i, g)' - GroupWeight(i, g))))
      BY DEF GroupCountsMove
    <2>1. (FreeBits(g)' - FreeBits(g)) + (GroupWeight(i, g)' - GroupWeight(i, g)) = 0
      BY <1>1 DEF ExpectedMove
    <2>2. QED
      BY <1>1, <2>1
  <1>3. CounterMoves(i)
    <2>1. 0 \in Groups
      BY ConstantsAssumption DEF Groups
    <2>2. freeblocks \in Int
      BY DEF TypeOK
    <2>3. QED
      BY <1>1, <2>1, <2>2 DEF CounterMoves, AllExpectedMove
  <1>4. QED
    BY <1>2, <1>3

\* The charge of a call is a number.
LEMMA ChargeType ==
    ASSUME TypeOK, NEW i \in Inodes, RangeInv(i)
    PROVE  /\ Charge(i) \in Int /\ InFlight(i) \in Int /\ quota[i] \in Int
           /\ Cardinality(owned[i]) \in Nat /\ Cardinality(lost[i]) \in Nat
  <1>1. Cardinality(owned[i]) \in Nat /\ Cardinality(lost[i]) \in Nat
    BY FS_CardinalityType DEF RangeInv
  <1>2. af[i] \in AllocFrame /\ ff[i] \in FreeFrame /\ quota[i] \in Int
    BY DEF TypeOK
  <1>3. InFlight(i) \in Int
    BY <1>2 DEF InFlight, AllocFrame, FreeFrame
  <1>4. QED
    BY <1>1, <1>2, <1>3 DEF Charge

\* The claim of one bit.
LEMMA ClaimAccounts ==
    ASSUME IsFiniteSet(Inodes), TypeOK, TypeOK', AccountsInv, NEW i \in Inodes,
           UNCHANGED <<bg_free, freeblocks, quota, owned, lost, ff, fs_error>>,
           \A j \in Inodes \ {i} : pc'[j] = pc[j] /\ af'[j] = af[j],
           pc[i] \in {"claim", "more"}, pc'[i] = "more",
           NEW b \in GroupBits(af[i].group), b \notin bitmap, bitmap' = bitmap \cup {b},
           af'[i].start = af[i].start, af'[i].end = af[i].end,
           af'[i].group = af[i].group, af'[i].count = af[i].count,
           af'[i].got = IF pc[i] = "more" THEN af[i].got + 1 ELSE 1
    PROVE  AccountsInv'
  <1>1. /\ af[i].group \in Groups /\ af[i].got \in Nat
        /\ ff[i].freed \in Nat
    BY DEF TypeOK, AllocFrame, FreeFrame
  <1>2. \A j \in Inodes \ {i} : Bystander(j) /\ quota'[j] = quota[j]
    BY DEF Bystander
  <1>3. RangeInv(i)
    BY DEF AccountsInv
  <1>4. RangeInv(i)'
    <2>1. ClaimRange(i)'
      BY <1>3 DEF RangeInv, ClaimRange
    <2>2. FreeRange(i)' /\ NothingLeft(i)'
      BY <1>3 DEF RangeInv, FreeRange, NothingLeft
    <2>3. QED
      BY <1>3, <2>1, <2>2 DEF RangeInv
  <1>5. BitSetIn(af[i].group)
    BY <1>1, BitSetCounts
  <1>6. ASSUME NEW g \in Groups
        PROVE  GroupWeight(i, g)' = IF g = af[i].group THEN GroupWeight(i, g) + 1
                                    ELSE GroupWeight(i, g)
    <2>1. ClearedUncounted(i, g) = 0 /\ ClearedUncounted(i, g)' = 0
      BY DEF ClearedUncounted
    <2>2. /\ ClaimedUncounted(i, g) = IF pc[i] = "more" /\ g = af[i].group THEN af[i].got ELSE 0
          /\ ClaimedUncounted(i, g)' = IF g = af[i].group THEN af'[i].got ELSE 0
      BY DEF ClaimedUncounted
    <2>3. QED
      BY <1>1, <2>1, <2>2 DEF GroupWeight
  <1>7. AllWeight(i)' = AllWeight(i) + 1
    <2>1. Unfreed(i)' = Unfreed(i) /\ Unfreed(i) = ff[i].freed
      BY DEF Unfreed
    <2>2. /\ Unreturned(i) = IF pc[i] = "more" THEN af[i].got ELSE 0
          /\ Unreturned(i)' = af'[i].got
      BY DEF Unreturned
    <2>3. QED
      BY <1>1, <2>1, <2>2 DEF AllWeight
  <1>8. QuotaMoves(i)
    <2>1. Charge(i)' = Charge(i)
      BY DEF Charge, InFlight
    <2>2. QED
      BY <1>3, <2>1, ChargeType DEF QuotaMoves
  <1>9. "damage" \notin fs_error' => GroupCountsMove(i) /\ CounterMoves(i)
    <2> SUFFICES ASSUME "damage" \notin fs_error' PROVE GroupCountsMove(i) /\ CounterMoves(i)
      OBVIOUS
    <2>1. "damage" \notin fs_error
      OBVIOUS
    <2>2. /\ \A g \in Groups : FreeBits(g)' = IF g = af[i].group THEN FreeBits(g) - 1
                                              ELSE FreeBits(g)
          /\ AllFreeBits' = AllFreeBits - 1
      BY <1>5 DEF BitSetIn
    <2>3. UNCHANGED <<bg_free, freeblocks>>
      OBVIOUS
    <2>4. \A j \in Inodes \ {i} : Bystander(j)
      BY <1>2
    <2>5. PICK h \in Groups : h = af[i].group
      BY <1>1
    <2>6. \A g \in Groups : FreeBits(g)' = IF g = h THEN FreeBits(g) - 1 ELSE FreeBits(g)
      BY <2>2, <2>5
    <2>7. \A g \in Groups : GroupWeight(i, g)' = IF g = h THEN GroupWeight(i, g) + 1
                                                 ELSE GroupWeight(i, g)
      BY <1>6, <2>5
    <2>8. 1 \in {-1, 1}
      OBVIOUS
    <2>9. QED
      BY <1>7, <2>1, <2>2, <2>3, <2>4, <2>6, <2>7, <2>8, FlipCounts
  <1>10. QED
    BY <1>2, <1>4, <1>8, <1>9, AccountsStep

LEMMA ClaimFirstAccounts ==
    ASSUME IsFiniteSet(Inodes), TypeOK, TypeOK', AccountsInv, NEW i \in Inodes, ClaimFirst(i)
    PROVE  AccountsInv'
  <1> DEFINE b == af[i].start
  <1>1. /\ UNCHANGED <<bg_free, freeblocks, quota, owned, lost, ff, fs_error>>
        /\ pc[i] = "claim"
    BY DEF ClaimFirst, At
  <1>2. /\ af[i] \in AllocFrame /\ b \in Int /\ af[i].end \in Int /\ af[i].group \in Groups
    BY DEF TypeOK, AllocFrame
  <1>3. RangeInv(i) /\ ClaimRange(i)
    BY DEF AccountsInv, RangeInv
  <1>4. CASE b \in bitmap
    <2>1. bitmap' = bitmap /\ \/ b + 1 >= af[i].end /\ TryFailed(i)
                              \/ b + 1 < af[i].end /\ af' = [af EXCEPT ![i].start = b + 1] /\ pc' = pc
      BY <1>2, <1>4 DEF ClaimFirst
    <2>2. CASE TryFailed(i)
      <3>1. Quiet(i) /\ ClaimRange(i)'
        BY <1>1, <2>1, <2>2, TryFailedQuiet DEF Quiet, Busy, ClaimRange
      <3>2. QED
        BY <3>1, QuietAccounts
    <2>3. CASE b + 1 < af[i].end /\ af' = [af EXCEPT ![i].start = b + 1] /\ pc' = pc
      <3>1. /\ af'[i].start = b + 1 /\ af'[i].end = af[i].end /\ af'[i].group = af[i].group
            /\ af'[i].count = af[i].count
            /\ \A j \in Inodes \ {i} : af'[j] = af[j]
        BY <1>2, <2>3 DEF TypeOK, AllocFrame
      <3>2. Quiet(i)
        BY <1>1, <2>1, <2>3, <3>1 DEF Quiet, Busy
      <3>3. ClaimRange(i)'
        BY <1>1, <1>2, <1>3, <2>3, <3>1, GroupBounds DEF ClaimRange
      <3>4. QED
        BY <3>2, <3>3, QuietAccounts
    <2>4. QED
      BY <2>1, <2>2, <2>3
  <1>5. CASE b \notin bitmap
    <2>1. /\ bitmap' = bitmap \cup {b} /\ pc'[i] = "more"
          /\ \A j \in Inodes \ {i} : pc'[j] = pc[j] /\ af'[j] = af[j]
          /\ af'[i].start = b /\ af'[i].end = af[i].end /\ af'[i].group = af[i].group
          /\ af'[i].count = af[i].count /\ af'[i].got = 1
      BY <1>2, <1>5 DEF ClaimFirst, Goto, TypeOK, AllocFrame
    <2>2. b \in GroupBits(af[i].group)
      BY <1>1, <1>2, <1>3, GroupBounds DEF ClaimRange, GroupBits
    <2>3. QED
      BY <1>1, <1>5, <2>1, <2>2, ClaimAccounts
  <1>6. QED
    BY <1>4, <1>5

LEMMA ClaimMoreAccounts ==
    ASSUME IsFiniteSet(Inodes), TypeOK, TypeOK', AccountsInv, NEW i \in Inodes, ClaimMore(i)
    PROVE  AccountsInv'
  <1> DEFINE b == af[i].start + af[i].got
  <1>1. /\ UNCHANGED <<bg_free, freeblocks, quota, owned, lost, ff, fs_error>>
        /\ pc[i] = "more"
    BY DEF ClaimMore, At
  <1>2. /\ af[i] \in AllocFrame /\ af[i].start \in Int /\ af[i].end \in Int
        /\ af[i].group \in Groups /\ af[i].got \in Nat /\ b \in Int
    BY DEF TypeOK, AllocFrame
  <1>3. RangeInv(i) /\ ClaimRange(i)
    BY DEF AccountsInv, RangeInv
  <1>4. CASE /\ b < af[i].end /\ b \notin bitmap
             /\ bitmap' = bitmap \cup {b}
             /\ af' = [af EXCEPT ![i].got = @ + 1] /\ pc' = pc
    <2>1. /\ \A j \in Inodes \ {i} : pc'[j] = pc[j] /\ af'[j] = af[j]
          /\ af'[i].start = af[i].start /\ af'[i].end = af[i].end /\ af'[i].group = af[i].group
          /\ af'[i].count = af[i].count /\ af'[i].got = af[i].got + 1 /\ pc'[i] = "more"
      BY <1>1, <1>2, <1>4 DEF TypeOK, AllocFrame
    <2>2. b \in GroupBits(af[i].group)
      BY <1>1, <1>2, <1>3, <1>4, GroupBounds DEF ClaimRange, GroupBits
    <2> HIDE DEF b
    <2>3. QED
      BY <1>1, <1>4, <2>1, <2>2, ClaimAccounts
  <1>5. CASE /\ bitmap' = bitmap /\ Goto(i, "allocated")
             /\ af' = [af EXCEPT ![i] = [af[i] EXCEPT !.num = af[i].got, !.end = 0]]
    <2>1. /\ \A j \in Inodes \ {i} : pc'[j] = pc[j] /\ af'[j] = af[j]
          /\ af'[i].group = af[i].group
          /\ af'[i].count = af[i].count /\ af'[i].got = af[i].got /\ pc'[i] = "allocated"
      BY <1>2, <1>5 DEF TypeOK, AllocFrame, Goto
    <2>2. \A j \in Inodes \ {i} : Bystander(j) /\ quota'[j] = quota[j]
      BY <1>1, <2>1 DEF Bystander
    <2>3. RangeInv(i)'
      BY <1>1, <1>3, <2>1 DEF RangeInv, ClaimRange, FreeRange, NothingLeft
    <2>4. /\ \A g \in Groups : GroupWeight(i, g)' = GroupWeight(i, g)
          /\ AllWeight(i)' = AllWeight(i)
      BY <1>1, <2>1 DEF GroupWeight, AllWeight, ClaimedUncounted, ClearedUncounted,
                        Unreturned, Unfreed
    <2>5. QuotaMoves(i)
      <3>1. Charge(i)' = Charge(i)
        BY <1>1, <2>1 DEF Charge, InFlight
      <3>2. QED
        BY <1>1, <1>3, <3>1, ChargeType DEF QuotaMoves
    <2>6. "damage" \notin fs_error' => GroupCountsMove(i) /\ CounterMoves(i)
      BY <1>1, <1>5, <2>2, <2>4, SameCounts
    <2>7. QED
      BY <1>1, <2>2, <2>3, <2>5, <2>6, AccountsStep
  <1>6. QED
    BY <1>4, <1>5 DEF ClaimMore

LEMMA AllocatedAccounts ==
    ASSUME IsFiniteSet(Inodes), TypeOK, TypeOK', AccountsInv, NEW i \in Inodes, Allocated(i)
    PROVE  AccountsInv'
  <1>1. /\ UNCHANGED <<bitmap, freeblocks, quota, owned, ff>> /\ pc[i] = "allocated"
        /\ \A j \in Inodes \ {i} : pc'[j] = pc[j] /\ af'[j] = af[j] /\ lost'[j] = lost[j]
    BY DEF Allocated, Goto, At, TypeOK
  <1>2. \A j \in Inodes \ {i} : Bystander(j) /\ quota'[j] = quota[j]
    BY <1>1 DEF Bystander
  <1>3. RangeInv(i) /\ af[i] \in AllocFrame /\ af[i].got \in Nat /\ af[i].group \in Groups
    BY DEF AccountsInv, TypeOK, AllocFrame
  <1>4. CASE /\ fs_error' = fs_error \cup {"damage"} /\ lost' = lost /\ Goto(i, "retry")
             /\ af' = [af EXCEPT ![i] = [af[i] EXCEPT !.start = 0, !.got = 0]]
    <2>1. pc'[i] = "retry"
      BY <1>4 DEF Goto, TypeOK
    <2>2. RangeInv(i)'
      BY <1>1, <1>3, <1>4, <2>1 DEF RangeInv, ClaimRange, FreeRange, NothingLeft
    <2>3. QED
      BY <1>2, <1>4, <2>2, AccountsStep
  <1>5. CASE /\ fs_error' = fs_error \cup {"damage"} /\ Goto(i, "idle") /\ af' = [af EXCEPT ![i] = NoAlloc]
             /\ lost' = [lost EXCEPT ![i] = @ \cup Run(af[i].start, af[i].got)]
    <2>1. /\ pc'[i] = "idle" /\ af'[i].count = 0
          /\ lost'[i] = lost[i] \cup Run(af[i].start, af[i].got)
      BY <1>5 DEF Goto, TypeOK, NoAlloc
    <2>2. IsFiniteSet(lost'[i])
      <3>1. af[i].start \in Int
        BY <1>3 DEF AllocFrame
      <3>2. IsFiniteSet(Run(af[i].start, af[i].got))
        <4>1. af[i].start + af[i].got - 1 \in Int
          BY <1>3, <3>1
        <4>2. QED
          BY <3>1, <4>1, FS_Interval, Zenon DEF Run
      <3>3. QED
        BY <1>3, <2>1, <3>2, FS_Union DEF RangeInv
    <2>3. RangeInv(i)'
      BY <1>1, <1>3, <2>1, <2>2 DEF RangeInv, ClaimRange, FreeRange, NothingLeft
    <2>4. QED
      BY <1>2, <1>5, <2>3, AccountsStep
  <1>6. CASE /\ bg_free' = [bg_free EXCEPT ![af[i].group] = U16(@ - af[i].got)]
             /\ Goto(i, "percpu") /\ UNCHANGED <<fs_error, af, lost>>
    <2>1. pc'[i] = "percpu"
      BY <1>6 DEF Goto, TypeOK
    <2>2. RangeInv(i)'
      BY <1>1, <1>3, <1>6, <2>1 DEF RangeInv, ClaimRange, FreeRange, NothingLeft
    <2>3. QuotaMoves(i)
      <3>1. Charge(i)' = Charge(i)
        BY <1>1, <1>6, <2>1 DEF Charge, InFlight
      <3>2. QED
        BY <1>1, <1>3, <3>1, ChargeType DEF QuotaMoves
    <2>4. CounterMoves(i)
      <3>1. AllWeight(i) = af[i].got - ff[i].freed /\ AllWeight(i)' = af[i].got - ff[i].freed
        BY <1>1, <1>6, <2>1 DEF AllWeight, Unreturned, Unfreed
      <3>2. ff[i].freed \in Nat /\ freeblocks \in Int
        BY DEF TypeOK, FreeFrame
      <3>3. freeblocks' = freeblocks + 0 /\ AllWeight(i)' = AllWeight(i) + 0
        BY <1>1, <1>3, <3>1, <3>2
      <3>4. QED
        BY <1>1, <1>2, <3>3, CounterAdjust
    <2>5. "damage" \notin fs_error' => GroupCountsMove(i)
      <3> SUFFICES ASSUME "damage" \notin fs_error' PROVE GroupCountsMove(i)
        OBVIOUS
      <3>1. PICK h \in Groups : h = af[i].group
        BY <1>3
      <3>2. bg_free[h] \in Int /\ -af[i].got \in Int
        BY <1>3 DEF TypeOK
      <3>3. /\ bg_free'[h] = U16(bg_free[h] + (-af[i].got))
            /\ \A g \in Groups \ {h} : bg_free'[g] = bg_free[g]
        <4>1. bg_free[h] - af[i].got = bg_free[h] + (-af[i].got)
          BY <1>3, <3>2
        <4>2. bg_free \in [Groups -> Int]
          BY DEF TypeOK
        <4>3. QED
          BY <1>6, <3>1, <4>1, <4>2
      <3>4. \A g \in Groups : GroupWeight(i, g) = IF g = h THEN af[i].got - 0 ELSE 0 - 0
        BY <1>1, <3>1 DEF GroupWeight, ClaimedUncounted, ClearedUncounted
      <3>5. \A g \in Groups : GroupWeight(i, g)' = 0 - 0
        BY <2>1 DEF GroupWeight, ClaimedUncounted, ClearedUncounted
      <3>6. /\ GroupWeight(i, h)' = GroupWeight(i, h) + (-af[i].got)
            /\ \A g \in Groups \ {h} : GroupWeight(i, g)' = GroupWeight(i, g)
        BY <1>3, <3>4, <3>5
      <3>7. "damage" \notin fs_error
        BY <1>6
      <3>8. QED
        BY <1>1, <1>2, <3>2, <3>3, <3>6, <3>7, GroupAdjust
    <2>6. QED
      BY <1>2, <1>6, <2>2, <2>3, <2>4, <2>5, AccountsStep
  <1>7. QED
    BY <1>4, <1>5, <1>6 DEF Allocated, Complain

\* A call that ends: it charges what its inode now has, and gives the counter what it
\* had on its way.
LEMMA EndAccounts ==
    ASSUME IsFiniteSet(Inodes), TypeOK, TypeOK', AccountsInv, NEW i \in Inodes,
           UNCHANGED <<bitmap, bg_free, fs_error>>,
           \A j \in Inodes \ {i} : Bystander(j) /\ quota'[j] = quota[j],
           pc[i] \notin {"more", "allocated", "clear"}, pc'[i] = "idle",
           af'[i].count = 0, ff'[i].freed = 0,
           freeblocks' = freeblocks - AllWeight(i),
           IsFiniteSet(owned'[i]), IsFiniteSet(lost'[i]), QuotaMoves(i)
    PROVE  AccountsInv'
  <1>1. RangeInv(i)'
    BY DEF RangeInv, ClaimRange, FreeRange, NothingLeft
  <1>2. \A g \in Groups : GroupWeight(i, g)' = GroupWeight(i, g)
    BY DEF GroupWeight, ClaimedUncounted, ClearedUncounted
  <1>3. 0 \in Groups
    BY ConstantsAssumption DEF Groups
  <1>4. AllExpectedMove(i)
    BY <1>3, ExpectedMoves
  <1>5. AllWeight(i)' = 0 - 0
    BY DEF AllWeight, Unreturned, Unfreed
  <1>6. /\ -AllWeight(i) \in Int /\ freeblocks' = freeblocks + (-AllWeight(i))
        /\ AllWeight(i)' = AllWeight(i) + (-AllWeight(i))
    BY <1>4, <1>5 DEF AllExpectedMove, TypeOK
  <1>7. CounterMoves(i)
    BY <1>6, CounterAdjust
  <1>8. "damage" \notin fs_error' => GroupCountsMove(i)
    BY <1>2, SameGroups
  <1>9. QED
    BY <1>1, <1>7, <1>8, AccountsStep

LEMMA ReturnAccounts ==
    ASSUME IsFiniteSet(Inodes), TypeOK, TypeOK', HeldInv, AccountsInv, NEW i \in Inodes, Return(i)
    PROVE  AccountsInv'
  <1> DEFINE run == Run(af[i].start, af[i].got)
  <1>1. /\ UNCHANGED <<bitmap, bg_free, lost, ff, fs_error>> /\ pc[i] = "percpu" /\ pc'[i] = "idle"
        /\ owned'[i] = owned[i] \cup run /\ af'[i] = NoAlloc
        /\ quota'[i] = quota[i] - (af[i].count - af[i].got)
        /\ freeblocks' = freeblocks - af[i].got
        /\ \A j \in Inodes \ {i} : /\ pc'[j] = pc[j] /\ af'[j] = af[j] /\ owned'[j] = owned[j]
                                   /\ quota'[j] = quota[j]
    BY DEF Return, Goto, At, TypeOK
  <1>2. \A j \in Inodes \ {i} : Bystander(j) /\ quota'[j] = quota[j]
    BY <1>1 DEF Bystander
  <1>3. RangeInv(i) /\ af[i].got \in Nat /\ af[i].start \in Int /\ af[i].count \in Nat
    BY DEF AccountsInv, TypeOK, AllocFrame
  <1>4. af'[i].count = 0 /\ ff'[i].freed = 0 /\ ff[i].freed = 0
    BY <1>1, <1>3 DEF NoAlloc, RangeInv, NothingLeft
  <1>5. AllWeight(i) = af[i].got
    BY <1>1, <1>3, <1>4 DEF AllWeight, Unreturned, Unfreed
  <1>6. IsFiniteSet(run) /\ Cardinality(run) = af[i].got
    <2>1. PICK b \in Int, n \in Nat : b = af[i].start /\ n = af[i].got
      BY <1>3
    <2>2. IsFiniteSet(b .. b + n - 1) /\ Cardinality(b .. b + n - 1) = n
      BY FS_Interval
    <2>3. QED
      BY <2>1, <2>2 DEF Run
  <1>7. owned[i] \cap run = {}
    <2>1. InHand(i) = run
      BY <1>1 DEF InHand, Claimed, ToClear
    <2>2. QED
      BY <2>1 DEF HeldInv, HandsInv
  <1> HIDE DEF run
  <1>8. IsFiniteSet(owned'[i]) /\ Cardinality(owned'[i]) = Cardinality(owned[i]) + af[i].got
    <2>1. IsFiniteSet(owned[i]) /\ Cardinality(owned[i]) \in Nat
      BY <1>3, FS_CardinalityType DEF RangeInv
    <2>2. /\ IsFiniteSet(owned[i] \cup run)
          /\ Cardinality(owned[i] \cup run) =
                Cardinality(owned[i]) + Cardinality(run) - Cardinality(owned[i] \cap run)
      BY <1>6, <2>1, FS_Union
    <2>3. Cardinality(owned[i] \cap run) = 0
      BY <1>7, FS_EmptySet
    <2>4. QED
      BY <1>1, <1>3, <1>6, <2>1, <2>2, <2>3
  <1>9. QuotaMoves(i)
    <2>1. Charge(i) = Cardinality(owned[i]) + Cardinality(lost[i]) + af[i].count
      BY <1>1 DEF Charge, InFlight
    <2>2. Charge(i)' = Cardinality(owned[i]) + af[i].got + Cardinality(lost[i]) + 0
      BY <1>1, <1>4, <1>8 DEF Charge, InFlight
    <2>3. QED
      BY <1>1, <1>3, <2>1, <2>2, ChargeType DEF QuotaMoves
  <1>10. QED
    BY <1>1, <1>2, <1>3, <1>4, <1>5, <1>8, <1>9, EndAccounts DEF RangeInv

LEMMA OutAccounts ==
    ASSUME IsFiniteSet(Inodes), TypeOK, TypeOK', AccountsInv, NEW i \in Inodes, Out(i)
    PROVE  AccountsInv'
  <1>1. /\ UNCHANGED <<bitmap, bg_free, freeblocks, owned, lost, ff, fs_error>>
        /\ pc[i] \in {"nospace", "ioerror"} /\ pc'[i] = "idle"
        /\ af'[i] = NoAlloc /\ quota'[i] = quota[i] - af[i].count
        /\ \A j \in Inodes \ {i} : pc'[j] = pc[j] /\ af'[j] = af[j] /\ quota'[j] = quota[j]
    BY DEF Out, Goto, At, TypeOK
  <1>2. \A j \in Inodes \ {i} : Bystander(j) /\ quota'[j] = quota[j]
    BY <1>1 DEF Bystander
  <1>3. RangeInv(i) /\ af[i].count \in Nat /\ freeblocks \in Int
    BY DEF AccountsInv, TypeOK, AllocFrame
  <1>4. af'[i].count = 0 /\ ff'[i].freed = 0 /\ ff[i].freed = 0
    BY <1>1, <1>3 DEF NoAlloc, RangeInv, NothingLeft
  <1>5. AllWeight(i) = 0
    BY <1>1, <1>4 DEF AllWeight, Unreturned, Unfreed
  <1>6. QuotaMoves(i)
    <2>1. Charge(i) = Cardinality(owned[i]) + Cardinality(lost[i]) + af[i].count
      BY <1>1 DEF Charge, InFlight
    <2>2. Charge(i)' = Cardinality(owned[i]) + Cardinality(lost[i]) + 0
      BY <1>1, <1>4 DEF Charge, InFlight
    <2>3. QED
      BY <1>1, <1>3, <2>1, <2>2, ChargeType DEF QuotaMoves
  <1>7. freeblocks' = freeblocks - AllWeight(i)
    BY <1>1, <1>3, <1>5
  <1>8. QED
    BY <1>1, <1>2, <1>3, <1>4, <1>6, <1>7, EndAccounts DEF RangeInv

LEMMA FreeReturnAccounts ==
    ASSUME IsFiniteSet(Inodes), TypeOK, TypeOK', AccountsInv, NEW i \in Inodes, FreeReturn(i)
    PROVE  AccountsInv'
  <1>1. /\ UNCHANGED <<bitmap, bg_free, owned, lost, af, fs_error>>
        /\ pc[i] = "freed" /\ pc'[i] = "idle" /\ ff'[i] = NoFree
        /\ freeblocks' = freeblocks + ff[i].freed /\ quota'[i] = quota[i] - ff[i].freed
        /\ \A j \in Inodes \ {i} : pc'[j] = pc[j] /\ ff'[j] = ff[j] /\ quota'[j] = quota[j]
    BY DEF FreeReturn, Goto, At, TypeOK
  <1>2. \A j \in Inodes \ {i} : Bystander(j) /\ quota'[j] = quota[j]
    BY <1>1 DEF Bystander
  <1>3. RangeInv(i) /\ ff[i].freed \in Nat /\ freeblocks \in Int
    BY DEF AccountsInv, TypeOK, FreeFrame
  <1>4. af'[i].count = 0 /\ ff'[i].freed = 0
    BY <1>1, <1>3 DEF NoFree, RangeInv, NothingLeft
  <1>5. AllWeight(i) = 0 - ff[i].freed
    BY <1>1 DEF AllWeight, Unreturned, Unfreed
  <1>6. QuotaMoves(i)
    <2>1. Charge(i) = Cardinality(owned[i]) + Cardinality(lost[i]) + ff[i].freed
      BY <1>1 DEF Charge, InFlight
    <2>2. Charge(i)' = Cardinality(owned[i]) + Cardinality(lost[i]) + 0
      BY <1>1, <1>4 DEF Charge, InFlight
    <2>3. QED
      BY <1>1, <1>3, <2>1, <2>2, ChargeType DEF QuotaMoves
  <1>7. freeblocks' = freeblocks - AllWeight(i)
    BY <1>1, <1>3, <1>5
  <1>8. QED
    BY <1>1, <1>2, <1>3, <1>4, <1>6, <1>7, EndAccounts DEF RangeInv

LEMMA NewBlocksAccounts ==
    ASSUME IsFiniteSet(Inodes), TypeOK, TypeOK', AccountsInv, NEW i \in Inodes, NewBlocks(i)
    PROVE  AccountsInv'
  <1>1. PICK goal \in Goals, n \in 1 .. MaxCount, privileged \in BOOLEAN,
              has_free \in kr_has_free_blocks, kmalloc \in (IF IOErrors THEN BOOLEAN ELSE {TRUE}) :
           /\ quota' = [quota EXCEPT ![i] = @ + n]
           /\ af' = [af EXCEPT ![i] = EntryFrame(ClampedGoal(goal), n,
                                                 WindowSize(i, Fresh(i, kmalloc)))]
           /\ Goto(i, IF has_free \/ privileged THEN "retry" ELSE "nospace")
    BY DEF NewBlocks
  <1>2. UNCHANGED <<bitmap, bg_free, freeblocks, owned, lost, ff, fs_error>> /\ pc[i] = "idle"
    BY DEF NewBlocks, Enter, At
  <1>3. /\ pc'[i] \in {"retry", "nospace"} /\ quota'[i] = quota[i] + n /\ af'[i].count = n
        /\ \A j \in Inodes \ {i} : pc'[j] = pc[j] /\ af'[j] = af[j] /\ quota'[j] = quota[j]
    BY <1>1 DEF Goto, TypeOK, EntryFrame, NoAlloc
  <1>4. \A j \in Inodes \ {i} : Bystander(j) /\ quota'[j] = quota[j]
    BY <1>2, <1>3 DEF Bystander
  <1>5. RangeInv(i) /\ n \in Int
    BY DEF AccountsInv
  <1>6. RangeInv(i)'
    BY <1>2, <1>3, <1>5 DEF RangeInv, ClaimRange, FreeRange, NothingLeft
  <1>7. /\ \A g \in Groups : GroupWeight(i, g)' = GroupWeight(i, g)
        /\ AllWeight(i)' = AllWeight(i)
    BY <1>2, <1>3 DEF GroupWeight, AllWeight, ClaimedUncounted, ClearedUncounted,
                      Unreturned, Unfreed
  <1>8. QuotaMoves(i)
    <2>1. Charge(i) = Cardinality(owned[i]) + Cardinality(lost[i]) + 0
      BY <1>2, <1>5 DEF Charge, InFlight, RangeInv, NothingLeft
    <2>2. Charge(i)' = Cardinality(owned[i]) + Cardinality(lost[i]) + n
      BY <1>2, <1>3 DEF Charge, InFlight
    <2>3. QED
      BY <1>3, <1>5, <2>1, <2>2, ChargeType DEF QuotaMoves
  <1>9. "damage" \notin fs_error' => GroupCountsMove(i) /\ CounterMoves(i)
    BY <1>2, <1>4, <1>7, SameCounts
  <1>10. QED
    BY <1>2, <1>4, <1>6, <1>8, <1>9, AccountsStep

LEMMA FreeBlocksAccounts ==
    ASSUME IsFiniteSet(Inodes), TypeOK, TypeOK', AccountsInv, NEW i \in Inodes, FreeBlocks(i)
    PROVE  AccountsInv'
  <1>1. PICK b \in owned[i], n \in 1 .. Cardinality(owned[i]) :
           /\ Run(b, n) \subseteq owned[i]
           /\ owned' = [owned EXCEPT ![i] = @ \ Run(b, n)]
           /\ \/ /\ fs_error' = fs_error \cup {"damage"}
                 /\ lost' = [lost EXCEPT ![i] = @ \cup Run(b, n)] /\ UNCHANGED <<pc, ff>>
              \/ /\ ~(b < FirstDataBlock \/ b + n > BlocksCount)
                 /\ ff' = [ff EXCEPT ![i] = [NoFree EXCEPT !.block = b, !.count = n]]
                 /\ Goto(i, "free")
                 /\ UNCHANGED <<fs_error, lost>>
    BY DEF FreeBlocks, Complain
  <1>2. UNCHANGED <<bitmap, bg_free, freeblocks, quota, af>> /\ pc[i] = "idle"
    BY DEF FreeBlocks, Enter, At
  <1>3. \A j \in Inodes \ {i} : Bystander(j) /\ quota'[j] = quota[j]
    BY <1>1, <1>2 DEF Bystander, Goto, TypeOK
  <1>4. /\ RangeInv(i) /\ af[i].count = 0 /\ ff[i].freed = 0
        /\ IsFiniteSet(owned[i]) /\ IsFiniteSet(lost[i])
    BY <1>2 DEF AccountsInv, RangeInv, NothingLeft
  <1>5. b \in Int /\ n \in Nat /\ n >= 1 /\ Cardinality(owned[i]) \in Nat
    BY <1>4, FS_CardinalityType DEF TypeOK
  <1>6. IsFiniteSet(Run(b, n)) /\ Cardinality(Run(b, n)) = n
    BY <1>5, FS_Interval DEF Run
  <1>7. IsFiniteSet(owned'[i]) /\ Cardinality(owned'[i]) = Cardinality(owned[i]) - n
    <2>1. owned'[i] = owned[i] \ Run(b, n)
      BY <1>1 DEF TypeOK
    <2>2. owned[i] \cap Run(b, n) = Run(b, n)
      BY <1>1
    <2>3. /\ IsFiniteSet(owned[i] \ Run(b, n))
          /\ Cardinality(owned[i] \ Run(b, n)) =
                Cardinality(owned[i]) - Cardinality(owned[i] \cap Run(b, n))
      BY <1>4, FS_Difference
    <2>4. QED
      BY <1>6, <2>1, <2>2, <2>3
  <1>8. CASE /\ fs_error' = fs_error \cup {"damage"}
             /\ lost' = [lost EXCEPT ![i] = @ \cup Run(b, n)] /\ UNCHANGED <<pc, ff>>
    <2>1. lost'[i] = lost[i] \cup Run(b, n)
      BY <1>8 DEF TypeOK
    <2>2. IsFiniteSet(lost'[i])
      <3>1. PICK A, B : A = lost[i] /\ B = Run(b, n) /\ IsFiniteSet(A) /\ IsFiniteSet(B)
        BY <1>4, <1>6
      <3>2. IsFiniteSet(A \cup B)
        BY ONLY <3>1, FS_Union, Zenon
      <3>3. QED
        BY <2>1, <3>1, <3>2
    <2>3. RangeInv(i)'
      BY <1>2, <1>4, <1>7, <1>8, <2>2 DEF RangeInv, ClaimRange, FreeRange, NothingLeft
    <2>4. QED
      BY <1>3, <1>8, <2>3, AccountsStep
  <1>9. CASE /\ ~(b < FirstDataBlock \/ b + n > BlocksCount)
             /\ ff' = [ff EXCEPT ![i] = [NoFree EXCEPT !.block = b, !.count = n]]
             /\ Goto(i, "free")
             /\ UNCHANGED <<fs_error, lost>>
    <2>1. /\ pc'[i] = "free" /\ ff'[i].block = b /\ ff'[i].count = n
          /\ ff'[i].overflow = 0 /\ ff'[i].freed = 0
      BY <1>9 DEF Goto, TypeOK, NoFree
    <2>2. RangeInv(i)'
      <3>1. FreeRange(i)'
        BY <1>5, <1>9, <2>1, ConstantsAssumption DEF FreeRange
      <3>2. ClaimRange(i)' /\ NothingLeft(i)'
        BY <1>2, <1>4, <2>1 DEF ClaimRange, NothingLeft
      <3>3. QED
        BY <1>4, <1>7, <1>9, <3>1, <3>2 DEF RangeInv
    <2>3. /\ \A g \in Groups : GroupWeight(i, g)' = GroupWeight(i, g)
          /\ AllWeight(i)' = AllWeight(i)
      BY <1>2, <1>4, <2>1 DEF GroupWeight, AllWeight, ClaimedUncounted, ClearedUncounted,
                              Unreturned, Unfreed
    <2>4. QuotaMoves(i)
      <3>1. Charge(i) = Cardinality(owned[i]) + Cardinality(lost[i]) + 0
        BY <1>2, <1>4 DEF Charge, InFlight
      <3>2. Charge(i)' = (Cardinality(owned[i]) - n) + Cardinality(lost[i]) + (n + 0 + 0)
        BY <1>7, <1>9, <2>1 DEF Charge, InFlight
      <3>3. QED
        BY <1>2, <1>4, <1>5, <3>1, <3>2, ChargeType DEF QuotaMoves
    <2>5. "damage" \notin fs_error' => GroupCountsMove(i) /\ CounterMoves(i)
      BY <1>2, <1>3, <1>9, <2>3, SameCounts
    <2>6. QED
      BY <1>3, <1>9, <2>2, <2>4, <2>5, AccountsStep
  <1>10. QED
    BY <1>1, <1>8, <1>9

LEMMA FreeGroupAccounts ==
    ASSUME IsFiniteSet(Inodes), TypeOK, TypeOK', HeldInv, AccountsInv, NEW i \in Inodes,
           FreeGroup(i)
    PROVE  AccountsInv'
  <1> DEFINE f == ff[i]
             last == GroupLast(GroupOf(f.block))
             past == f.block + f.count - (last + 1)
             over == IF past > 0 THEN past ELSE 0
  <1>1. UNCHANGED <<bitmap, bg_free, freeblocks, quota, owned, af>> /\ pc[i] = "free"
    BY DEF FreeGroup, At
  <1>2. \/ /\ lost' = [lost EXCEPT ![i] = @ \cup Run(f.block, f.count)]
           /\ Goto(i, "freed") /\ ff' = ff
           /\ fs_error \subseteq fs_error'
        \/ /\ ff' = [ff EXCEPT ![i] = [f EXCEPT !.count = f.count - over,
                                                !.overflow = over, !.cleared = 0,
                                                !.group_freed = 0]]
           /\ Goto(i, "clear") /\ fs_error \subseteq fs_error' /\ UNCHANGED lost
    BY DEF FreeGroup, Complain
  <1>3. /\ f \in FreeFrame /\ f.block \in Int /\ f.count \in Int /\ f.freed \in Nat
    BY DEF TypeOK, FreeFrame
  <1>4. /\ RangeInv(i) /\ af[i].count = 0 /\ f.overflow = 0 /\ f.count >= 1
        /\ FirstDataBlock <= f.block /\ f.block + f.count <= BlocksCount
    <2>1. RangeInv(i)
      BY DEF AccountsInv
    <2>2. QED
      BY <1>1, <1>3, <2>1, ConstantsAssumption DEF RangeInv, FreeRange, NothingLeft
  <1>5. GroupOf(f.block) \in Groups /\ f.block <= last /\ last \in Int
    <2>1. f.block \in FirstDataBlock .. BlocksCount - 1
      BY <1>3, <1>4, ConstantsAssumption
    <2>2. QED
      BY <2>1, BlockInGroup, GroupBounds
  <1>6. /\ over \in Int /\ over >= 0 /\ f.count - over >= 1
        /\ f.block + (f.count - over) <= last + 1
    <2> HIDE DEF last
    <2>1. QED
      BY <1>3, <1>4, <1>5
  <1>7. \A j \in Inodes \ {i} : Bystander(j) /\ quota'[j] = quota[j]
    BY <1>1, <1>2 DEF Bystander, Goto, TypeOK
  <1> HIDE DEF over, past
  <1>8. CASE /\ lost' = [lost EXCEPT ![i] = @ \cup Run(f.block, f.count)]
             /\ Goto(i, "freed") /\ ff' = ff
             /\ fs_error \subseteq fs_error'
    <2>1. pc'[i] = "freed" /\ lost'[i] = lost[i] \cup Run(f.block, f.count)
      BY <1>8 DEF Goto, TypeOK
    <2>2. IsFiniteSet(Run(f.block, f.count)) /\ Cardinality(Run(f.block, f.count)) = f.count
      BY <1>3, <1>4, FS_Interval DEF Run
    <2>3. lost[i] \cap Run(f.block, f.count) = {}
      <3>1. InHand(i) = Run(f.block, f.count)
        BY <1>1 DEF InHand, Claimed, ToClear
      <3>2. QED
        BY <3>1 DEF HeldInv, HandsInv
    <2>4. IsFiniteSet(lost'[i]) /\ Cardinality(lost'[i]) = Cardinality(lost[i]) + f.count
      <3>1. IsFiniteSet(lost[i]) /\ Cardinality(lost[i]) \in Nat
        BY <1>4, FS_CardinalityType DEF RangeInv
      <3>2. Cardinality(lost[i] \cap Run(f.block, f.count)) = 0
        BY <2>3, FS_EmptySet
      <3>3. /\ IsFiniteSet(lost[i] \cup Run(f.block, f.count))
            /\ Cardinality(lost[i] \cup Run(f.block, f.count)) =
                  Cardinality(lost[i]) + Cardinality(Run(f.block, f.count))
                    - Cardinality(lost[i] \cap Run(f.block, f.count))
        BY <2>2, <3>1, FS_Union
      <3>4. QED
        BY <1>3, <2>1, <2>2, <3>1, <3>2, <3>3
    <2>5. RangeInv(i)'
      BY <1>1, <1>4, <2>1, <2>4 DEF RangeInv, ClaimRange, FreeRange, NothingLeft
    <2>6. /\ \A g \in Groups : GroupWeight(i, g)' = GroupWeight(i, g)
          /\ AllWeight(i)' = AllWeight(i)
      BY <1>1, <1>8, <2>1 DEF GroupWeight, AllWeight, ClaimedUncounted, ClearedUncounted,
                              Unreturned, Unfreed
    <2>7. QuotaMoves(i)
      <3>1. Charge(i) = Cardinality(owned[i]) + Cardinality(lost[i]) + (f.count + 0 + f.freed)
        BY <1>1, <1>4 DEF Charge, InFlight
      <3>2. Charge(i)' = Cardinality(owned[i]) + (Cardinality(lost[i]) + f.count) + f.freed
        BY <1>1, <1>8, <2>1, <2>4 DEF Charge, InFlight
      <3>3. QED
        BY <1>1, <1>3, <1>4, <3>1, <3>2, ChargeType DEF QuotaMoves
    <2>8. fs_error \subseteq fs_error'
      BY <1>8
    <2>9. "damage" \notin fs_error' => GroupCountsMove(i) /\ CounterMoves(i)
      BY <1>1, <1>7, <2>6, <2>8, SameCounts
    <2>10. QED
      BY <1>7, <2>5, <2>7, <2>8, <2>9, AccountsStep
  <1>9. CASE /\ ff' = [ff EXCEPT ![i] = [f EXCEPT !.count = f.count - over,
                                                  !.overflow = over, !.cleared = 0,
                                                  !.group_freed = 0]]
             /\ Goto(i, "clear") /\ fs_error \subseteq fs_error' /\ UNCHANGED lost
    <2>1. /\ pc'[i] = "clear"
          /\ ff'[i] = [f EXCEPT !.count = f.count - over, !.overflow = over,
                                !.cleared = 0, !.group_freed = 0]
      BY <1>9 DEF Goto, TypeOK
    <2>2. /\ ff'[i].block = f.block /\ ff'[i].count = f.count - over
          /\ ff'[i].overflow = over /\ ff'[i].cleared = 0
          /\ ff'[i].group_freed = 0 /\ ff'[i].freed = f.freed
      BY <1>3, <2>1 DEF FreeFrame
    <2>3. RangeInv(i)'
      <3>1. f.block + (f.count - over) + over <= BlocksCount
        BY <1>3, <1>4, <1>6
      <3>2. FreeRange(i)'
        <4>1. /\ FirstDataBlock <= ff'[i].block
              /\ ff'[i].count >= 1 /\ ff'[i].overflow >= 0
              /\ ff'[i].block + ff'[i].count + ff'[i].overflow <= BlocksCount
          BY <1>4, <1>6, <2>2, <3>1
        <4>2. ff'[i].block + ff'[i].count <= GroupLast(GroupOf(ff'[i].block)) + 1
          BY <1>6, <2>2
        <4>3. ff'[i].cleared <= ff'[i].count /\ ff'[i].group_freed = ff'[i].cleared
          BY <1>3, <1>6, <2>2
        <4>4. QED
          BY <2>1, <4>1, <4>2, <4>3 DEF FreeRange
      <3>3. ClaimRange(i)' /\ NothingLeft(i)'
        BY <1>1, <1>4, <2>1 DEF ClaimRange, NothingLeft
      <3>4. QED
        BY <1>1, <1>4, <1>9, <3>2, <3>3 DEF RangeInv
    <2>4. /\ \A g \in Groups : GroupWeight(i, g)' = GroupWeight(i, g)
          /\ AllWeight(i)' = AllWeight(i)
      <3>1. f.freed + 0 = f.freed
        BY <1>3
      <3>2. QED
        BY <1>1, <2>1, <2>2, <3>1 DEF GroupWeight, AllWeight, ClaimedUncounted,
                                      ClearedUncounted, Unreturned, Unfreed
    <2>5. QuotaMoves(i)
      <3>1. Charge(i) = Cardinality(owned[i]) + Cardinality(lost[i]) + (f.count + 0 + f.freed)
        BY <1>1, <1>4 DEF Charge, InFlight
      <3>2. Charge(i)' = Cardinality(owned[i]) + Cardinality(lost[i])
                            + ((f.count - over) + over + f.freed)
        BY <1>1, <1>9, <2>1, <2>2 DEF Charge, InFlight
      <3>3. QED
        BY <1>1, <1>3, <1>4, <1>6, <3>1, <3>2, ChargeType DEF QuotaMoves
    <2>6. "damage" \notin fs_error' => GroupCountsMove(i) /\ CounterMoves(i)
      BY <1>1, <1>7, <1>9, <2>4, SameCounts
    <2>7. QED
      BY <1>7, <1>9, <2>3, <2>5, <2>6, AccountsStep
  <1>10. QED
    BY <1>2, <1>8, <1>9

LEMMA ClearBitAccounts ==
    ASSUME IsFiniteSet(Inodes), TypeOK, TypeOK', AccountsInv, NEW i \in Inodes, ClearBit(i)
    PROVE  AccountsInv'
  <1> DEFINE f == ff[i]
             b == f.block + f.cleared
  <1>1. /\ UNCHANGED <<bg_free, freeblocks, quota, owned, lost, pc, af>> /\ pc[i] = "clear"
        /\ f.cleared < f.count /\ bitmap' = bitmap \ {b}
        /\ fs_error' = IF b \in bitmap THEN fs_error ELSE fs_error \cup {"damage"}
        /\ ff' = [ff EXCEPT ![i] = [f EXCEPT !.cleared = f.cleared + 1,
                     !.group_freed = IF b \in bitmap THEN f.group_freed + 1 ELSE f.group_freed]]
    BY DEF ClearBit, At
  <1>2. /\ f \in FreeFrame /\ f.block \in Int /\ f.count \in Int /\ f.overflow \in Int
        /\ f.cleared \in Nat /\ f.group_freed \in Nat /\ f.freed \in Nat
    BY DEF TypeOK, FreeFrame
  <1>3. /\ ff'[i].block = f.block /\ ff'[i].count = f.count /\ ff'[i].overflow = f.overflow
        /\ ff'[i].cleared = f.cleared + 1 /\ ff'[i].freed = f.freed
        /\ ff'[i].group_freed = IF b \in bitmap THEN f.group_freed + 1 ELSE f.group_freed
        /\ \A j \in Inodes \ {i} : ff'[j] = ff[j]
    BY <1>1, <1>2 DEF TypeOK, FreeFrame
  <1>4. \A j \in Inodes \ {i} : Bystander(j) /\ quota'[j] = quota[j]
    BY <1>1, <1>3 DEF Bystander
  <1>5. RangeInv(i) /\ FreeRange(i)
    BY DEF AccountsInv, RangeInv
  <1>6. RangeInv(i)'
    <2>1. f.cleared + 1 <= f.count
      BY <1>1, <1>2
    <2>2. "damage" \notin fs_error' => ff'[i].group_freed = ff'[i].cleared
      BY <1>1, <1>3, <1>5 DEF FreeRange
    <2>3. FreeRange(i)'
      BY <1>1, <1>3, <1>5, <2>1, <2>2 DEF FreeRange
    <2>4. ClaimRange(i)' /\ NothingLeft(i)'
      BY <1>1, <1>5 DEF ClaimRange, NothingLeft, RangeInv
    <2>5. QED
      BY <1>1, <1>5, <2>3, <2>4 DEF RangeInv
  <1>7. QuotaMoves(i)
    <2>1. Charge(i)' = Charge(i)
      BY <1>1, <1>3 DEF Charge, InFlight
    <2>2. QED
      BY <1>1, <1>5, <2>1, ChargeType DEF QuotaMoves
  <1>8. "damage" \notin fs_error' => GroupCountsMove(i) /\ CounterMoves(i)
    <2> SUFFICES ASSUME "damage" \notin fs_error' PROVE GroupCountsMove(i) /\ CounterMoves(i)
      OBVIOUS
    <2>1. "damage" \notin fs_error /\ b \in bitmap
      BY <1>1
    <2>2. f.block \in FirstDataBlock .. BlocksCount - 1
      BY <1>1, <1>2, <1>5, ConstantsAssumption DEF FreeRange
    <2>3. PICK h \in Groups : h = GroupOf(f.block)
      BY <2>2, BlockInGroup
    <2>4. b \in GroupBits(h)
      <3>1. GroupFirst(h) <= f.block /\ GroupFirst(h) \in Nat /\ GroupLast(h) \in Nat
        BY <2>2, <2>3, BlockInGroup, GroupBounds
      <3>2. f.block + f.count <= GroupLast(h) + 1
        BY <1>1, <1>5, <2>3 DEF FreeRange
      <3>3. QED
        BY <1>1, <1>2, <3>1, <3>2 DEF GroupBits
    <2> HIDE DEF b
    <2>5. BitClearedIn(h)
      BY <1>1, <2>1, <2>4, BitClearedCounts
    <2>6. /\ \A g \in Groups : FreeBits(g)' = IF g = h THEN FreeBits(g) - (-1) ELSE FreeBits(g)
          /\ AllFreeBits' = AllFreeBits - (-1)
      <3>1. \A g \in Groups : FreeBits(g) \in Nat /\ AllFreeBits \in Nat
        BY WeightTypes DEF WeightsAreNumbers
      <3>2. QED
        BY <2>5, <3>1 DEF BitClearedIn
    <2>7. ASSUME NEW g \in Groups
          PROVE  GroupWeight(i, g)' = IF g = h THEN GroupWeight(i, g) + (-1) ELSE GroupWeight(i, g)
      <3>1. ClaimedUncounted(i, g) = 0 /\ ClaimedUncounted(i, g)' = 0
        BY <1>1 DEF ClaimedUncounted
      <3>2. /\ ClearedUncounted(i, g) = IF g = h THEN f.group_freed ELSE 0
            /\ ClearedUncounted(i, g)' = IF g = h THEN f.group_freed + 1 ELSE 0
        BY <1>1, <1>3, <2>1, <2>3 DEF ClearedUncounted
      <3>3. QED
        BY <1>2, <3>1, <3>2 DEF GroupWeight
    <2>8. AllWeight(i)' = AllWeight(i) + (-1)
      <3>1. Unreturned(i) = 0 /\ Unreturned(i)' = 0
        BY <1>1 DEF Unreturned
      <3>2. /\ Unfreed(i) = f.freed + f.group_freed
            /\ Unfreed(i)' = f.freed + (f.group_freed + 1)
        BY <1>1, <1>3, <2>1 DEF Unfreed
      <3>3. QED
        BY <1>2, <3>1, <3>2 DEF AllWeight
    <2>9. -1 \in {-1, 1}
      OBVIOUS
    <2>10. QED
      BY <1>1, <1>4, <2>1, <2>6, <2>7, <2>8, <2>9, FlipCounts
  <1>9. QED
    BY <1>1, <1>4, <1>6, <1>7, <1>8, AccountsStep

LEMMA FreeAdjustAccounts ==
    ASSUME IsFiniteSet(Inodes), TypeOK, TypeOK', AccountsInv, NEW i \in Inodes, FreeAdjust(i)
    PROVE  AccountsInv'
  <1> DEFINE f == ff[i]
  <1>1. /\ UNCHANGED <<bitmap, freeblocks, quota, owned, lost, af, fs_error>>
        /\ pc[i] = "clear" /\ f.cleared = f.count
        /\ bg_free' = [bg_free EXCEPT ![GroupOf(f.block)] = U16(@ + f.group_freed)]
        /\ \A j \in Inodes \ {i} : pc'[j] = pc[j] /\ ff'[j] = ff[j]
    BY DEF FreeAdjust, At, Goto, TypeOK
  <1>2. /\ f.block \in Int /\ f.count \in Int /\ f.overflow \in Int
        /\ f.cleared \in Nat /\ f.group_freed \in Nat /\ f.freed \in Nat
    BY DEF TypeOK, FreeFrame
  <1>3. /\ ff'[i].block = f.block + f.count /\ ff'[i].count = f.overflow
        /\ ff'[i].overflow = 0 /\ ff'[i].freed = f.freed + f.group_freed
    BY DEF FreeAdjust, TypeOK, NoFree
  <1>4. pc'[i] = IF f.overflow > 0 THEN "free" ELSE "freed"
    BY DEF FreeAdjust, Goto, TypeOK
  <1>5. \A j \in Inodes \ {i} : Bystander(j) /\ quota'[j] = quota[j]
    BY <1>1 DEF Bystander
  <1>6. RangeInv(i) /\ FreeRange(i) /\ NothingLeft(i)
    BY DEF AccountsInv, RangeInv
  <1>7. /\ FirstDataBlock <= f.block /\ f.count >= 1 /\ f.overflow >= 0
        /\ f.block + f.count + f.overflow <= BlocksCount /\ af[i].count = 0
        /\ "damage" \notin fs_error => f.group_freed = f.count
    BY <1>1, <1>6 DEF FreeRange, NothingLeft
  <1>8. RangeInv(i)'
    <2>1. FreeRange(i)'
      <3>1. CASE f.overflow > 0
        <4>1. /\ FirstDataBlock <= f.block + f.count /\ f.overflow >= 1
              /\ f.block + f.count + f.overflow + 0 <= BlocksCount
          BY <1>2, <1>7, <3>1, ConstantsAssumption
        <4>2. QED
          BY <1>3, <1>4, <3>1, <4>1 DEF FreeRange
      <3>2. CASE ~(f.overflow > 0)
        BY <1>4, <3>2 DEF FreeRange
      <3>3. QED
        BY <3>1, <3>2
    <2>2. ClaimRange(i)' /\ NothingLeft(i)'
      BY <1>1, <1>4, <1>7 DEF ClaimRange, NothingLeft
    <2>3. QED
      BY <1>1, <1>6, <2>1, <2>2 DEF RangeInv
  <1>9. CounterMoves(i)
    <2>1. AllWeight(i) = 0 - (f.freed + f.group_freed)
      BY <1>1 DEF AllWeight, Unreturned, Unfreed
    <2>2. AllWeight(i)' = 0 - (f.freed + f.group_freed)
      BY <1>3, <1>4 DEF AllWeight, Unreturned, Unfreed
    <2>3. freeblocks' = freeblocks + 0 /\ AllWeight(i)' = AllWeight(i) + 0
      BY <1>1, <1>2, <2>1, <2>2 DEF TypeOK
    <2>4. QED
      BY <1>1, <1>5, <2>3, CounterAdjust
  <1>10. "damage" \notin fs_error' => GroupCountsMove(i)
    <2> SUFFICES ASSUME "damage" \notin fs_error' PROVE GroupCountsMove(i)
      OBVIOUS
    <2>1. f.block \in FirstDataBlock .. BlocksCount - 1
      BY <1>2, <1>7, ConstantsAssumption
    <2>2. PICK h \in Groups : h = GroupOf(f.block)
      BY <2>1, BlockInGroup
    <2>3. /\ bg_free'[h] = U16(bg_free[h] + f.group_freed)
          /\ \A g \in Groups \ {h} : bg_free'[g] = bg_free[g]
      BY <1>1, <2>2 DEF TypeOK
    <2>4. \A g \in Groups : GroupWeight(i, g) = IF g = h THEN 0 - f.group_freed ELSE 0 - 0
      BY <1>1, <2>2 DEF GroupWeight, ClaimedUncounted, ClearedUncounted
    <2>5. \A g \in Groups : GroupWeight(i, g)' = 0 - 0
      BY <1>4 DEF GroupWeight, ClaimedUncounted, ClearedUncounted
    <2>6. /\ GroupWeight(i, h)' = GroupWeight(i, h) + f.group_freed
          /\ \A g \in Groups \ {h} : GroupWeight(i, g)' = GroupWeight(i, g)
      BY <1>2, <2>4, <2>5
    <2>7. "damage" \notin fs_error /\ f.group_freed \in Int
      BY <1>1, <1>2
    <2>8. QED
      BY <1>1, <1>5, <2>3, <2>6, <2>7, GroupAdjust
  <1>11. "damage" \notin fs_error' => QuotaMoves(i)
    <2> SUFFICES ASSUME "damage" \notin fs_error' PROVE QuotaMoves(i)
      OBVIOUS
    <2>1. Charge(i) = Cardinality(owned[i]) + Cardinality(lost[i])
                        + (f.count + f.overflow + f.freed)
      BY <1>1 DEF Charge, InFlight
    <2>2. InFlight(i)' = f.overflow + f.freed + f.count
      <3>1. f.group_freed = f.count
        BY <1>1, <1>7
      <3>2. CASE f.overflow > 0
        <4>1. InFlight(i)' = f.overflow + 0 + (f.freed + f.group_freed)
          BY <1>3, <1>4, <3>2 DEF InFlight
        <4>2. QED
          BY <1>2, <3>1, <4>1
      <3>3. CASE ~(f.overflow > 0)
        <4>1. InFlight(i)' = f.freed + f.group_freed
          BY <1>3, <1>4, <3>3 DEF InFlight
        <4>2. QED
          BY <1>2, <1>7, <3>1, <3>3, <4>1
      <3>4. QED
        BY <3>2, <3>3
    <2>3. Charge(i)' = Cardinality(owned[i]) + Cardinality(lost[i])
                         + (f.overflow + f.freed + f.count)
      BY <1>1, <2>2 DEF Charge
    <2>4. QED
      BY <1>1, <1>2, <1>6, <2>1, <2>3, ChargeType DEF QuotaMoves
  <1>12. QED
    BY <1>1, <1>5, <1>8, <1>9, <1>10, <1>11, AccountsStep

-----------------------------------------------------------------------------
(* The theorem.                                                            *)

LEMMA TotalOfNothing ==
    ASSUME NEW f, \A i \in Inodes : f[i] = 0
    PROVE  Total(f) = 0
  <1>1. \A i \in Inodes : {i} \X (1 .. f[i]) = {}
    OBVIOUS
  <1>2. UNION {{i} \X (1 .. f[i]) : i \in Inodes} = {}
    BY <1>1
  <1>3. QED
    BY <1>2, FS_EmptySet DEF Total

LEMMA InitAccounts == SaneCounts /\ Init => AccountsInv
  <1> SUFFICES ASSUME SaneCounts, Init PROVE AccountsInv
    OBVIOUS
  <1>1. \A i \in Inodes : /\ pc[i] = "idle" /\ af[i].count = 0 /\ ff[i].freed = 0
                          /\ owned[i] = InitOwned[i] /\ lost[i] = {}
                          /\ quota[i] = Cardinality(InitOwned[i])
    BY DEF Init, NoAlloc, NoFree
  <1>2. IsFiniteSet({}) /\ Cardinality({}) = 0
    BY FS_EmptySet
  <1>3. \A i \in Inodes : IsFiniteSet(owned[i]) /\ Cardinality(owned[i]) \in Nat
    BY <1>1, ConstantsAssumption, FS_CardinalityType
  <1>4. \A i \in Inodes : RangeInv(i)
    BY <1>1, <1>2, <1>3 DEF RangeInv, ClaimRange, FreeRange, NothingLeft
  <1>5. ASSUME NEW i \in Inodes
        PROVE  quota[i] = Cardinality(owned[i]) + Cardinality(lost[i]) + InFlight(i)
    <2>1. InFlight(i) = 0
      BY <1>1 DEF InFlight
    <2>2. quota[i] = Cardinality(owned[i]) /\ Cardinality(lost[i]) = 0
      BY <1>1, <1>2
    <2>3. QED
      BY <1>3, <2>1, <2>2
  <1>6. /\ \A g \in Groups : Total([i \in Inodes |-> ClaimedUncounted(i, g)]) = 0
        /\ \A g \in Groups : Total([i \in Inodes |-> ClearedUncounted(i, g)]) = 0
        /\ Total([i \in Inodes |-> Unreturned(i)]) = 0
        /\ Total([i \in Inodes |-> Unfreed(i)]) = 0
    BY <1>1, TotalOfNothing DEF ClaimedUncounted, ClearedUncounted, Unreturned, Unfreed
  <1>7. bitmap = InitBitmap
    BY DEF Init
  <1>8. ASSUME NEW g \in Groups PROVE bg_free[g] = U16(ExpectedFree(g))
    <2>1. GroupBits(g) \subseteq Bits
      BY GroupsApart
    <2>2. GroupBits(g) \ (InitBitmap \cup MetadataBlocks(g)) = GroupBits(g) \ bitmap
      BY <1>7, <2>1 DEF SaneCounts
    <2>3. bg_free[g] = Cardinality(GroupBits(g) \ bitmap)
      BY <2>2 DEF Init, GroupBits
    <2>4. /\ IsFiniteSet(GroupBits(g)) /\ Cardinality(GroupBits(g)) = BlocksPerGroup
      <3>1. GroupFirst(g) \in Int /\ GroupLast(g) \in Int
        BY GroupBounds
      <3>2. /\ IsFiniteSet(GroupBits(g))
            /\ Cardinality(GroupBits(g)) = IF GroupFirst(g) > GroupLast(g) THEN 0
                                           ELSE GroupLast(g) - GroupFirst(g) + 1
        BY <3>1, FS_Interval DEF GroupBits
      <3>3. QED
        BY <3>1, <3>2, GroupBounds, ConstantsAssumption DEF GroupLast
    <2>5. /\ Cardinality(GroupBits(g) \ bitmap) \in Nat
          /\ Cardinality(GroupBits(g) \ bitmap) <= BlocksPerGroup
      <3>1. GroupBits(g) \ bitmap \in SUBSET GroupBits(g)
        OBVIOUS
      <3>2. QED
        BY <2>4, <3>1, FS_Subset, FS_CardinalityType
    <2>6. ExpectedFree(g) = Cardinality(GroupBits(g) \ bitmap)
      BY <1>6, <2>5 DEF ExpectedFree
    <2>7. QED
      BY <2>3, <2>5, <2>6, ConstantsAssumption DEF U16, SaneCounts
  <1>9. freeblocks = ExpectedFreeBlocks
    <2>1. Bits \ (InitBitmap \cup UNION {MetadataBlocks(g) : g \in Groups}) = Bits \ bitmap
      BY <1>7 DEF SaneCounts
    <2>2. freeblocks = Cardinality(Bits \ bitmap)
      BY <2>1 DEF Init
    <2>3. 0 \in Groups
      BY ConstantsAssumption DEF Groups
    <2>4. IsFiniteSet(Bits \ bitmap)
      BY <2>3, BitSetsFinite, FS_Difference
    <2>5. Cardinality(Bits \ bitmap) \in Nat
      BY <2>4, FS_CardinalityType
    <2>6. QED
      BY <1>6, <2>2, <2>5 DEF ExpectedFreeBlocks
  <1>10. QED
    BY <1>4, <1>5, <1>8, <1>9 DEF AccountsInv, AccountsAgree, FreeCountsAgree, QuotaAgrees

LEMMA NextAccounts ==
    SaneCounts /\ TypeOK /\ TypeOK' /\ HeldInv /\ AccountsInv /\ [Next]_vars => AccountsInv'
  <1> SUFFICES ASSUME SaneCounts, TypeOK, TypeOK', HeldInv, AccountsInv, [Next]_vars
               PROVE  AccountsInv'
    OBVIOUS
  <1>1. IsFiniteSet(Inodes)
    BY DEF SaneCounts
  <1>2. ASSUME NEW i \in Inodes, Call(i) \/ AllocStep(i) \/ FreeStep(i)
        PROVE  AccountsInv'
    <2>1. ASSUME Quiet(i), ClaimRange(i)' PROVE AccountsInv'
      BY <1>1, <2>1, QuietAccounts
    <2>2. QED
      BY <1>1, <1>2, <2>1, NextCases, SearchQuiet, TryToAllocateQuiet, NewBlocksAccounts,
         FreeBlocksAccounts, ClaimFirstAccounts, ClaimMoreAccounts, AllocatedAccounts,
         ReturnAccounts, OutAccounts, FreeGroupAccounts, ClearBitAccounts,
         FreeAdjustAccounts, FreeReturnAccounts
  <1>3. CASE UNCHANGED vars
    <2>1. UNCHANGED <<bitmap, bg_free, freeblocks, quota, owned, lost, fs_error, pc, af, ff>>
      BY <1>3 DEF vars, disk
    <2>2. ASSUME NEW i \in Inodes PROVE RangeInv(i)'
      <3>1. RangeInv(i)
        BY DEF AccountsInv
      <3>2. QED
        BY <2>1, <3>1 DEF RangeInv, ClaimRange, FreeRange, NothingLeft
    <2>3. \A i \in Inodes : InFlight(i)' = InFlight(i)
      BY <2>1 DEF InFlight
    <2>4. QuotaAgrees'
      BY <2>1, <2>3 DEF AccountsInv, AccountsAgree, QuotaAgrees
    <2>5. FreeCountsAgree'
      BY <2>1 DEF AccountsInv, AccountsAgree, FreeCountsAgree, ExpectedFree,
                  ExpectedFreeBlocks, ClaimedUncounted, ClearedUncounted, Unreturned, Unfreed,
                  Total
    <2>6. QED
      BY <2>2, <2>4, <2>5 DEF AccountsInv, AccountsAgree
  <1>4. QED
    BY <1>2, <1>3 DEF Next

\* On a filesystem that was sane when it was mounted, and until kr_error reports damage,
\* every bg_free_blocks_count is its group's number of clear bits up to the calls between
\* a bit and group_adjust_blocks (as a 16-bit number), s_freeblocks_counter is the number of
\* all clear bits up to the calls between a bit and the counter, and every inode is charged
\* for its blocks and its call in progress: whatever kr_new_blocks and kr_free_blocks
\* interleave, however many groups a freed run spans, and wherever a read fails.
THEOREM CountsAndQuotaAgree == SaneMount /\ SaneCounts => (Spec => []AccountsAgree)
  <1> SUFFICES ASSUME SaneMount, SaneCounts PROVE Spec => []AccountsAgree
    OBVIOUS
  <1>1. Init => HeldInv /\ AccountsInv
    BY InitHeld, InitAccounts
  <1>2. TypeOK /\ TypeOK' /\ HeldInv /\ AccountsInv /\ [Next]_vars => HeldInv' /\ AccountsInv'
    BY NextHeld, NextAccounts
  <1>3. AccountsInv => AccountsAgree
    BY DEF AccountsInv
  <1>4. QED
    BY <1>1, <1>2, <1>3, TypeCorrect, PTL DEF Spec

-----------------------------------------------------------------------------
(***************************************************************************)
(* Metadata on a damaged image.  Nothing is assumed of the bitmaps and the *)
(* block maps here, so neither HeldInv nor AccountsInv holds; what is left *)
(* is where a call may be, and what its last test of the zone said.        *)
(***************************************************************************)

\* A call's run lies in one group, and a run that is about to be mapped or whose bits are
\* being cleared passed the test of that group's zone.
ZoneInv(i) ==
    /\ ClaimRange(i)
    /\ pc[i] \in {"more", "allocated", "percpu"} =>
          /\ GroupFirst(af[i].group) <= af[i].start /\ af[i].got >= 1
          /\ af[i].start + af[i].got <= GroupLast(af[i].group) + 1
    /\ pc[i] = "percpu" => ~InSystemZone(af[i].group, af[i].start, af[i].got)
    /\ pc[i] \in {"free", "clear"} =>
          /\ FirstDataBlock <= ff[i].block
          /\ ff[i].count >= 1 /\ ff[i].overflow >= 0
          /\ ff[i].block + ff[i].count + ff[i].overflow <= BlocksCount
    /\ pc[i] = "free" => ff[i].overflow = 0
    /\ pc[i] = "clear" =>
          /\ ff[i].block + ff[i].count <= GroupLast(GroupOf(ff[i].block)) + 1
          /\ ff[i].cleared <= ff[i].count
          /\ ~InSystemZone(GroupOf(ff[i].block), ff[i].block, ff[i].count)

\* A run of blocks of one group that fails the four tests has no block of S.
TestsKeepOff(S) ==
    \A g \in Groups : \A b, n \in Int :
        (/\ n >= 1 /\ GroupFirst(g) <= b /\ b + n <= GroupLast(g) + 1
         /\ ~InSystemZone(g, b, n)) => Run(b, n) \cap S = {}

\* The last group does not end before the filesystem does.
LEMMA GroupEndInGroup ==
    ASSUME NEW g \in Groups
    PROVE  GroupEnd(g) \in Int /\ GroupEnd(g) <= GroupLast(g)
  <1>1. BlocksCount - 1 \in FirstDataBlock .. BlocksCount - 1
    BY ConstantsAssumption, GroupsAssumption
  <1>2. PICK h \in Groups : h = GroupOf(BlocksCount - 1)
    BY <1>1, GroupsAssumption
  <1>3. BlocksCount - 1 <= GroupLast(h)
    BY <1>1, <1>2, BlockInGroup
  <1>4. GroupLast(h) \in Int /\ GroupLast(h) <= GroupLast(GroupsCount - 1)
    BY GroupBounds
  <1>5. GroupLast(g) \in Int /\ GroupLast(GroupsCount - 1) \in Int
    BY GroupBounds, ConstantsAssumption DEF Groups
  <1>6. QED
    BY <1>3, <1>4, <1>5, ConstantsAssumption DEF GroupEnd

\* A group's metadata are in the group, so a run of group g meets only that of g.
LEMMA MetadataOfOwnGroup ==
    ASSUME DescriptorsChecked, NEW g \in Groups, NEW x \in GroupBits(g),
           NEW h \in Groups, x \in MetadataBlocks(h)
    PROVE  h = g
  <1>1. x \in GroupFirst(h) .. GroupEnd(h)
    BY DEF DescriptorsChecked
  <1>2. x \in GroupBits(h)
    BY <1>1, GroupEndInGroup, GroupBounds DEF GroupBits
  <1>3. QED
    BY <1>2, GroupsApart

\* The tests of the zone suffice for the bitmaps.
LEMMA TestsKeepOffBitmaps ==
    ASSUME DescriptorsChecked
    PROVE  TestsKeepOff(AllBitmaps)
  <1> SUFFICES ASSUME NEW g \in Groups, NEW b \in Int, NEW n \in Int, n >= 1,
                      GroupFirst(g) <= b, b + n <= GroupLast(g) + 1, ~InSystemZone(g, b, n),
                      NEW x \in Run(b, n), NEW h \in Groups,
                      x \in {Metadata[h].block_bitmap, Metadata[h].inode_bitmap}
               PROVE  FALSE
    BY DEF TestsKeepOff, AllBitmaps
  <1>1. x \in Int /\ b <= x /\ x <= b + n - 1
    BY DEF Run
  <1>2. x \in GroupBits(g)
    BY <1>1, GroupBounds DEF GroupBits
  <1>3. h = g
    BY <1>2, MetadataOfOwnGroup DEF MetadataBlocks
  <1>4. QED
    BY <1>1, <1>3 DEF InSystemZone, in_range

\* They suffice for all metadata where every inode table lies behind a bitmap: a run that
\* covers a whole table starts outside it and ends outside it.
LEMMA TestsKeepOffMetadata ==
    ASSUME DescriptorsChecked, TablesBehindBitmaps
    PROVE  TestsKeepOff(AllMetadata)
  <1> SUFFICES ASSUME NEW g \in Groups, NEW b \in Int, NEW n \in Int, n >= 1,
                      GroupFirst(g) <= b, b + n <= GroupLast(g) + 1, ~InSystemZone(g, b, n),
                      NEW x \in Run(b, n), NEW h \in Groups, x \in MetadataBlocks(h)
               PROVE  FALSE
    BY DEF TestsKeepOff, AllMetadata
  <1>1. x \in Int /\ b <= x /\ x <= b + n - 1
    BY DEF Run
  <1>2. x \in GroupBits(g)
    BY <1>1, GroupBounds DEF GroupBits
  <1>3. h = g
    BY <1>2, MetadataOfOwnGroup
  <1>4. PICK bb \in Int, ib \in Int, t \in Int, k \in Nat :
           /\ bb = Metadata[g].block_bitmap /\ ib = Metadata[g].inode_bitmap
           /\ t = Metadata[g].inode_table /\ k = Metadata[g].itb
    BY DEF DescriptorsChecked, DescriptorNumbers
  <1>5. t - 1 \in {bb, ib}
    BY <1>4 DEF TablesBehindBitmaps
  <1>6. x \in {bb, ib} \cup (t .. t + k - 1)
    BY <1>3, <1>4 DEF MetadataBlocks
  <1>7. /\ ~(b <= bb /\ bb <= b + n - 1) /\ ~(b <= ib /\ ib <= b + n - 1)
        /\ ~(t <= b /\ b <= t + k - 1)
    BY <1>4 DEF InSystemZone, in_range
  <1>8. QED
    BY <1>1, <1>4, <1>5, <1>6, <1>7

LEMMA ZoneStep ==
    ASSUME NEW i \in Inodes, \A j \in Inodes : ZoneInv(j),
           \A j \in Inodes \ {i} : pc'[j] = pc[j] /\ af'[j] = af[j] /\ ff'[j] = ff[j],
           ZoneInv(i)'
    PROVE  \A j \in Inodes : ZoneInv(j)'
  <1> SUFFICES ASSUME NEW j \in Inodes, j # i PROVE ZoneInv(j)'
    OBVIOUS
  <1>1. ZoneInv(j) /\ pc'[j] = pc[j] /\ af'[j] = af[j] /\ ff'[j] = ff[j]
    OBVIOUS
  <1>2. QED
    BY <1>1 DEF ZoneInv, ClaimRange

\* The labels at which ZoneInv says nothing.
NoRun == {"idle", "retry", "scan", "rsv", "check", "renew", "try", "nospace", "ioerror", "freed"}

LEMMA NoRunLabel ==
    ASSUME NEW i, pc'[i] \in NoRun
    PROVE  ZoneInv(i)'
  BY DEF ZoneInv, ClaimRange, NoRun

LEMMA QuietZone ==
    ASSUME NEW i \in Inodes, \A j \in Inodes : ZoneInv(j), Quiet(i), ClaimRange(i)'
    PROVE  \A j \in Inodes : ZoneInv(j)'
  <1>1. ZoneInv(i)'
    BY DEF Quiet, ZoneInv, Busy
  <1>2. QED
    BY <1>1, ZoneStep DEF Quiet

LEMMA ClaimFirstZone ==
    ASSUME TypeOK, NEW i \in Inodes, \A j \in Inodes : ZoneInv(j), ClaimFirst(i)
    PROVE  \A j \in Inodes : ZoneInv(j)'
  <1> DEFINE b == af[i].start
  <1>1. pc[i] = "claim" /\ UNCHANGED ff
    BY DEF ClaimFirst, At
  <1>2. /\ af[i] \in AllocFrame /\ b \in Int /\ af[i].end \in Int /\ af[i].group \in Groups
    BY DEF TypeOK, AllocFrame
  <1>3. ZoneInv(i) /\ ClaimRange(i)
    BY DEF ZoneInv
  <1>4. \/ TryFailed(i)
        \/ b + 1 < af[i].end /\ af' = [af EXCEPT ![i].start = b + 1] /\ pc' = pc
        \/ af' = [af EXCEPT ![i].got = 1] /\ Goto(i, "more")
    BY <1>2 DEF ClaimFirst
  <1>5. CASE TryFailed(i)
    BY <1>1, <1>5, TryFailedQuiet, NoRunLabel, ZoneStep DEF NoRun
  <1>6. CASE b + 1 < af[i].end /\ af' = [af EXCEPT ![i].start = b + 1] /\ pc' = pc
    <2>1. /\ af'[i].start = b + 1 /\ af'[i].end = af[i].end /\ af'[i].group = af[i].group
          /\ \A j \in Inodes \ {i} : af'[j] = af[j]
      BY <1>2, <1>6 DEF TypeOK, AllocFrame
    <2>2. ClaimRange(i)'
      BY <1>1, <1>2, <1>3, <1>6, <2>1, GroupBounds DEF ClaimRange
    <2>3. ZoneInv(i)'
      BY <1>1, <1>6, <2>2 DEF ZoneInv
    <2>4. QED
      BY <1>1, <1>6, <2>1, <2>3, ZoneStep
  <1>7. CASE af' = [af EXCEPT ![i].got = 1] /\ Goto(i, "more")
    <2>1. /\ af'[i].start = b /\ af'[i].end = af[i].end /\ af'[i].group = af[i].group
          /\ af'[i].got = 1 /\ pc'[i] = "more"
          /\ \A j \in Inodes \ {i} : af'[j] = af[j] /\ pc'[j] = pc[j]
      BY <1>2, <1>7 DEF TypeOK, AllocFrame, Goto
    <2>2. GroupFirst(af[i].group) <= b /\ b + 1 <= GroupLast(af[i].group) + 1
      BY <1>1, <1>2, <1>3, GroupBounds DEF ClaimRange
    <2>3. ClaimRange(i)'
      BY <1>1, <1>3, <2>1 DEF ClaimRange
    <2>4. ZoneInv(i)'
      BY <2>1, <2>2, <2>3 DEF ZoneInv
    <2>5. QED
      BY <1>1, <2>1, <2>4, ZoneStep
  <1>8. QED
    BY <1>4, <1>5, <1>6, <1>7

LEMMA ClaimMoreZone ==
    ASSUME TypeOK, NEW i \in Inodes, \A j \in Inodes : ZoneInv(j), ClaimMore(i)
    PROVE  \A j \in Inodes : ZoneInv(j)'
  <1>1. pc[i] = "more" /\ UNCHANGED ff
    BY DEF ClaimMore, At
  <1>2. /\ af[i] \in AllocFrame /\ af[i].start \in Int /\ af[i].end \in Int
        /\ af[i].group \in Groups /\ af[i].got \in Nat
    BY DEF TypeOK, AllocFrame
  <1>3. ZoneInv(i) /\ ClaimRange(i)
    BY DEF ZoneInv
  <1>4. CASE /\ af[i].start + af[i].got < af[i].end
             /\ af' = [af EXCEPT ![i].got = @ + 1] /\ pc' = pc
    <2>1. /\ af'[i].start = af[i].start /\ af'[i].end = af[i].end /\ af'[i].group = af[i].group
          /\ af'[i].got = af[i].got + 1
          /\ \A j \in Inodes \ {i} : af'[j] = af[j]
      BY <1>2, <1>4 DEF TypeOK, AllocFrame
    <2>2. af[i].start + (af[i].got + 1) <= GroupLast(af[i].group) + 1 /\ af[i].got + 1 >= 1
      BY <1>1, <1>2, <1>3, <1>4, GroupBounds DEF ClaimRange
    <2>3. ClaimRange(i)'
      BY <1>1, <1>3, <1>4, <2>1 DEF ClaimRange
    <2>4. ZoneInv(i)'
      BY <1>1, <1>3, <1>4, <2>1, <2>2, <2>3 DEF ZoneInv
    <2>5. QED
      BY <1>1, <1>4, <2>1, <2>4, ZoneStep
  <1>5. CASE /\ Goto(i, "allocated")
             /\ af' = [af EXCEPT ![i] = [af[i] EXCEPT !.num = af[i].got, !.end = 0]]
    <2>1. /\ af'[i].start = af[i].start /\ af'[i].group = af[i].group
          /\ af'[i].got = af[i].got /\ pc'[i] = "allocated"
          /\ \A j \in Inodes \ {i} : af'[j] = af[j] /\ pc'[j] = pc[j]
      BY <1>2, <1>5 DEF TypeOK, AllocFrame, Goto
    <2>2. ZoneInv(i)'
      BY <1>1, <1>3, <2>1 DEF ZoneInv, ClaimRange
    <2>3. QED
      BY <1>1, <2>1, <2>2, ZoneStep
  <1>6. QED
    BY <1>4, <1>5 DEF ClaimMore

LEMMA AllocatedZone ==
    ASSUME TypeOK, NEW i \in Inodes, \A j \in Inodes : ZoneInv(j), Allocated(i)
    PROVE  \A j \in Inodes : ZoneInv(j)'
  <1>1. /\ UNCHANGED ff /\ pc[i] = "allocated"
        /\ \A j \in Inodes \ {i} : pc'[j] = pc[j] /\ af'[j] = af[j]
        /\ \/ pc'[i] \in NoRun
           \/ /\ pc'[i] = "percpu" /\ af' = af
              /\ ~InSystemZone(af[i].group, af[i].start, af[i].got)
    BY DEF Allocated, Goto, At, TypeOK, NoRun
  <1>2. ZoneInv(i)'
    <2>1. CASE pc'[i] \in NoRun
      BY <2>1, NoRunLabel
    <2>2. CASE /\ pc'[i] = "percpu" /\ af' = af
               /\ ~InSystemZone(af[i].group, af[i].start, af[i].got)
      <3>1. ZoneInv(i)
        OBVIOUS
      <3>2. InSystemZone(af'[i].group, af'[i].start, af'[i].got) <=>
            InSystemZone(af[i].group, af[i].start, af[i].got)
        BY <2>2 DEF InSystemZone
      <3>3. QED
        BY <1>1, <2>2, <3>1, <3>2 DEF ZoneInv, ClaimRange
    <2>3. QED
      BY <1>1, <2>1, <2>2
  <1>3. QED
    BY <1>1, <1>2, ZoneStep

LEMMA FreeBlocksZone ==
    ASSUME TypeOK, NEW i \in Inodes, \A j \in Inodes : ZoneInv(j), FreeBlocks(i)
    PROVE  \A j \in Inodes : ZoneInv(j)'
  <1>1. PICK b \in owned[i], n \in 1 .. Cardinality(owned[i]) :
           \/ UNCHANGED <<pc, ff>>
           \/ /\ ~(b < FirstDataBlock \/ b + n > BlocksCount)
              /\ ff' = [ff EXCEPT ![i] = [NoFree EXCEPT !.block = b, !.count = n]]
              /\ Goto(i, "free")
    BY DEF FreeBlocks
  <1>2. UNCHANGED af /\ pc[i] = "idle" /\ b \in Int /\ n \in Int /\ n >= 1
    BY DEF FreeBlocks, Enter, At, TypeOK
  <1>3. CASE UNCHANGED <<pc, ff>>
    BY <1>2, <1>3, NoRunLabel, ZoneStep DEF NoRun
  <1>4. CASE /\ ~(b < FirstDataBlock \/ b + n > BlocksCount)
             /\ ff' = [ff EXCEPT ![i] = [NoFree EXCEPT !.block = b, !.count = n]]
             /\ Goto(i, "free")
    <2>1. /\ pc'[i] = "free" /\ ff'[i].block = b /\ ff'[i].count = n /\ ff'[i].overflow = 0
          /\ \A j \in Inodes \ {i} : pc'[j] = pc[j] /\ ff'[j] = ff[j]
      BY <1>4 DEF Goto, TypeOK, NoFree
    <2>2. ZoneInv(i)'
      BY <1>2, <1>4, <2>1, ConstantsAssumption DEF ZoneInv, ClaimRange
    <2>3. QED
      BY <1>2, <2>1, <2>2, ZoneStep
  <1>5. QED
    BY <1>1, <1>3, <1>4

LEMMA FreeGroupZone ==
    ASSUME TypeOK, NEW i \in Inodes, \A j \in Inodes : ZoneInv(j), FreeGroup(i)
    PROVE  \A j \in Inodes : ZoneInv(j)'
  <1> DEFINE f == ff[i]
             last == GroupLast(GroupOf(f.block))
             past == f.block + f.count - (last + 1)
             over == IF past > 0 THEN past ELSE 0
  <1>1. UNCHANGED af /\ pc[i] = "free" /\ ZoneInv(i)
    BY DEF FreeGroup, At
  <1>2. \/ Goto(i, "freed") /\ ff' = ff
        \/ /\ ff' = [ff EXCEPT ![i] = [f EXCEPT !.count = f.count - over,
                                                !.overflow = over, !.cleared = 0,
                                                !.group_freed = 0]]
           /\ Goto(i, "clear")
           /\ ~InSystemZone(GroupOf(f.block), f.block, f.count - over)
    BY DEF FreeGroup
  <1>3. /\ f \in FreeFrame /\ f.block \in Int /\ f.count \in Int
    BY DEF TypeOK, FreeFrame
  <1>4. /\ f.count >= 1 /\ FirstDataBlock <= f.block /\ f.block + f.count <= BlocksCount
    BY <1>1, <1>3, ConstantsAssumption DEF ZoneInv
  <1>5. f.block <= last /\ last \in Int
    <2>1. f.block \in FirstDataBlock .. BlocksCount - 1
      BY <1>3, <1>4, ConstantsAssumption
    <2>2. QED
      BY <2>1, BlockInGroup, GroupBounds
  <1>6. /\ over \in Int /\ over >= 0 /\ f.count - over >= 1
        /\ f.block + (f.count - over) <= last + 1
        /\ f.block + (f.count - over) + over <= BlocksCount
    <2> HIDE DEF last
    <2>1. QED
      BY <1>3, <1>4, <1>5
  <1> HIDE DEF over, past
  <1>7. CASE Goto(i, "freed") /\ ff' = ff
    <2>1. pc'[i] = "freed" /\ \A j \in Inodes \ {i} : pc'[j] = pc[j]
      BY <1>7 DEF Goto, TypeOK
    <2>2. QED
      BY <1>1, <1>7, <2>1, NoRunLabel, ZoneStep DEF NoRun
  <1>8. CASE /\ ff' = [ff EXCEPT ![i] = [f EXCEPT !.count = f.count - over,
                                                  !.overflow = over, !.cleared = 0,
                                                  !.group_freed = 0]]
             /\ Goto(i, "clear")
             /\ ~InSystemZone(GroupOf(f.block), f.block, f.count - over)
    <2>1. /\ pc'[i] = "clear"
          /\ ff'[i] = [f EXCEPT !.count = f.count - over, !.overflow = over,
                                !.cleared = 0, !.group_freed = 0]
          /\ \A j \in Inodes \ {i} : pc'[j] = pc[j] /\ ff'[j] = ff[j]
      BY <1>8 DEF Goto, TypeOK
    <2>2. /\ ff'[i].block = f.block /\ ff'[i].count = f.count - over
          /\ ff'[i].overflow = over /\ ff'[i].cleared = 0
      BY <1>3, <2>1 DEF FreeFrame
    <2>3. ~InSystemZone(GroupOf(ff'[i].block), ff'[i].block, ff'[i].count)
      BY <1>8, <2>2 DEF InSystemZone
    <2>4. ff'[i].cleared <= ff'[i].count
      BY <1>3, <1>6, <2>2
    <2>5. /\ ff'[i].block + ff'[i].count <= GroupLast(GroupOf(ff'[i].block)) + 1
          /\ FirstDataBlock <= ff'[i].block
          /\ ff'[i].count >= 1 /\ ff'[i].overflow >= 0
          /\ ff'[i].block + ff'[i].count + ff'[i].overflow <= BlocksCount
      BY <1>4, <1>6, <2>2
    <2>6. ZoneInv(i)'
      BY <2>1, <2>3, <2>4, <2>5 DEF ZoneInv, ClaimRange
    <2>7. QED
      BY <1>1, <2>1, <2>6, ZoneStep
  <1>9. QED
    BY <1>2, <1>7, <1>8

LEMMA ClearBitZone ==
    ASSUME TypeOK, NEW i \in Inodes, \A j \in Inodes : ZoneInv(j), ClearBit(i)
    PROVE  \A j \in Inodes : ZoneInv(j)'
  <1>1. UNCHANGED <<pc, af>> /\ pc[i] = "clear" /\ ff[i].cleared < ff[i].count /\ ZoneInv(i)
    BY DEF ClearBit, At
  <1>2. /\ ff[i] \in FreeFrame /\ ff[i].count \in Int /\ ff[i].cleared \in Nat
    BY DEF TypeOK, FreeFrame
  <1>3. PICK n : ff' = [ff EXCEPT ![i] = [ff[i] EXCEPT !.cleared = ff[i].cleared + 1,
                                                       !.group_freed = n]]
    BY DEF ClearBit
  <1>4. /\ ff'[i].block = ff[i].block /\ ff'[i].count = ff[i].count
        /\ ff'[i].overflow = ff[i].overflow /\ ff'[i].cleared = ff[i].cleared + 1
        /\ \A j \in Inodes \ {i} : ff'[j] = ff[j]
    BY <1>2, <1>3 DEF TypeOK, FreeFrame
  <1>5. ~InSystemZone(GroupOf(ff'[i].block), ff'[i].block, ff'[i].count)
    BY <1>1, <1>4 DEF ZoneInv, InSystemZone
  <1>6. ff'[i].cleared <= ff'[i].count
    BY <1>1, <1>2, <1>4
  <1>7. ZoneInv(i)'
    BY <1>1, <1>4, <1>5, <1>6 DEF ZoneInv, ClaimRange
  <1>8. QED
    BY <1>1, <1>4, <1>7, ZoneStep

LEMMA FreeAdjustZone ==
    ASSUME TypeOK, NEW i \in Inodes, \A j \in Inodes : ZoneInv(j), FreeAdjust(i)
    PROVE  \A j \in Inodes : ZoneInv(j)'
  <1> DEFINE f == ff[i]
  <1>1. /\ UNCHANGED af /\ pc[i] = "clear" /\ ZoneInv(i)
        /\ \A j \in Inodes \ {i} : pc'[j] = pc[j] /\ ff'[j] = ff[j]
    BY DEF FreeAdjust, At, Goto, TypeOK
  <1>2. f.block \in Int /\ f.count \in Int /\ f.overflow \in Int
    BY DEF TypeOK, FreeFrame
  <1>3. /\ ff'[i].block = f.block + f.count /\ ff'[i].count = f.overflow
        /\ ff'[i].overflow = 0
    BY DEF FreeAdjust, TypeOK, NoFree
  <1>4. pc'[i] = IF f.overflow > 0 THEN "free" ELSE "freed"
    BY DEF FreeAdjust, Goto, TypeOK
  <1>5. CASE f.overflow > 0
    <2>1. /\ FirstDataBlock <= f.block + f.count /\ f.overflow >= 1
          /\ f.block + f.count + f.overflow + 0 <= BlocksCount
      BY <1>1, <1>2, <1>5, ConstantsAssumption DEF ZoneInv
    <2>2. ZoneInv(i)'
      BY <1>3, <1>4, <1>5, <2>1 DEF ZoneInv, ClaimRange
    <2>3. QED
      BY <1>1, <2>2, ZoneStep
  <1>6. CASE ~(f.overflow > 0)
    BY <1>1, <1>4, <1>6, NoRunLabel, ZoneStep DEF NoRun
  <1>7. QED
    BY <1>5, <1>6

\* Entry and exits.
LEMMA OtherZone ==
    ASSUME TypeOK, NEW i \in Inodes, \A j \in Inodes : ZoneInv(j),
           NewBlocks(i) \/ Return(i) \/ Out(i) \/ FreeReturn(i)
    PROVE  \A j \in Inodes : ZoneInv(j)'
  <1>1. /\ pc'[i] \in NoRun
        /\ \A j \in Inodes \ {i} : pc'[j] = pc[j] /\ af'[j] = af[j] /\ ff'[j] = ff[j]
    <2>1. CASE NewBlocks(i)
      BY <2>1 DEF NewBlocks, Goto, TypeOK, NoRun
    <2>2. CASE Return(i)
      BY <2>2 DEF Return, Goto, TypeOK, NoRun
    <2>3. CASE Out(i)
      BY <2>3 DEF Out, Goto, TypeOK, NoRun
    <2>4. CASE FreeReturn(i)
      BY <2>4 DEF FreeReturn, Goto, TypeOK, NoRun
    <2>5. QED
      BY <2>1, <2>2, <2>3, <2>4
  <1>2. QED
    BY <1>1, NoRunLabel, ZoneStep

LEMMA InitZone == Init => \A i \in Inodes : ZoneInv(i)
  BY DEF Init, ZoneInv, ClaimRange

LEMMA NextZone ==
    TypeOK /\ (\A i \in Inodes : ZoneInv(i)) /\ [Next]_vars => (\A i \in Inodes : ZoneInv(i))'
  <1> SUFFICES ASSUME TypeOK, \A i \in Inodes : ZoneInv(i), [Next]_vars
               PROVE  \A i \in Inodes : ZoneInv(i)'
    OBVIOUS
  <1>1. ASSUME NEW i \in Inodes, Call(i) \/ AllocStep(i) \/ FreeStep(i)
        PROVE  \A j \in Inodes : ZoneInv(j)'
    <2>1. ASSUME Quiet(i), ClaimRange(i)' PROVE \A j \in Inodes : ZoneInv(j)'
      BY <2>1, QuietZone
    <2>2. QED
      BY <1>1, <2>1, NextCases, SearchQuiet, TryToAllocateQuiet, OtherZone, FreeBlocksZone,
         ClaimFirstZone, ClaimMoreZone, AllocatedZone, FreeGroupZone, ClearBitZone,
         FreeAdjustZone
  <1>2. CASE UNCHANGED vars
    BY <1>2 DEF vars, ZoneInv, ClaimRange
  <1>3. QED
    BY <1>1, <1>2 DEF Next

\* What one step may do to the blocks of S.
SafeStep(S) ==
    /\ \A i \in Inodes : (owned'[i] \ owned[i]) \cap S = {}
    /\ bitmap \cap S \subseteq bitmap'

LEMMA NextSafe ==
    ASSUME NEW CONSTANT S, TestsKeepOff(S), TypeOK, \A i \in Inodes : ZoneInv(i), [Next]_vars
    PROVE  SafeStep(S)
  <1>1. ASSUME NEW i \in Inodes, Return(i) PROVE SafeStep(S)
    <2> DEFINE run == Run(af[i].start, af[i].got)
    <2>1. /\ bitmap' = bitmap /\ pc[i] = "percpu" /\ owned'[i] = owned[i] \cup run
          /\ \A j \in Inodes \ {i} : owned'[j] = owned[j]
      BY <1>1 DEF Return, At, TypeOK
    <2>2. af[i].group \in Groups /\ af[i].start \in Int /\ af[i].got \in Int
      BY DEF TypeOK, AllocFrame
    <2>3. run \cap S = {}
      BY <2>1, <2>2 DEF ZoneInv, TestsKeepOff
    <2> HIDE DEF run
    <2>4. QED
      BY <2>1, <2>3 DEF SafeStep
  <1>2. ASSUME NEW i \in Inodes, ClearBit(i) PROVE SafeStep(S)
    <2> DEFINE f == ff[i]
               b == f.block + f.cleared
    <2>1. owned' = owned /\ bitmap' = bitmap \ {b} /\ pc[i] = "clear" /\ f.cleared < f.count
      BY <1>2 DEF ClearBit, At
    <2>2. /\ f.block \in Int /\ f.count \in Int /\ f.cleared \in Nat /\ f.overflow \in Int
      BY DEF TypeOK, FreeFrame
    <2>3. ZoneInv(i)
      OBVIOUS
    <2>4. f.block \in FirstDataBlock .. BlocksCount - 1
      BY <2>1, <2>2, <2>3, ConstantsAssumption DEF ZoneInv
    <2>5. GroupOf(f.block) \in Groups /\ GroupFirst(GroupOf(f.block)) <= f.block
      BY <2>4, BlockInGroup
    <2>6. Run(f.block, f.count) \cap S = {}
      BY <2>1, <2>2, <2>3, <2>5 DEF ZoneInv, TestsKeepOff
    <2>7. b \in Run(f.block, f.count)
      BY <2>1, <2>2 DEF Run
    <2> HIDE DEF b
    <2>8. QED
      BY <2>1, <2>6, <2>7 DEF SafeStep
  <1>3. ASSUME bitmap \subseteq bitmap', \A i \in Inodes : owned'[i] \subseteq owned[i]
        PROVE  SafeStep(S)
    BY <1>3 DEF SafeStep
  <1>4. ASSUME NEW i \in Inodes, Call(i) \/ AllocStep(i) \/ FreeStep(i)
        PROVE  SafeStep(S)
    <2>1. CASE FreeBlocks(i)
      <3>1. bitmap' = bitmap /\ \E run : owned' = [owned EXCEPT ![i] = @ \ run]
        BY <2>1 DEF FreeBlocks
      <3>2. QED
        BY <1>3, <3>1 DEF TypeOK
    <2>2. CASE ClaimFirst(i) \/ ClaimMore(i)
      BY <1>3, <2>2 DEF ClaimFirst, ClaimMore
    <2>3. CASE Quiet(i)
      BY <1>3, <2>3 DEF Quiet
    <2>4. CASE \/ NewBlocks(i) \/ Allocated(i) \/ Out(i) \/ FreeGroup(i) \/ FreeAdjust(i)
               \/ FreeReturn(i)
      BY <1>3, <2>4 DEF NewBlocks, Allocated, Out, FreeGroup, FreeAdjust, FreeReturn
    <2>5. QED
      BY <1>1, <1>2, <1>4, <2>1, <2>2, <2>3, <2>4, NextCases, SearchQuiet, TryToAllocateQuiet
  <1>5. CASE UNCHANGED vars
    BY <1>3, <1>5 DEF vars, disk
  <1>6. QED
    BY <1>4, <1>5 DEF Next

\* Whatever the bitmaps and block maps of an image say, no step of the allocator hands the
\* block of a bitmap to an inode or clears its bit, provided the descriptors are such as
\* kr_check_descriptors accepts.
THEOREM BitmapsUntouched == DescriptorsChecked => (Spec => BitmapsAreSafe)
  <1> SUFFICES ASSUME DescriptorsChecked PROVE Spec => BitmapsAreSafe
    OBVIOUS
  <1>1. TypeOK /\ (\A i \in Inodes : ZoneInv(i)) /\ [Next]_vars => [SafeStep(AllBitmaps)]_vars
    BY TestsKeepOffBitmaps, NextSafe
  <1>2. QED
    BY <1>1, InitZone, NextZone, TypeCorrect, PTL DEF Spec, BitmapsAreSafe, SafeStep

\* The same of all metadata, inode tables included, provided besides that every inode table
\* lies behind a bitmap, where mkfs puts it: no check of the code asks for that, and without
\* it the tests of the zone would miss a run that covers a table and more on both sides.
THEOREM MetadataUntouched ==
    DescriptorsChecked /\ TablesBehindBitmaps => (Spec => MetadataIsSafe)
  <1> SUFFICES ASSUME DescriptorsChecked, TablesBehindBitmaps PROVE Spec => MetadataIsSafe
    OBVIOUS
  <1>1. TypeOK /\ (\A i \in Inodes : ZoneInv(i)) /\ [Next]_vars => [SafeStep(AllMetadata)]_vars
    BY TestsKeepOffMetadata, NextSafe
  <1>2. QED
    BY <1>1, InitZone, NextZone, TypeCorrect, PTL DEF Spec, MetadataIsSafe, SafeStep

-----------------------------------------------------------------------------
(***************************************************************************)
(* A sane filesystem is never reported as damaged.                         *)
(***************************************************************************)

DataBlocks == (FirstDataBlock .. BlocksCount - 1) \ AllMetadata

\* What is not for data keeps its bit and is in nobody's hands; no damage was reported.
UnhurtInv ==
    /\ Bits \ DataBlocks \subseteq bitmap
    /\ \A i \in Inodes : Held(i) \subseteq DataBlocks
    /\ "damage" \notin fs_error

\* A run of data blocks passes the four tests of the zone.
LEMMA DataPasses ==
    ASSUME DescriptorNumbers, NEW g \in Groups, NEW b \in Int, NEW n \in Int, n >= 1,
           Run(b, n) \subseteq DataBlocks
    PROVE  ~InSystemZone(g, b, n) /\ FirstDataBlock <= b /\ b + n <= BlocksCount
  <1>1. b \in Run(b, n) /\ b + n - 1 \in Run(b, n)
    BY DEF Run
  <1>2. \A x \in Run(b, n) : x \notin MetadataBlocks(g)
    BY DEF DataBlocks, AllMetadata
  <1>3. PICK bb \in Int, ib \in Int, t \in Int, k \in Nat :
           /\ bb = Metadata[g].block_bitmap /\ ib = Metadata[g].inode_bitmap
           /\ t = Metadata[g].inode_table /\ k = Metadata[g].itb
    BY DEF DescriptorNumbers
  <1>4. \A x \in Run(b, n) : x \notin {bb, ib} /\ x \notin t .. t + k - 1
    BY <1>2, <1>3 DEF MetadataBlocks
  <1>5. ~in_range(bb, b, n) /\ ~in_range(ib, b, n)
    BY <1>4 DEF in_range, Run
  <1>6. ~in_range(b, t, k) /\ ~in_range(b + n - 1, t, k)
    BY <1>1, <1>4 DEF in_range
  <1>7. FirstDataBlock <= b /\ b + n <= BlocksCount
    BY <1>1, ConstantsAssumption DEF DataBlocks
  <1>8. QED
    BY <1>3, <1>5, <1>6, <1>7 DEF InSystemZone

\* A step sets no bit outside the groups.
LEMMA BitsSetInGroups ==
    ASSUME TypeOK, \A i \in Inodes : ZoneInv(i), [Next]_vars
    PROVE  \A x \in bitmap' : x \in bitmap \/ x \in Bits
  <1> DEFINE Goal == \A x \in bitmap' : x \in bitmap \/ x \in Bits
  <1>1. ASSUME NEW i \in Inodes, ClaimFirst(i) PROVE Goal
    <2>1. pc[i] = "claim" /\ \A x \in bitmap' : x \in bitmap \/ x = af[i].start
      BY <1>1 DEF ClaimFirst, At
    <2>2. af[i].start \in Int /\ af[i].end \in Int /\ af[i].group \in Groups
      BY DEF TypeOK, AllocFrame
    <2>3. ClaimRange(i)
      BY DEF ZoneInv
    <2>4. af[i].start \in GroupBits(af[i].group)
      BY <2>1, <2>2, <2>3, GroupBounds DEF ClaimRange, GroupBits
    <2>5. QED
      BY <2>1, <2>2, <2>4, GroupsApart
  <1>2. ASSUME NEW i \in Inodes, ClaimMore(i) PROVE Goal
    <2> DEFINE b == af[i].start + af[i].got
    <2>1. /\ pc[i] = "more" /\ \A x \in bitmap' : x \in bitmap \/ (x = b /\ b < af[i].end)
      BY <1>2 DEF ClaimMore, At
    <2>2. /\ af[i].start \in Int /\ af[i].end \in Int /\ af[i].group \in Groups
          /\ af[i].got \in Nat
      BY DEF TypeOK, AllocFrame
    <2>3. ZoneInv(i)
      OBVIOUS
    <2>4. b < af[i].end => b \in GroupBits(af[i].group)
      BY <2>1, <2>2, <2>3, GroupBounds DEF ZoneInv, ClaimRange, GroupBits
    <2> HIDE DEF b
    <2>5. QED
      BY <2>1, <2>2, <2>4, GroupsApart
  <1>3. ASSUME NEW i \in Inodes, Call(i) \/ AllocStep(i) \/ FreeStep(i) PROVE Goal
    <2>1. CASE Quiet(i)
      BY <2>1 DEF Quiet
    <2>2. CASE \/ NewBlocks(i) \/ Allocated(i) \/ Return(i) \/ Out(i) \/ FreeBlocks(i)
               \/ FreeGroup(i) \/ ClearBit(i) \/ FreeAdjust(i) \/ FreeReturn(i)
      BY <2>2 DEF NewBlocks, Allocated, Return, Out, FreeBlocks, FreeGroup, ClearBit,
         FreeAdjust, FreeReturn
    <2>3. QED
      BY <1>1, <1>2, <1>3, <2>1, <2>2, NextCases, SearchQuiet, TryToAllocateQuiet
  <1>4. CASE UNCHANGED vars
    BY <1>4 DEF vars, disk
  <1>5. QED
    BY <1>3, <1>4 DEF Next

\* Blocks that are not for data keep their bits and stay in nobody's hands.
LEMMA ZonesKept ==
    ASSUME HeldInv, HeldInv', HeldMoves, UnhurtInv,
           \A x \in bitmap' : x \in bitmap \/ x \in Bits
    PROVE  /\ Bits \ DataBlocks \subseteq bitmap'
           /\ \A i \in Inodes : Held(i)' \subseteq DataBlocks
  <1>1. Bits \ DataBlocks \subseteq bitmap'
    BY DEF HeldMoves, UnhurtInv
  <1>2. ASSUME NEW i \in Inodes, NEW x \in Held(i)' PROVE x \in DataBlocks
    <2>1. x \in bitmap'
      BY <1>2 DEF HeldInv, NoBlockHeldTwice
    <2>2. x \in Held(i) \/ x \notin bitmap
      BY <1>2 DEF HeldMoves
    <2>3. QED
      BY <2>1, <2>2 DEF UnhurtInv
  <1>3. QED
    BY <1>1, <1>2

\* kr_valid_block_bitmap finds the metadata marked in use.
LEMMA BitmapsValid ==
    ASSUME UnhurtInv, NEW g \in Groups
    PROVE  kr_valid_block_bitmap(g)
  <1>1. MetadataBlocks(g) \cap DataBlocks = {}
    BY DEF DataBlocks, AllMetadata
  <1>2. QED
    BY <1>1 DEF UnhurtInv, kr_valid_block_bitmap

\* The five steps that may report damage find none.
LEMMA NothingToReport ==
    ASSUME DescriptorNumbers, TypeOK, HeldInv, \A i \in Inodes : ZoneInv(i), UnhurtInv,
           [Next]_vars
    PROVE  "damage" \notin fs_error'
  <1>1. ASSUME NEW i \in Inodes, Allocated(i) PROVE "damage" \notin fs_error'
    <2>1. pc[i] = "allocated"
      BY <1>1 DEF Allocated, At
    <2>2. af[i].start \in Int /\ af[i].got \in Int /\ af[i].group \in Groups
      BY DEF TypeOK, AllocFrame
    <2>3. af[i].got >= 1
      BY <2>1 DEF ZoneInv
    <2>4. Run(af[i].start, af[i].got) \subseteq DataBlocks
      BY <2>1 DEF UnhurtInv, Held, Claimed
    <2>5. /\ ~InSystemZone(af[i].group, af[i].start, af[i].got)
          /\ ~(af[i].start + af[i].got - 1 >= BlocksCount)
      BY <2>2, <2>3, <2>4, DataPasses, ConstantsAssumption
    <2>6. QED
      BY <1>1, <2>5 DEF Allocated, UnhurtInv, Complain
  <1>2. ASSUME NEW i \in Inodes, FreeBlocks(i) PROVE "damage" \notin fs_error'
    <2>1. PICK b \in owned[i], n \in 1 .. Cardinality(owned[i]) :
             /\ Run(b, n) \subseteq owned[i]
             /\ b < FirstDataBlock \/ b + n > BlocksCount \/ fs_error' = fs_error
      BY <1>2 DEF FreeBlocks
    <2>2. owned[i] \subseteq DataBlocks
      BY DEF UnhurtInv, Held
    <2>3. b \in Int /\ n \in Int /\ n >= 1
      BY <2>1, <2>2, ConstantsAssumption DEF DataBlocks
    <2>4. 0 \in Groups
      BY ConstantsAssumption DEF Groups
    <2>5. FirstDataBlock <= b /\ b + n <= BlocksCount
      BY <2>1, <2>2, <2>3, <2>4, DataPasses
    <2>6. QED
      BY <2>1, <2>3, <2>5, ConstantsAssumption DEF UnhurtInv
  <1>3. ASSUME NEW i \in Inodes, FreeGroup(i) PROVE "damage" \notin fs_error'
    <2> DEFINE f == ff[i]
               last == GroupLast(GroupOf(f.block))
               past == f.block + f.count - (last + 1)
               over == IF past > 0 THEN past ELSE 0
    <2>1. /\ pc[i] = "free"
          /\ \/ InSystemZone(GroupOf(f.block), f.block, f.count - over)
             \/ ~kr_valid_block_bitmap(GroupOf(f.block))
             \/ fs_error' \subseteq fs_error \cup {"read"}
      BY <1>3 DEF FreeGroup, At, Complain
    <2>2. f.block \in Int /\ f.count \in Int /\ f.count >= 1
      BY <2>1 DEF TypeOK, FreeFrame, ZoneInv
    <2>3. Run(f.block, f.count) \subseteq DataBlocks
      BY <2>1 DEF UnhurtInv, Held, ToClear
    <2>4. f.block \in FirstDataBlock .. BlocksCount - 1
      BY <2>2, <2>3 DEF Run, DataBlocks
    <2>5. GroupOf(f.block) \in Groups /\ f.block <= last /\ last \in Int
      BY <2>4, BlockInGroup, GroupBounds
    <2>6. over \in Int /\ over >= 0 /\ f.count - over >= 1
      BY <2>2, <2>5
    <2>7. Run(f.block, f.count - over) \subseteq DataBlocks
      <3> HIDE DEF over
      <3>1. Run(f.block, f.count - over) \subseteq Run(f.block, f.count)
        BY <2>2, <2>6 DEF Run
      <3>2. QED
        BY <2>3, <3>1
    <2> HIDE DEF over
    <2>8. ~InSystemZone(GroupOf(f.block), f.block, f.count - over)
      BY <2>2, <2>5, <2>6, <2>7, DataPasses
    <2>9. kr_valid_block_bitmap(GroupOf(f.block))
      BY <2>5, BitmapsValid
    <2>10. QED
      BY <2>1, <2>8, <2>9 DEF UnhurtInv
  <1>4. ASSUME NEW i \in Inodes, ClearBit(i) PROVE "damage" \notin fs_error'
    <2> DEFINE b == ff[i].block + ff[i].cleared
    <2>1. /\ pc[i] = "clear" /\ ff[i].cleared < ff[i].count
          /\ fs_error' = IF b \in bitmap THEN fs_error ELSE fs_error \cup {"damage"}
      BY <1>4 DEF ClearBit, At
    <2>2. /\ ff[i].block \in Int /\ ff[i].count \in Int /\ ff[i].cleared \in Nat
          /\ ff[i].overflow \in Int /\ ff[i].overflow >= 0
      BY <2>1 DEF TypeOK, FreeFrame, ZoneInv
    <2>3. b \in ToClear(i)
      BY <2>1, <2>2 DEF ToClear
    <2>4. b \in bitmap
      BY <2>3 DEF HeldInv, NoBlockHeldTwice, Held
    <2> HIDE DEF b
    <2>5. QED
      BY <2>1, <2>4 DEF UnhurtInv
  <1>5. ASSUME NEW i \in Inodes, Call(i) \/ AllocStep(i) \/ FreeStep(i) PROVE "damage" \notin fs_error'
    <2>1. CASE BitmapReadFails(i)
      BY <2>1 DEF BitmapReadFails, Complain, UnhurtInv
    <2>2. CASE BitmapInvalid(i)
      <3>1. af[i].group \in Groups
        BY DEF TypeOK, AllocFrame
      <3>2. QED
        BY <2>2, <3>1, BitmapsValid DEF BitmapInvalid
    <2>3. CASE \/ DiscardReservation(i) \/ SetReservationSize(i) \/ RetryAlloc(i)
               \/ ScanGroup(i) \/ ScanDone(i) \/ AllocNewReservation(i)
               \/ RenewReservation(i) \/ CheckReservation(i) \/ UseReservation(i)
               \/ TryToAllocate(i)
      BY <2>3 DEF DiscardReservation, SetReservationSize, RetryAlloc, ScanGroup, ScanDone,
         AllocNewReservation, RenewReservation, CheckReservation, UseReservation,
         TryToAllocate, UnhurtInv
    <2>4. CASE \/ NewBlocks(i) \/ ClaimFirst(i) \/ ClaimMore(i) \/ Return(i) \/ Out(i)
               \/ FreeAdjust(i) \/ FreeReturn(i)
      BY <2>4 DEF NewBlocks, ClaimFirst, ClaimMore, Return, Out, FreeAdjust, FreeReturn, UnhurtInv
    <2>5. QED
      BY <1>1, <1>2, <1>3, <1>4, <1>5, <2>1, <2>2, <2>3, <2>4, NextCases
  <1>6. CASE UNCHANGED vars
    BY <1>6 DEF vars, UnhurtInv
  <1>7. QED
    BY <1>5, <1>6 DEF Next

LEMMA InitUnhurt == SaneMount /\ SaneZones /\ Init => UnhurtInv
  <1> SUFFICES ASSUME SaneMount, SaneZones, Init PROVE UnhurtInv
    OBVIOUS
  <1>1. \A i \in Inodes : owned[i] = InitOwned[i] /\ lost[i] = {} /\ pc[i] = "idle"
    BY DEF Init
  <1>2. \A i \in Inodes : Held(i) = InitOwned[i]
    BY <1>1, NothingInHand, HeldParts DEF Busy
  <1>3. QED
    BY <1>2 DEF UnhurtInv, SaneZones, DataBlocks, Init

\* On a filesystem that was sane when it was mounted, whatever fails on the way of a call
\* and whatever calls interleave, no block has two holders, counts and quota agree with
\* the bitmaps, and though every failed read of a bitmap is reported, neither kr_new_blocks
\* nor kr_free_blocks ever reports an invalid bitmap, an allocation or a free in the system
\* zone, blocks outside the filesystem or a bit already cleared.
THEOREM FaultsAreContained ==
    SaneMount /\ SaneZones /\ SaneCounts => (Spec => []SoundUnderFaults)
  <1> SUFFICES ASSUME SaneMount, SaneZones, SaneCounts PROVE Spec => []SoundUnderFaults
    OBVIOUS
  <1> DEFINE Inv == HeldInv /\ (\A i \in Inodes : ZoneInv(i)) /\ UnhurtInv
  <1>1. Init => Inv
    BY InitHeld, InitZone, InitUnhurt
  <1>2. TypeOK /\ Inv /\ [Next]_vars => Inv'
    <2> SUFFICES ASSUME TypeOK, Inv, [Next]_vars PROVE Inv'
      OBVIOUS
    <2>1. HeldInv' /\ HeldMoves /\ (\A i \in Inodes : ZoneInv(i))'
      BY NextHeld, NextZone
    <2>2. /\ Bits \ DataBlocks \subseteq bitmap'
          /\ \A i \in Inodes : Held(i)' \subseteq DataBlocks
      BY <2>1, BitsSetInGroups, ZonesKept
    <2>3. "damage" \notin fs_error'
      BY NothingToReport DEF SaneZones
    <2>4. QED
      BY <2>1, <2>2, <2>3 DEF UnhurtInv
  <1>3. Inv /\ NoBlockHeldTwice /\ AccountsAgree => SoundUnderFaults
    BY DEF SoundUnderFaults, UnhurtInv
  <1>4. QED
    BY <1>1, <1>2, <1>3, TypeCorrect, BlocksHaveOneHolder, CountsAndQuotaAgree, PTL DEF Spec

=============================================================================
