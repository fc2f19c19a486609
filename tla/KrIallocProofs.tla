---------------------------- MODULE KrIallocProofs ----------------------------
(***************************************************************************)
(* Proofs about the inode allocator (KrIalloc), for any set of tasks, any  *)
(* groups and any bound on the calls: no inode number is in use twice, and *)
(* the counts of the groups, the counter of directories and the quota      *)
(* agree with what is in use and with the calls in progress.               *)
(*                                                                         *)
(* The inductive invariant IallocInv says where the number of each call    *)
(* may be, that what can still be given out may be given out, that what is *)
(* lost has no name, that the cache holds no number that is being freed,   *)
(* and that a call knows whether its inode is a directory.                 *)
(***************************************************************************)
EXTENDS KrIalloc, FiniteSetTheorems, WellFoundedInduction, TLAPS

\* A call's number lies in its group while it searches, and in the filesystem after.
NumbersInv ==
    \A t \in Tasks :
        /\ pc[t] \in {"find", "claim"} => fr[t].i < GroupsCount
        /\ pc[t] \in {"find", "claim", "got", "count", "insert", "quota"} =>
              fr[t].ino \in Bits(fr[t].group)
        /\ pc[t] \in {"evict", "free", "release", "released"} => fr[t].ino \in Inos

\* What may be given out is valid, and so is what has been.
ValidInv ==
    /\ \A ino \in Inos \ bitmap : ValidIno(ino)
    /\ \A ino \in live : ValidIno(ino)
    /\ \A t \in Tasks : \A ino \in InHand(t) : ValidIno(ino)

\* The cache holds inodes with a name, and new ones that are about to get one.
CacheInv == cached \subseteq live \cup {fr[t].ino : t \in {u \in Tasks : pc[u] = "quota"}}

\* A call knows whether its inode is a directory.
ModeInv ==
    \A t \in Tasks : pc[t] \in {"quota", "evict", "free"} => (fr[t].ino \in isdir <=> fr[t].dir)

UseInv == NoInodeTwice /\ live \cap lost = {} /\ ValidInv /\ CacheInv /\ ModeInv

IallocInv == TypeOK /\ NumbersInv /\ UseInv /\ CountsAgree /\ InodeQuotaAgrees


-----------------------------------------------------------------------------
(***************************************************************************)
(* Numbers, groups, least elements and cardinalities.                      *)
(***************************************************************************)

\* A set of natural numbers that is not empty has a least element, which Min is.
LEMMA MinIsLeast ==
    ASSUME NEW S \in SUBSET Nat, S # {}
    PROVE  Min(S) \in S /\ \A m \in S : Min(S) <= m
PROOF
  <1>1. PICK x \in S : \A y \in S : <<y, x>> \notin OpToRel(<, Nat)
    BY WFMin, NatLessThanWellFounded
  <1>2. \A y \in S : x <= y
    <2>1. \A y \in S : ~(y < x)
      BY <1>1 DEF OpToRel
    <2>2. QED
      BY <2>1
  <1>3. QED
    BY <1>2 DEF Min

\* Min and Max of a pair of numbers are one of them.
LEMMA MinMaxOfPair ==
    ASSUME NEW a \in Int, NEW b \in Int
    PROVE  /\ Min({a, b}) \in {a, b} /\ Min({a, b}) <= a /\ Min({a, b}) <= b
           /\ Max({a, b}) \in {a, b} /\ Max({a, b}) >= a /\ Max({a, b}) >= b
PROOF
  <1>1. \E x \in {a, b} : \A y \in {a, b} : x <= y
    OBVIOUS
  <1>2. \E x \in {a, b} : \A y \in {a, b} : x >= y
    OBVIOUS
  <1>3. QED
    BY <1>1, <1>2 DEF Min, Max

\* The numbers of a group: where they are, and that GroupOf finds the group.
LEMMA BitsOfGroup ==
    ASSUME NEW g \in Groups
    PROVE  /\ Bits(g) \subseteq Inos
           /\ FirstOf(g) \in Bits(g) /\ LastOf(g) \in Nat /\ FirstOf(g) \in Nat
           /\ \A ino \in Bits(g) : GroupOf(ino) = g
PROOF
  <1> USE ConstantsAssumption
  <1> DEFINE n == InodesPerGroup
  <1>1. g \in Nat /\ g <= GroupsCount - 1 /\ GroupsCount \in Nat
    BY DEF Groups
  <1>2. n \in Nat /\ n >= 1
    OBVIOUS
  <1> HIDE DEF n
  <1>3. /\ g * n \in Nat /\ (g + 1) * n = g * n + n
        /\ GroupsCount * n \in Nat
    BY <1>1, <1>2
  <1>4. (g + 1) * n <= GroupsCount * n
    BY <1>1, <1>2
  <1>5. \A x \in Nat : g * n <= x /\ x < g * n + n => x \div n = g
    <2> TAKE x \in Nat
    <2> HAVE g * n <= x /\ x < g * n + n
    <2>1. PICK q \in Int : q = x \div n
      BY <1>2
    <2>2. q * n \in Int /\ q * n <= x /\ x < q * n + n
      BY <1>2, <2>1
    <2> DEFINE a == g * n
               b == q * n
    <2>6. a \in Int /\ b \in Int /\ a <= x /\ x < a + n /\ b <= x /\ x < b + n
      BY <1>3, <2>2
    <2>3. ~(q + 1 <= g)
      <3> SUFFICES ASSUME q + 1 <= g PROVE FALSE
        OBVIOUS
      <3>1. (q + 1) * n <= g * n
        BY <1>1, <1>2, <2>1
      <3>2. (q + 1) * n = q * n + n
        BY <1>2, <2>1
      <3>3. b + n <= a
        BY <3>1, <3>2
      <3> HIDE DEF a, b
      <3>4. QED
        BY <1>2, <2>6, <3>3
    <2>4. ~(g + 1 <= q)
      <3> SUFFICES ASSUME g + 1 <= q PROVE FALSE
        OBVIOUS
      <3>1. (g + 1) * n <= q * n
        BY <1>1, <1>2, <2>1
      <3>2. a + n <= b
        BY <1>3, <3>1
      <3> HIDE DEF a, b
      <3>3. QED
        BY <1>2, <2>6, <3>2
    <2>5. QED
      BY <1>1, <2>1, <2>3, <2>4
  <1>6. FirstOf(g) = g * n + 1 /\ LastOf(g) = g * n + n /\ LastOf(GroupsCount - 1) = GroupsCount * n
    BY <1>1, <1>2, <1>3 DEF FirstOf, LastOf, n
  <1>7. \A ino \in Bits(g) : GroupOf(ino) = g
    <2> TAKE ino \in Bits(g)
    <2>1. ino - 1 \in Nat /\ g * n <= ino - 1 /\ ino - 1 < g * n + n
      BY <1>2, <1>3, <1>6 DEF Bits
    <2>2. QED
      BY <1>5, <2>1 DEF GroupOf, n
  <1>8. QED
    BY <1>2, <1>3, <1>4, <1>6, <1>7 DEF Bits, Inos

\* GroupOf a number of the filesystem is a group.
LEMMA GroupOfInos ==
    ASSUME NEW ino \in Inos
    PROVE  GroupOf(ino) \in Groups /\ ino \in Bits(GroupOf(ino)) /\ ino \in Nat
PROOF
  <1> USE ConstantsAssumption
  <1> DEFINE n == InodesPerGroup
             q == GroupOf(ino)
             x == ino - 1
  <1>1. n \in Nat /\ n >= 1 /\ GroupsCount \in Nat /\ GroupsCount >= 1
    OBVIOUS
  <1>2. ino \in Nat /\ ino >= 1 /\ ino <= GroupsCount * n
    BY <1>1 DEF Inos, LastOf
  <1>3. x \in Nat /\ x < GroupsCount * n
    BY <1>1, <1>2
  <1>4. q = x \div n
    BY DEF GroupOf
  <1> HIDE DEF n, q, x
  <1>5. q \in Int /\ q * n <= x /\ x < q * n + n
    BY <1>1, <1>3, <1>4
  <1>6. q >= 0
    <2> SUFFICES ASSUME q + 1 <= 0 PROVE FALSE
      BY <1>5
    <2>1. (q + 1) * n <= 0
      BY <1>1, <1>5
    <2>2. QED
      BY <1>1, <1>3, <1>5, <2>1
  <1>7. q < GroupsCount
    <2> SUFFICES ASSUME GroupsCount <= q PROVE FALSE
      BY <1>1, <1>5
    <2>1. GroupsCount * n <= q * n
      BY <1>1, <1>5
    <2>2. QED
      BY <1>1, <1>3, <1>5, <2>1
  <1>8. QED
    BY <1>1, <1>2, <1>5, <1>6, <1>7 DEF Groups, Bits, FirstOf, LastOf, n, q, x

\* The inodes of the filesystem are finitely many.
LEMMA InosFinite == IsFiniteSet(Inos) /\ \A g \in Groups : IsFiniteSet(Bits(g))
PROOF
  <1>1. LastOf(GroupsCount - 1) \in Int
    BY ConstantsAssumption DEF LastOf
  <1>2. IsFiniteSet(Inos)
    BY <1>1, FS_Interval DEF Inos
  <1>3. QED
    BY <1>2, BitsOfGroup, FS_Subset

\* One and nothing.
B(b) == IF b THEN 1 ELSE 0

\* Sets that differ in at most one element.
LEMMA OneElement ==
    ASSUME NEW S, NEW T, NEW x, IsFiniteSet(S), \A y : y # x => (y \in S <=> y \in T)
    PROVE  /\ IsFiniteSet(T)
           /\ Cardinality(S) \in Nat /\ Cardinality(T) \in Nat
           /\ Cardinality(T) = Cardinality(S) + B(x \in T) - B(x \in S)
PROOF
  <1> DEFINE R == S \ {x}
  <1>1. IsFiniteSet(R) /\ Cardinality(R) = Cardinality(S) - B(x \in S)
    BY FS_RemoveElement, FS_CardinalityType DEF B
  <1>2. T = IF x \in T THEN R \cup {x} ELSE R
    OBVIOUS
  <1> HIDE DEF R
  <1>3. x \notin R
    BY DEF R
  <1>4. IsFiniteSet(R \cup {x}) /\ Cardinality(R \cup {x}) = Cardinality(R) + 1
    BY <1>1, <1>3, FS_AddElement
  <1>5. Cardinality(S) \in Nat /\ Cardinality(R) \in Nat
    BY <1>1, FS_CardinalityType
  <1>6. CASE x \in T
    <2>1. T = R \cup {x}
      BY <1>2, <1>6
    <2>2. QED
      BY <1>1, <1>4, <1>5, <1>6, <2>1 DEF B
  <1>7. CASE x \notin T
    BY <1>1, <1>2, <1>5, <1>7 DEF B
  <1>8. QED
    BY <1>6, <1>7

\* Arithmetic of 16 bits.
LEMMA SixteenBits ==
    ASSUME NEW n \in Int
    PROVE  /\ U16(n) \in Int /\ 0 <= U16(n) /\ U16(n) <= 65535
           /\ U16(U16(n) + 1) = U16(n + 1) /\ U16(U16(n) - 1) = U16(n - 1)
           /\ 0 <= n /\ n <= 65535 => U16(n) = n
PROOF
  <1>1. U16(n) \in Int /\ 0 <= U16(n) /\ U16(n) <= 65535
    BY DEF U16
  <1>6. 0 <= n /\ n <= 65535 => U16(n) = n
    BY DEF U16
  <1>2. PICK q \in Int : n = 65536 * q + U16(n)
    BY DEF U16
  <1>3. U16(U16(n) + 1) = U16(n + 1)
    BY <1>1, <1>2 DEF U16
  <1>4. U16(U16(n) - 1) = U16(n - 1)
    BY <1>1, <1>2 DEF U16
  <1>5. QED
    BY <1>1, <1>3, <1>4, <1>6

-----------------------------------------------------------------------------
(***************************************************************************)
(* The choice of a group, and the types.                                   *)
(***************************************************************************)

\* Every policy returns groups of the filesystem.
LEMMA ChoicesAreGroups ==
    ASSUME NEW parent \in Parents, NEW dir \in BOOLEAN, NEW blocks \in BlockCounts,
           NEW found \in GroupChoices(parent, dir, blocks)
    PROVE  found \subseteq Groups
PROOF
  <1>1. WithFree \subseteq Groups /\ \A start, S : FirstFrom(start, S) \subseteq S
    BY DEF WithFree, FirstFrom
  <1>2. \A start, avefreei : Fallback(start, avefreei) \subseteq Groups
    BY <1>1 DEF Fallback
  <1>3. find_group_other(parent, blocks) \subseteq Groups
    <2> DEFINE roomy == {g \in WithFree : blocks[g] > 0}
               hits == {k \in 1 .. GroupsCount :
                          2 ^ (k - 1) < GroupsCount /\ Hashed(parent, k) \in roomy}
    <2>1. hits \in SUBSET Nat
      BY ConstantsAssumption
    <2>2. hits # {} => Hashed(parent, Min(hits)) \in roomy
      <3> SUFFICES ASSUME hits # {} PROVE Hashed(parent, Min(hits)) \in roomy
        OBVIOUS
      <3>1. Min(hits) \in hits
        BY <2>1, MinIsLeast
      <3>2. QED
        BY <3>1
    <2>3. CASE parent.group \in roomy
      BY <1>1, <2>3 DEF find_group_other
    <2>4. CASE parent.group \notin roomy /\ hits # {}
      BY <1>1, <2>2, <2>4 DEF find_group_other
    <2>5. CASE parent.group \notin roomy /\ hits = {}
      BY <1>1, <2>5 DEF find_group_other
    <2>6. QED
      BY <2>3, <2>4, <2>5
  <1>4. find_group_dir(blocks) \subseteq Groups
    <2> DEFINE ok == {g \in WithFree : bg_free[g] >= kr_count_free_inodes \div GroupsCount}
    <2>1. find_group_dir(blocks) \subseteq ok
      BY <1>1 DEF find_group_dir
    <2>2. QED
      BY <1>1, <2>1
  <1>5. \A start, avefreei, avefreeb :
           OrlovTop(start, blocks, avefreei, avefreeb) \subseteq Groups
    <2> TAKE start, avefreei, avefreeb
    <2> DEFINE ok == {g \in WithFree : /\ bg_dirs[g] < InodesPerGroup
                                       /\ bg_free[g] >= avefreei
                                       /\ blocks[g] >= avefreeb}
    <2>1. \/ OrlovTop(start, blocks, avefreei, avefreeb) = Fallback(start, avefreei)
          \/ OrlovTop(start, blocks, avefreei, avefreeb) \subseteq ok
      BY <1>1 DEF OrlovTop
    <2>2. QED
      BY <1>1, <1>2, <2>1
  <1>6. \A start, avefreei, free_blocks, ndirs :
           OrlovNear(start, blocks, avefreei, free_blocks, ndirs) \subseteq Groups
    <2> TAKE start, avefreei, free_blocks, ndirs
    <2> DEFINE n == Max({1, ndirs})
               max_dirs == n \div GroupsCount + InodesPerGroup \div DirShare
               max_debt == DebtLimit((BlocksCount - free_blocks) \div n)
               ok == {g \in WithFree :
                 /\ debts[g] < max_debt
                 /\ bg_dirs[g] < max_dirs
                 /\ bg_free[g] >= avefreei - InodesPerGroup \div RoomShare
                 /\ blocks[g] >= free_blocks \div GroupsCount - BlocksPerGroup \div RoomShare}
    <2>1. \/ OrlovNear(start, blocks, avefreei, free_blocks, ndirs) = Fallback(start, avefreei)
          \/ OrlovNear(start, blocks, avefreei, free_blocks, ndirs) = FirstFrom(start, ok)
      BY Zenon DEF OrlovNear
    <2>2. ok \subseteq WithFree
      OBVIOUS
    <2> HIDE DEF ok
    <2>3. FirstFrom(start, ok) \subseteq ok
      BY <1>1
    <2>4. QED
      BY <1>1, <1>2, <2>1, <2>2, <2>3
  <1>7. \A random, freei, ndirs :
           find_group_orlov(parent, random, blocks, freei, ndirs) \subseteq Groups
    BY <1>5, <1>6 DEF find_group_orlov
  <1>8. QED
    <2>1. CASE ~dir
      BY <1>3, <2>1 DEF GroupChoices
    <2>2. CASE dir
      <3>1. PICK oldalloc \in OldAlloc, random \in Groups, freei \in ReadPositive(freeinodes),
                 ndirs \in ReadPositive(dirs) :
              found = IF oldalloc THEN find_group_dir(blocks)
                      ELSE find_group_orlov(parent, random, blocks, freei, ndirs)
        BY <2>2 DEF GroupChoices
      <3>2. QED
        BY <1>4, <1>7, <3>1
    <2>3. QED
      BY <2>1, <2>2

\* What a step of a task leaves alone: the calls of the others.
Only(t) == \A u \in Tasks \ {t} : pc'[u] = pc[u] /\ fr'[u] = fr[u]

\* The frames of calls.
Frames == [dir : BOOLEAN, group : Groups, i : 0 .. GroupsCount, ino : Int, noquota : BOOLEAN]

\* A step that sets a task's place and its locals.
LEMMA FrameStep ==
    ASSUME TypeOK, NEW t \in Tasks, NEW label \in Labels, Goto(t, label),
           NEW f \in Frames, Frame(t, f) \/ (UNCHANGED fr /\ f = fr[t])
    PROVE  /\ pc' \in [Tasks -> Labels] /\ fr' \in [Tasks -> Frames]
           /\ pc'[t] = label /\ fr'[t] = f
           /\ Only(t)
PROOF
  <1>1. pc \in [Tasks -> Labels] /\ fr \in [Tasks -> Frames]
    BY DEF TypeOK, Frames
  <1>2. QED
    BY <1>1 DEF Goto, Frame, Only

\* The locals of no call.
LEMMA NoCallFrame == NoCall \in Frames
PROOF
  BY ConstantsAssumption DEF NoCall, Frames, Groups

\* The numbers of the other calls are where they were.
LEMMA NumbersStep ==
    ASSUME NumbersInv, NEW t \in Tasks, Only(t),
           pc'[t] \in {"find", "claim"} => fr'[t].i < GroupsCount,
           pc'[t] \in {"find", "claim", "got", "count", "insert", "quota"} =>
               fr'[t].ino \in Bits(fr'[t].group),
           pc'[t] \in {"evict", "free", "release", "released"} => fr'[t].ino \in Inos
    PROVE  NumbersInv'
PROOF
  BY DEF NumbersInv, Only

\* What TypeOK and NumbersInv say of one call.
LEMMA OneCall ==
    ASSUME TypeOK, NumbersInv, NEW t \in Tasks
    PROVE  /\ fr[t] \in Frames /\ pc[t] \in Labels
           /\ fr[t].group \in Groups /\ fr[t].i \in 0 .. GroupsCount /\ fr[t].ino \in Int
           /\ fr[t].dir \in BOOLEAN /\ fr[t].noquota \in BOOLEAN
           /\ pc[t] \in {"find", "claim"} => fr[t].i < GroupsCount
           /\ pc[t] \in {"find", "claim", "got", "count", "insert", "quota"} =>
                 fr[t].ino \in Bits(fr[t].group) /\ fr[t].ino \in Inos
           /\ pc[t] \in {"evict", "free", "release", "released"} => fr[t].ino \in Inos
PROOF
  <1>1. fr[t] \in Frames /\ pc[t] \in Labels
    BY DEF TypeOK, Frames
  <1>2. fr[t].group \in Groups
    BY <1>1 DEF Frames
  <1>3. Bits(fr[t].group) \subseteq Inos
    BY <1>2, BitsOfGroup
  <1>4. QED
    BY <1>1, <1>3 DEF Frames, NumbersInv

\* ++group stays in the filesystem.
LEMMA NextGroupIsGroup ==
    ASSUME NEW g \in Groups
    PROVE  NextGroup(g) \in Groups
PROOF
  <1>1. g \in Nat /\ GroupsCount \in Nat /\ GroupsCount > 0
    BY ConstantsAssumption DEF Groups
  <1>2. (g + 1) % GroupsCount \in 0 .. GroupsCount - 1
    BY <1>1
  <1>3. QED
    BY <1>2 DEF NextGroup, Groups

\* NewInode keeps the types, and the numbers of the calls where they may be.
LEMMA NewInodeTypes ==
    ASSUME TypeOK, NumbersInv, NEW t \in Tasks, NewInode(t)
    PROVE  TypeOK' /\ NumbersInv' /\ Only(t)
PROOF
  <1>1. calls' \in [Tasks -> Nat]
    <2>1. Enter(t)
      BY DEF NewInode
    <2>2. QED
      BY <2>1 DEF Enter, TypeOK
  <1>2. PICK parent \in Parents, dir \in BOOLEAN, blocks \in BlockCounts :
          \E found \in GroupChoices(parent, dir, blocks) :
             \/ /\ found = {}
                /\ Goto(t, "nospace")
                /\ UNCHANGED fr
             \/ \E g \in found :
                  /\ Goto(t, "scan")
                  /\ Frame(t, [NoCall EXCEPT !.dir = dir, !.group = g])
    BY DEF NewInode
  <1>3. PICK found \in GroupChoices(parent, dir, blocks) :
             \/ /\ found = {}
                /\ Goto(t, "nospace")
                /\ UNCHANGED fr
             \/ \E g \in found :
                  /\ Goto(t, "scan")
                  /\ Frame(t, [NoCall EXCEPT !.dir = dir, !.group = g])
    BY <1>2
  <1>4. /\ pc' \in [Tasks -> Labels] /\ fr' \in [Tasks -> Frames]
        /\ pc'[t] \in {"nospace", "scan"} /\ Only(t)
    <2>1. CASE Goto(t, "nospace") /\ UNCHANGED fr
      BY <2>1, OneCall, FrameStep DEF Labels
    <2>2. ASSUME NEW g \in found, Goto(t, "scan"),
                 Frame(t, [NoCall EXCEPT !.dir = dir, !.group = g])
          PROVE  /\ pc' \in [Tasks -> Labels] /\ fr' \in [Tasks -> Frames]
                 /\ pc'[t] \in {"nospace", "scan"} /\ Only(t)
      <3>1. g \in Groups
        BY <1>2, <1>3, ChoicesAreGroups
      <3>2. [NoCall EXCEPT !.dir = dir, !.group = g] \in Frames
        BY <3>1, NoCallFrame DEF Frames
      <3>3. QED
        BY <2>2, <3>2, FrameStep DEF Labels
    <2>3. QED
      BY <1>3, <2>1, <2>2
  <1>5. TypeOK'
    BY <1>1, <1>4 DEF TypeOK, Frames, NewInode, counts, counters, inodes
  <1>6. QED
    BY <1>4, <1>5, NumbersStep

\* ScanGroup keeps the types, and the numbers of the calls where they may be.
LEMMA ScanGroupTypes ==
    ASSUME TypeOK, NumbersInv, NEW t \in Tasks, ScanGroup(t)
    PROVE  TypeOK' /\ NumbersInv' /\ Only(t)
PROOF
  <1> DEFINE f == fr[t]
             f2 == [f EXCEPT !.ino = FirstOf(f.group)]
  <1>1. /\ f \in Frames /\ f.group \in Groups
        /\ FirstOf(f.group) \in Nat /\ FirstOf(f.group) \in Bits(f.group)
    BY OneCall, BitsOfGroup
  <1>2. f2 \in Frames /\ f2.ino \in Bits(f2.group) /\ f2.i = f.i
    BY <1>1 DEF Frames
  <1>3. fs_error' \subseteq {"read", "damage"}
    BY DEF ScanGroup, ReadBitmap, TypeOK
  <1>4. CASE Goto(t, "find") /\ Frame(t, f2) /\ f.i < GroupsCount
    <2>1. /\ pc' \in [Tasks -> Labels] /\ fr' \in [Tasks -> Frames]
          /\ pc'[t] = "find" /\ fr'[t] = f2 /\ Only(t)
      BY <1>2, <1>4, FrameStep DEF Labels
    <2>2. TypeOK'
      BY <1>3, <2>1 DEF TypeOK, Frames, ScanGroup, counts, counters, inodes
    <2>3. QED
      BY <1>2, <1>4, <2>1, <2>2, NumbersStep
  <1>5. ASSUME NEW label \in {"nospace", "fail"}, Goto(t, label), UNCHANGED fr
        PROVE  TypeOK' /\ NumbersInv' /\ Only(t)
    <2>1. /\ pc' \in [Tasks -> Labels] /\ fr' \in [Tasks -> Frames]
          /\ pc'[t] = label /\ Only(t)
      BY <1>1, <1>5, FrameStep DEF Labels
    <2>2. TypeOK'
      BY <1>3, <2>1 DEF TypeOK, Frames, ScanGroup, counts, counters, inodes
    <2>3. QED
      BY <2>1, <2>2, NumbersStep
  <1>6. QED
    BY <1>4, <1>5 DEF ScanGroup

\* LeaveGroup keeps the types, and the numbers of the calls where they may be.
LEMMA LeaveGroupTypes ==
    ASSUME TypeOK, NumbersInv, NEW t \in Tasks, LeaveGroup(t), pc[t] \in {"find", "claim"}
    PROVE  /\ pc' \in [Tasks -> Labels] /\ fr' \in [Tasks -> Frames]
           /\ pc'[t] = "scan" /\ Only(t)
PROOF
  <1> DEFINE f2 == [fr[t] EXCEPT !.group = NextGroup(@), !.i = @ + 1]
  <1>1. fr[t] \in Frames /\ NextGroup(fr[t].group) \in Groups /\ fr[t].i + 1 \in 0 .. GroupsCount
    BY OneCall, NextGroupIsGroup, ConstantsAssumption
  <1>2. f2 \in Frames
    BY <1>1 DEF Frames
  <1>3. QED
    BY <1>2, FrameStep DEF LeaveGroup, Labels

\* FindBit keeps the types, and the numbers of the calls where they may be.
LEMMA FindBitTypes ==
    ASSUME TypeOK, NumbersInv, NEW t \in Tasks, FindBit(t)
    PROVE  TypeOK' /\ NumbersInv' /\ Only(t)
PROOF
  <1> DEFINE f == fr[t]
             clear == (f.ino .. LastOf(f.group)) \ bitmap
             f2 == [f EXCEPT !.ino = Min(clear)]
  <1>1. /\ f \in Frames /\ f.group \in Groups /\ f.ino \in Bits(f.group)
        /\ f.i < GroupsCount /\ f.ino \in Nat /\ LastOf(f.group) \in Nat
        /\ FirstOf(f.group) \in Nat
    BY OneCall, BitsOfGroup, GroupOfInos DEF FindBit, At
  <1>2. CASE clear = {} /\ LeaveGroup(t)
    <2>1. /\ pc' \in [Tasks -> Labels] /\ fr' \in [Tasks -> Frames]
          /\ pc'[t] = "scan" /\ Only(t)
      BY <1>2, LeaveGroupTypes DEF FindBit, At
    <2>2. TypeOK'
      BY <2>1 DEF TypeOK, Frames, FindBit, counts, counters, inodes
    <2>3. QED
      BY <2>1, <2>2, NumbersStep
  <1>3. CASE clear # {} /\ Frame(t, f2) /\ Goto(t, "claim")
    <2>1. Min(clear) \in clear
      BY <1>1, <1>3, MinIsLeast
    <2>2. Min(clear) \in Bits(f.group) /\ Min(clear) \in Int
      BY <1>1, <2>1 DEF Bits
    <2> HIDE DEF clear
    <2>3. f2 \in Frames /\ f2.ino \in Bits(f2.group) /\ f2.i = f.i
      BY <1>1, <2>2 DEF Frames
    <2>4. /\ pc' \in [Tasks -> Labels] /\ fr' \in [Tasks -> Frames]
          /\ pc'[t] = "claim" /\ fr'[t] = f2 /\ Only(t)
      BY <1>3, <2>3, FrameStep DEF Labels
    <2>5. TypeOK'
      BY <2>4 DEF TypeOK, Frames, FindBit, counts, counters, inodes
    <2>6. QED
      BY <1>1, <2>3, <2>4, <2>5, NumbersStep
  <1>4. QED
    BY <1>2, <1>3 DEF FindBit

\* ClaimBit keeps the types, and the numbers of the calls where they may be.
LEMMA ClaimBitTypes ==
    ASSUME TypeOK, NumbersInv, NEW t \in Tasks, ClaimBit(t)
    PROVE  TypeOK' /\ NumbersInv' /\ Only(t)
PROOF
  <1> DEFINE f == fr[t]
             f2 == [f EXCEPT !.ino = @ + 1]
  <1>1. /\ f \in Frames /\ f.group \in Groups /\ f.ino \in Bits(f.group) /\ f.ino \in Inos
        /\ f.i < GroupsCount /\ f.ino \in Nat /\ LastOf(f.group) \in Nat
        /\ FirstOf(f.group) \in Nat
    BY OneCall, BitsOfGroup, GroupOfInos DEF ClaimBit, At
  <1>2. CASE bitmap' = bitmap \cup {f.ino} /\ Goto(t, "got") /\ UNCHANGED fr
    <2>1. /\ pc' \in [Tasks -> Labels] /\ fr' \in [Tasks -> Frames]
          /\ pc'[t] = "got" /\ fr'[t] = f /\ Only(t)
      BY <1>1, <1>2, FrameStep DEF Labels
    <2>2. TypeOK'
      BY <1>1, <1>2, <2>1 DEF TypeOK, Frames, ClaimBit, counts, counters, inodes
    <2>3. QED
      BY <1>1, <2>1, <2>2, NumbersStep
  <1>3. CASE f.ino < LastOf(f.group) /\ Frame(t, f2) /\ Goto(t, "find") /\ UNCHANGED bitmap
    <2>1. f2 \in Frames /\ f2.ino \in Bits(f2.group) /\ f2.i = f.i
      BY <1>1, <1>3 DEF Frames, Bits
    <2>2. /\ pc' \in [Tasks -> Labels] /\ fr' \in [Tasks -> Frames]
          /\ pc'[t] = "find" /\ fr'[t] = f2 /\ Only(t)
      BY <1>3, <2>1, FrameStep DEF Labels
    <2>3. TypeOK'
      BY <1>3, <2>2 DEF TypeOK, Frames, ClaimBit, counts, counters, inodes
    <2>4. QED
      BY <1>1, <2>1, <2>2, <2>3, NumbersStep
  <1>4. CASE LeaveGroup(t) /\ UNCHANGED bitmap
    <2>1. /\ pc' \in [Tasks -> Labels] /\ fr' \in [Tasks -> Frames]
          /\ pc'[t] = "scan" /\ Only(t)
      BY <1>4, LeaveGroupTypes DEF ClaimBit, At
    <2>2. TypeOK'
      BY <1>4, <2>1 DEF TypeOK, Frames, ClaimBit, counts, counters, inodes
    <2>3. QED
      BY <2>1, <2>2, NumbersStep
  <1>5. QED
    BY <1>2, <1>3, <1>4 DEF ClaimBit

\* NumberInode keeps the types, and the numbers of the calls where they may be.
LEMMA NumberInodeTypes ==
    ASSUME TypeOK, NumbersInv, NEW t \in Tasks, NumberInode(t)
    PROVE  TypeOK' /\ NumbersInv' /\ Only(t)
PROOF
  <1>1. PICK label \in {"fail", "count"} : Goto(t, label)
    BY DEF NumberInode
  <1>2. /\ pc' \in [Tasks -> Labels] /\ fr' \in [Tasks -> Frames]
        /\ pc'[t] = label /\ fr'[t] = fr[t] /\ Only(t)
    BY <1>1, OneCall, FrameStep DEF NumberInode, Labels
  <1>3. fs_error' \subseteq {"read", "damage"}
    BY DEF NumberInode, TypeOK, Complain
  <1>6. freeinodes' \in Int /\ dirs' \in Int
    BY DEF NumberInode, TypeOK, counters
  <1>4. TypeOK'
    BY <1>2, <1>3, <1>6 DEF TypeOK, Frames, NumberInode, counts, inodes
  <1>5. QED
    BY <1>1, <1>2, <1>4, OneCall, NumbersStep DEF NumberInode, At

\* CountInode keeps the types, and the numbers of the calls where they may be.
LEMMA CountInodeTypes ==
    ASSUME TypeOK, NumbersInv, NEW t \in Tasks, CountInode(t)
    PROVE  TypeOK' /\ NumbersInv' /\ Only(t)
PROOF
  <1> DEFINE g == fr[t].group
  <1>1. g \in Groups /\ fr[t] \in Frames
    BY OneCall
  <1>2. debts[g] \in Int /\ 0 <= debts[g] /\ debts[g] <= MaxDebt /\ MaxDebt \in Int
    BY <1>1, ConstantsAssumption DEF TypeOK
  <1>3. Min({MaxDebt, debts[g] + 1}) \in 0 .. MaxDebt /\ Max({0, debts[g] - 1}) \in 0 .. MaxDebt
    <2>1. debts[g] + 1 \in Int /\ debts[g] - 1 \in Int /\ 0 \in Int
      BY <1>2
    <2>2. Min({MaxDebt, debts[g] + 1}) \in {MaxDebt, debts[g] + 1}
          /\ Min({MaxDebt, debts[g] + 1}) <= MaxDebt
      BY <1>2, <2>1, MinMaxOfPair
    <2>3. Max({0, debts[g] - 1}) \in {0, debts[g] - 1} /\ Max({0, debts[g] - 1}) >= 0
      BY <2>1, MinMaxOfPair
    <2>4. QED
      BY <1>2, <2>2, <2>3
  <1>4. debts' \in [Groups -> 0 .. MaxDebt]
    BY <1>1, <1>3 DEF CountInode, TypeOK
  <1>5. U16(bg_free[g] - 1) \in Int /\ U16(bg_dirs[g] + 1) \in Int
    <2>1. bg_free[g] - 1 \in Int /\ bg_dirs[g] + 1 \in Int
      BY <1>1 DEF TypeOK
    <2>2. QED
      BY <2>1 DEF U16
  <1>6. bg_free' \in [Groups -> Int] /\ bg_dirs' \in [Groups -> Int]
    BY <1>1, <1>5 DEF CountInode, TypeOK
  <1>7. /\ pc' \in [Tasks -> Labels] /\ fr' \in [Tasks -> Frames]
        /\ pc'[t] = "insert" /\ fr'[t] = fr[t] /\ Only(t)
    BY <1>1, FrameStep DEF CountInode, Labels
  <1>8. TypeOK'
    BY <1>4, <1>6, <1>7 DEF TypeOK, Frames, CountInode, counters, inodes
  <1>9. QED
    BY <1>7, <1>8, OneCall, NumbersStep DEF CountInode, At

\* InsertInode keeps the types, and the numbers of the calls where they may be.
LEMMA InsertInodeTypes ==
    ASSUME TypeOK, NumbersInv, NEW t \in Tasks, InsertInode(t)
    PROVE  TypeOK' /\ NumbersInv' /\ Only(t)
PROOF
  <1>1. PICK label \in {"fail", "quota"} : Goto(t, label)
    BY DEF InsertInode
  <1>2. /\ pc' \in [Tasks -> Labels] /\ fr' \in [Tasks -> Frames]
        /\ pc'[t] = label /\ fr'[t] = fr[t] /\ Only(t)
    BY <1>1, OneCall, FrameStep DEF InsertInode, Labels
  <1>3. fr[t].ino \in Inos
    BY OneCall DEF InsertInode, At
  <1>4. fs_error' \subseteq {"read", "damage"} /\ cached' \subseteq Inos /\ isdir' \subseteq Inos
    BY <1>3 DEF InsertInode, SetMode, TypeOK, Complain
  <1>5. TypeOK'
    BY <1>2, <1>4 DEF TypeOK, Frames, InsertInode, counts, counters
  <1>6. QED
    BY <1>1, <1>2, <1>5, OneCall, NumbersStep DEF InsertInode, At

\* InitQuota keeps the types, and the numbers of the calls where they may be.
LEMMA InitQuotaTypes ==
    ASSUME TypeOK, NumbersInv, NEW t \in Tasks, InitQuota(t)
    PROVE  TypeOK' /\ NumbersInv' /\ Only(t)
PROOF
  <1> DEFINE f == fr[t]
             f2 == [f EXCEPT !.noquota = TRUE]
  <1>1. f \in Frames /\ f.ino \in Inos
    BY OneCall DEF InitQuota, At
  <1>2. f2 \in Frames /\ f2.ino = f.ino
    BY <1>1 DEF Frames
  <1>3. charged' \in Int /\ live' \subseteq Inos /\ cached' \subseteq Inos
    BY <1>1 DEF InitQuota, TypeOK
  <1>4. CASE Finish(t)
    <2>1. /\ pc' \in [Tasks -> Labels] /\ fr' \in [Tasks -> Frames]
          /\ pc'[t] = "idle" /\ Only(t)
      BY <1>4, NoCallFrame, FrameStep DEF Finish, Labels
    <2>2. TypeOK'
      BY <1>3, <2>1 DEF TypeOK, Frames, InitQuota, counts, counters
    <2>3. QED
      BY <2>1, <2>2, NumbersStep
  <1>5. CASE Frame(t, f2) /\ Goto(t, "evict")
    <2>1. /\ pc' \in [Tasks -> Labels] /\ fr' \in [Tasks -> Frames]
          /\ pc'[t] = "evict" /\ fr'[t] = f2 /\ Only(t)
      BY <1>2, <1>5, FrameStep DEF Labels
    <2>2. TypeOK'
      BY <1>3, <2>1 DEF TypeOK, Frames, InitQuota, counts, counters
    <2>3. QED
      BY <1>1, <1>2, <2>1, <2>2, NumbersStep
  <1>6. QED
    BY <1>4, <1>5 DEF InitQuota

\* Fail keeps the types, and the numbers of the calls where they may be.
LEMMA FailTypes ==
    ASSUME TypeOK, NumbersInv, NEW t \in Tasks, Fail(t)
    PROVE  TypeOK' /\ NumbersInv' /\ Only(t)
PROOF
  <1>1. /\ pc' \in [Tasks -> Labels] /\ fr' \in [Tasks -> Frames]
        /\ pc'[t] = "idle" /\ Only(t)
    BY NoCallFrame, FrameStep DEF Fail, Finish, Labels
  <1>2. TypeOK'
    BY <1>1 DEF TypeOK, Frames, Fail, counts, counters, inodes
  <1>3. QED
    BY <1>1, <1>2, NumbersStep

\* Unlink keeps the types, and the numbers of the calls where they may be.
LEMMA UnlinkTypes ==
    ASSUME TypeOK, NumbersInv, NEW t \in Tasks, Unlink(t)
    PROVE  TypeOK' /\ NumbersInv' /\ Only(t)
PROOF
  <1> DEFINE f2(ino) == [NoCall EXCEPT !.ino = ino, !.dir = ino \in isdir]
  <1>1. PICK ino \in live \cap cached :
          /\ Enter(t)
          /\ live' = live \ {ino}
          /\ cached' = cached \ {ino}
          /\ Frame(t, f2(ino))
          /\ Goto(t, "evict")
    BY DEF Unlink
  <1>2. ino \in Inos /\ ino \in Int
    BY GroupOfInos DEF TypeOK
  <1>3. f2(ino) \in Frames /\ f2(ino).ino = ino
    <2>1. CASE ino \in isdir
      <3>1. f2(ino) = [NoCall EXCEPT !.ino = ino, !.dir = TRUE]
        BY <2>1
      <3>2. QED
        BY <1>2, <3>1, NoCallFrame DEF Frames, NoCall
    <2>2. CASE ino \notin isdir
      <3>3. (ino \in isdir) = FALSE
        BY <2>2
      <3>1. f2(ino) = [NoCall EXCEPT !.ino = ino, !.dir = FALSE]
        BY <3>3, Zenon
      <3>2. QED
        BY <1>2, <3>1, NoCallFrame DEF Frames, NoCall
    <2>3. QED
      BY <2>1, <2>2
  <1>4. /\ pc' \in [Tasks -> Labels] /\ fr' \in [Tasks -> Frames]
        /\ pc'[t] = "evict" /\ fr'[t] = f2(ino) /\ Only(t)
    BY <1>1, <1>3, FrameStep DEF Labels
  <1>5. calls' \in [Tasks -> Nat] /\ live' \subseteq Inos /\ cached' \subseteq Inos
    BY <1>1 DEF Enter, TypeOK
  <1>6. TypeOK'
    BY <1>4, <1>5 DEF TypeOK, Frames, Unlink, counts, counters
  <1>7. QED
    BY <1>2, <1>3, <1>4, <1>6, NumbersStep

\* FreeInode keeps the types, and the numbers of the calls where they may be.
LEMMA FreeInodeTypes ==
    ASSUME TypeOK, NumbersInv, NEW t \in Tasks, FreeInode(t)
    PROVE  TypeOK' /\ NumbersInv' /\ Only(t)
PROOF
  <1>1. fr[t] \in Frames /\ fr[t].ino \in Inos
    BY OneCall DEF FreeInode, At
  <1>2. charged' \in Int /\ lost' \subseteq Inos
    BY <1>1 DEF FreeInode, TypeOK
  <1>7. fs_error' \subseteq {"read", "damage"}
    BY DEF FreeInode, TypeOK, Complain
  <1>3. PICK label \in {"idle", "free"}, f \in Frames :
          /\ Goto(t, label) /\ (Frame(t, f) \/ (UNCHANGED fr /\ f = fr[t]))
          /\ label = "free" => f = fr[t]
    BY <1>1, NoCallFrame DEF FreeInode, Finish
  <1>4. /\ pc' \in [Tasks -> Labels] /\ fr' \in [Tasks -> Frames]
        /\ pc'[t] = label /\ fr'[t] = f /\ Only(t)
    BY <1>3, FrameStep DEF Labels
  <1>5. TypeOK'
    BY <1>2, <1>4, <1>7 DEF TypeOK, Frames, FreeInode, counts, counters
  <1>6. QED
    BY <1>1, <1>3, <1>4, <1>5, NumbersStep

\* ClearBit keeps the types, and the numbers of the calls where they may be.
LEMMA ClearBitTypes ==
    ASSUME TypeOK, NumbersInv, NEW t \in Tasks, ClearBit(t)
    PROVE  TypeOK' /\ NumbersInv' /\ Only(t)
PROOF
  <1>1. fr[t] \in Frames /\ fr[t].ino \in Inos
    BY OneCall DEF ClearBit, At
  <1>2. bitmap' \subseteq Inos /\ fs_error' \subseteq {"read", "damage"}
    BY DEF ClearBit, TypeOK, Complain
  <1>3. PICK label \in {"idle", "release"}, f \in Frames :
          /\ Goto(t, label) /\ (Frame(t, f) \/ (UNCHANGED fr /\ f = fr[t]))
          /\ label = "release" => f = fr[t]
    BY <1>1, NoCallFrame DEF ClearBit, Finish
  <1>4. /\ pc' \in [Tasks -> Labels] /\ fr' \in [Tasks -> Frames]
        /\ pc'[t] = label /\ fr'[t] = f /\ Only(t)
    BY <1>3, FrameStep DEF Labels
  <1>5. TypeOK'
    BY <1>2, <1>4 DEF TypeOK, Frames, ClearBit, counts, counters, inodes
  <1>6. QED
    BY <1>1, <1>3, <1>4, <1>5, NumbersStep

\* ReleaseInode keeps the types, and the numbers of the calls where they may be.
LEMMA ReleaseInodeTypes ==
    ASSUME TypeOK, NumbersInv, NEW t \in Tasks, ReleaseInode(t)
    PROVE  TypeOK' /\ NumbersInv' /\ Only(t)
PROOF
  <1> DEFINE g == GroupOf(fr[t].ino)
  <1>1. fr[t] \in Frames /\ fr[t].ino \in Inos /\ g \in Groups
    BY OneCall, GroupOfInos DEF ReleaseInode, At
  <1>2. U16(bg_free[g] + 1) \in Int /\ U16(bg_dirs[g] - 1) \in Int
    <2>1. bg_free[g] + 1 \in Int /\ bg_dirs[g] - 1 \in Int
      BY <1>1 DEF TypeOK
    <2>2. QED
      BY <2>1 DEF U16
  <1>3. bg_free' \in [Groups -> Int] /\ bg_dirs' \in [Groups -> Int]
    BY <1>1, <1>2 DEF ReleaseInode, TypeOK
  <1>4. /\ pc' \in [Tasks -> Labels] /\ fr' \in [Tasks -> Frames]
        /\ pc'[t] = "released" /\ fr'[t] = fr[t] /\ Only(t)
    BY <1>1, FrameStep DEF ReleaseInode, Labels
  <1>5. TypeOK'
    BY <1>3, <1>4 DEF TypeOK, Frames, ReleaseInode, counters, inodes
  <1>6. QED
    BY <1>1, <1>4, <1>5, NumbersStep

\* ReleaseDir keeps the types, and the numbers of the calls where they may be.
LEMMA ReleaseDirTypes ==
    ASSUME TypeOK, NumbersInv, NEW t \in Tasks, ReleaseDir(t)
    PROVE  TypeOK' /\ NumbersInv' /\ Only(t)
PROOF
  <1>1. /\ pc' \in [Tasks -> Labels] /\ fr' \in [Tasks -> Frames]
        /\ pc'[t] = "idle" /\ Only(t)
    BY NoCallFrame, FrameStep DEF ReleaseDir, Finish, Labels
  <1>2. dirs' \in Int
    BY DEF ReleaseDir, TypeOK
  <1>3. TypeOK'
    BY <1>1, <1>2 DEF TypeOK, Frames, ReleaseDir, counts, inodes
  <1>4. QED
    BY <1>1, <1>3, NumbersStep

\* Every step keeps the types and the numbers of the calls where they may be.
LEMMA TypesKept ==
    ASSUME TypeOK, NumbersInv, [Next]_vars
    PROVE  TypeOK' /\ NumbersInv'
PROOF
  <1>1. CASE UNCHANGED vars
    BY <1>1 DEF vars, counts, counters, inodes, TypeOK, NumbersInv
  <1>2. CASE Iget
    BY <1>2 DEF Iget, counts, counters, TypeOK, NumbersInv
  <1>3. QED
    BY <1>1, <1>2, NewInodeTypes, ScanGroupTypes, FindBitTypes, ClaimBitTypes,
       NumberInodeTypes, CountInodeTypes, InsertInodeTypes, InitQuotaTypes, FailTypes,
       UnlinkTypes, FreeInodeTypes, ClearBitTypes, ReleaseInodeTypes, ReleaseDirTypes
    DEF Next, Step

-----------------------------------------------------------------------------
(***************************************************************************)
(* No number twice.                                                        *)
(***************************************************************************)

\* Where a step takes a task.
LEMMA Moves ==
    ASSUME TypeOK, NEW t \in Tasks
    PROVE  /\ \A label : Goto(t, label) => pc'[t] = label
           /\ \A f : Frame(t, f) => fr'[t] = f
           /\ UNCHANGED fr => fr'[t] = fr[t]
           /\ Finish(t) => pc'[t] = "idle" /\ fr'[t] = NoCall
PROOF
  BY DEF TypeOK, Goto, Frame, Finish

\* A number is moved by one task: between its hands, the names, the lost and the bitmap.
LEMMA NumberMoved ==
    ASSUME UseInv, NEW t \in Tasks, Only(t), NEW x, ValidIno(x),
           \A y : y # x => /\ y \in bitmap' <=> y \in bitmap
                           /\ y \in live' <=> y \in live
                           /\ y \in lost' <=> y \in lost
                           /\ y \in isdir' <=> y \in isdir
                           /\ y \in cached' <=> y \in cached,
           \A u \in Tasks \ {t} : x \notin InHand(u),
           InHand(t) \subseteq {x}, InHand(t)' \subseteq {x},
           x \in live' \/ x \in lost' => x \in bitmap' /\ InHand(t)' = {},
           ~(x \in live' /\ x \in lost'), x \in InHand(t)' => x \in bitmap',
           x \in cached' => x \in live' \/ (pc'[t] = "quota" /\ fr'[t].ino = x),
           pc'[t] \in {"quota", "evict", "free"} => (fr'[t].ino \in isdir' <=> fr'[t].dir)
    PROVE  UseInv'
PROOF
  <1>1. \A u \in Tasks \ {t} : InHand(u)' = InHand(u)
    BY DEF InHand, Only
  <1>2. NoInodeTwice'
    <2>1. (live \cup lost)' \subseteq bitmap'
      BY DEF UseInv, NoInodeTwice
    <2>2. \A u \in Tasks : InHand(u)' \subseteq (bitmap \ (live \cup lost))'
      BY <1>1 DEF UseInv, NoInodeTwice
    <2>3. \A u, v \in Tasks : u # v => InHand(u)' \cap InHand(v)' = {}
      <3> TAKE u, v \in Tasks
      <3> HAVE u # v
      <3>1. CASE u = t
        BY <1>1, <3>1
      <3>2. CASE v = t
        BY <1>1, <3>2
      <3>3. CASE u # t /\ v # t
        BY <1>1, <3>3 DEF UseInv, NoInodeTwice
      <3>4. QED
        BY <3>1, <3>2, <3>3
    <2>4. QED
      BY <2>1, <2>2, <2>3 DEF NoInodeTwice
  <1>3. ValidInv'
    <2>1. \A ino : ValidIno(ino)' <=> ValidIno(ino)
      BY DEF ValidIno
    <2>2. \A ino \in Inos \ bitmap' : ValidIno(ino)
      BY DEF UseInv, ValidInv
    <2>3. \A ino \in live' : ValidIno(ino)
      BY DEF UseInv, ValidInv
    <2>4. \A u \in Tasks : \A ino \in InHand(u)' : ValidIno(ino)
      BY <1>1 DEF UseInv, ValidInv
    <2>5. QED
      BY <2>1, <2>2, <2>3, <2>4 DEF ValidInv
  <1>4. CacheInv'
    <2> SUFFICES ASSUME NEW y \in cached', y \notin live'
                 PROVE  \E u \in Tasks : pc'[u] = "quota" /\ fr'[u].ino = y
      BY DEF CacheInv
    <2>1. CASE y = x
      BY <2>1
    <2>2. CASE y # x
      <3>1. PICK u \in Tasks : pc[u] = "quota" /\ fr[u].ino = y
        BY <2>2 DEF UseInv, CacheInv
      <3>2. y \in InHand(u)
        BY <3>1 DEF InHand
      <3>3. u # t
        BY <2>2, <3>2
      <3>4. QED
        BY <3>1, <3>3 DEF Only
    <2>3. QED
      BY <2>1, <2>2
  <1>5. ModeInv'
    <2> SUFFICES ASSUME NEW u \in Tasks, pc'[u] \in {"quota", "evict", "free"}
                 PROVE  fr'[u].ino \in isdir' <=> fr'[u].dir
      BY DEF ModeInv
    <2>1. CASE u = t
      BY <2>1
    <2>2. CASE u # t
      <3>1. pc[u] \in {"quota", "evict", "free"} /\ fr'[u] = fr[u]
        BY <2>2 DEF Only
      <3>2. fr[u].ino \in InHand(u)
        BY <3>1 DEF InHand
      <3>3. fr[u].ino # x
        BY <2>2, <3>2
      <3>4. QED
        BY <3>1, <3>3 DEF UseInv, ModeInv
    <2>3. QED
      BY <2>1, <2>2
  <1>6. (live \cap lost = {})'
    BY DEF UseInv
  <1>7. QED
    BY <1>2, <1>3, <1>4, <1>5, <1>6 DEF UseInv

\* A task with empty hands goes on with empty hands, and nothing changes hands.
LEMMA NothingMoved ==
    ASSUME UseInv, NEW t \in Tasks, Only(t), UNCHANGED <<bitmap, live, lost, isdir, cached>>,
           pc[t] # "quota", InHand(t)' = {},
           pc'[t] \notin {"quota", "evict", "free"}
    PROVE  UseInv'
PROOF
  <1>1. \A u \in Tasks \ {t} : InHand(u)' = InHand(u)
    BY DEF InHand, Only
  <1>2. NoInodeTwice'
    <2>1. \A u, v \in Tasks : u # v => InHand(u)' \cap InHand(v)' = {}
      <3> TAKE u, v \in Tasks
      <3> HAVE u # v
      <3>1. CASE u = t \/ v = t
        BY <3>1
      <3>2. CASE u # t /\ v # t
        BY <1>1, <3>2 DEF UseInv, NoInodeTwice
      <3>3. QED
        BY <3>1, <3>2
    <2>2. QED
      BY <1>1, <2>1 DEF UseInv, NoInodeTwice
  <1>3. ValidInv'
    <2>1. \A ino : ValidIno(ino)' <=> ValidIno(ino)
      BY DEF ValidIno
    <2>2. \A u \in Tasks : \A ino \in InHand(u)' : ValidIno(ino)
      BY <1>1 DEF UseInv, ValidInv
    <2>3. QED
      BY <2>1, <2>2 DEF UseInv, ValidInv
  <1>4. CacheInv'
    BY DEF UseInv, CacheInv, Only
  <1>5. ModeInv'
    BY DEF UseInv, ModeInv, Only
  <1>6. (live \cap lost = {})'
    BY DEF UseInv
  <1>7. QED
    BY <1>2, <1>3, <1>4, <1>5, <1>6 DEF UseInv

\* What a task that holds a number knows of it.
LEMMA Holding ==
    ASSUME UseInv, NEW t \in Tasks,
           pc[t] \in {"got", "count", "insert", "quota", "evict", "free"}
    PROVE  /\ InHand(t) = {fr[t].ino} /\ ValidIno(fr[t].ino)
           /\ fr[t].ino \in bitmap /\ fr[t].ino \notin live /\ fr[t].ino \notin lost
           /\ \A u \in Tasks \ {t} : fr[t].ino \notin InHand(u)
           /\ pc[t] # "quota" => fr[t].ino \notin cached
PROOF
  <1>1. InHand(t) = {fr[t].ino}
    BY DEF InHand
  <1>2. \A u \in Tasks \ {t} : fr[t].ino \notin InHand(u)
    BY <1>1 DEF UseInv, NoInodeTwice
  <1>3. fr[t].ino \in bitmap /\ fr[t].ino \notin live /\ fr[t].ino \notin lost
    BY <1>1 DEF UseInv, NoInodeTwice
  <1>4. pc[t] # "quota" => fr[t].ino \notin cached
    <2> SUFFICES ASSUME pc[t] # "quota", fr[t].ino \in cached PROVE FALSE
      OBVIOUS
    <2>1. PICK u \in Tasks : pc[u] = "quota" /\ fr[u].ino = fr[t].ino
      BY <1>3 DEF UseInv, CacheInv
    <2>2. QED
      BY <1>2, <2>1 DEF InHand
  <1>5. QED
    BY <1>1, <1>2, <1>3, <1>4 DEF UseInv, ValidInv

\* A search, or the accounts of a release, leaves the use of the numbers alone.
LEMMA SearchUse ==
    ASSUME TypeOK, NumbersInv, UseInv, NEW t \in Tasks,
           NewInode(t) \/ ScanGroup(t) \/ FindBit(t) \/ Fail(t) \/ ReleaseInode(t) \/ ReleaseDir(t)
    PROVE  UseInv'
PROOF
  <1>1. Only(t)
    BY NewInodeTypes, ScanGroupTypes, FindBitTypes, FailTypes, ReleaseInodeTypes,
       ReleaseDirTypes
  <1>2. /\ pc[t] \in {"idle", "scan", "find", "nospace", "fail", "release", "released"}
        /\ UNCHANGED <<bitmap, live, lost, isdir, cached>>
    <2>1. CASE NewInode(t)
      <3>1. Enter(t)
        BY <2>1 DEF NewInode
      <3>2. UNCHANGED <<bitmap, counts, counters, inodes, fs_error>>
        BY <2>1 DEF NewInode
      <3>3. QED
        BY <3>1, <3>2 DEF Enter, At, inodes
    <2>2. CASE ScanGroup(t) \/ FindBit(t)
      BY <2>2 DEF ScanGroup, FindBit, At, inodes
    <2>3. CASE Fail(t) \/ ReleaseInode(t) \/ ReleaseDir(t)
      BY <2>3 DEF Fail, ReleaseInode, ReleaseDir, At, inodes
    <2>4. QED
      BY <2>1, <2>2, <2>3
  <1>3. \E label \in {"idle", "scan", "find", "claim", "nospace", "fail", "released"} : Goto(t, label)
    <2>1. CASE NewInode(t)
      BY <2>1 DEF NewInode
    <2>2. CASE ScanGroup(t) \/ FindBit(t)
      BY <2>2 DEF ScanGroup, FindBit, LeaveGroup
    <2>3. CASE Fail(t) \/ ReleaseInode(t) \/ ReleaseDir(t)
      BY <2>3 DEF Fail, ReleaseInode, ReleaseDir, Finish
    <2>4. QED
      BY <2>1, <2>2, <2>3
  <1>4. pc'[t] \in {"idle", "scan", "find", "claim", "nospace", "fail", "released"}
    BY <1>3, Moves
  <1>5. InHand(t)' = {}
    BY <1>4 DEF InHand
  <1>6. QED
    BY <1>1, <1>2, <1>4, <1>5, NothingMoved

\* ClaimBit keeps the use of the numbers in order.
LEMMA ClaimBitUse ==
    ASSUME TypeOK, NumbersInv, UseInv, NEW t \in Tasks, ClaimBit(t)
    PROVE  UseInv'
PROOF
  <1> DEFINE x == fr[t].ino
  <1>1. Only(t) /\ x \in Inos /\ pc[t] = "claim"
    BY ClaimBitTypes, OneCall DEF ClaimBit, At
  <1>2. CASE x \notin bitmap /\ bitmap' = bitmap \cup {x} /\ Goto(t, "got") /\ UNCHANGED fr
    <2>1. pc'[t] = "got" /\ fr'[t] = fr[t]
      BY <1>2, Moves
    <2>2. InHand(t) = {} /\ InHand(t)' = {x}
      BY <1>1, <2>1 DEF InHand
    <2>3. ValidIno(x) /\ x \notin live /\ x \notin lost /\ \A u \in Tasks : x \notin InHand(u)
      BY <1>1, <1>2 DEF UseInv, ValidInv, NoInodeTwice
    <2>4. x \notin cached
      <3> SUFFICES ASSUME x \in cached PROVE FALSE
        OBVIOUS
      <3>1. PICK u \in Tasks : pc[u] = "quota" /\ fr[u].ino = x
        BY <2>3 DEF UseInv, CacheInv
      <3>2. QED
        BY <2>3, <3>1 DEF InHand
    <2>5. UNCHANGED <<live, lost, isdir, cached>>
      BY DEF ClaimBit, inodes
    <2>6. QED
      BY <1>1, <1>2, <2>1, <2>2, <2>3, <2>4, <2>5, NumberMoved
  <1>3. CASE UNCHANGED bitmap /\ (Goto(t, "find") \/ LeaveGroup(t))
    <2>1. pc'[t] \in {"find", "scan"}
      BY <1>3, Moves DEF LeaveGroup
    <2>2. InHand(t)' = {}
      BY <2>1 DEF InHand
    <2>3. UNCHANGED <<live, lost, isdir, cached>>
      BY DEF ClaimBit, inodes
    <2>4. QED
      BY <1>1, <1>3, <2>1, <2>2, <2>3, NothingMoved
  <1>4. QED
    BY <1>2, <1>3 DEF ClaimBit

\* NumberInode keeps the use of the numbers in order, and finds nothing to report.
LEMMA NumberInodeUse ==
    ASSUME TypeOK, NumbersInv, UseInv, NEW t \in Tasks, NumberInode(t)
    PROVE  UseInv' /\ Goto(t, "count") /\ UNCHANGED fs_error
PROOF
  <1> DEFINE x == fr[t].ino
  <1>1. Only(t) /\ pc[t] = "got"
    BY NumberInodeTypes DEF NumberInode, At
  <1>2. ValidIno(x)
    BY <1>1, Holding
  <1>3. Goto(t, "count") /\ UNCHANGED fs_error
    BY <1>2 DEF NumberInode
  <1>4. pc'[t] = "count" /\ fr'[t] = fr[t]
    BY <1>3, Moves DEF NumberInode
  <1>5. InHand(t)' = {x}
    BY <1>4 DEF InHand
  <1>6. UNCHANGED <<bitmap, live, lost, isdir, cached>>
    BY DEF NumberInode, inodes
  <1>7. QED
    BY <1>1, <1>2, <1>3, <1>4, <1>5, <1>6, Holding, NumberMoved

\* CountInode keeps the use of the numbers in order.
LEMMA CountInodeUse ==
    ASSUME TypeOK, NumbersInv, UseInv, NEW t \in Tasks, CountInode(t)
    PROVE  UseInv'
PROOF
  <1> DEFINE x == fr[t].ino
  <1>1. Only(t) /\ pc[t] = "count"
    BY CountInodeTypes DEF CountInode, At
  <1>2. pc'[t] = "insert" /\ fr'[t] = fr[t]
    BY Moves DEF CountInode
  <1>3. InHand(t)' = {x}
    BY <1>2 DEF InHand
  <1>4. UNCHANGED <<bitmap, live, lost, isdir, cached>>
    BY DEF CountInode, inodes
  <1>5. QED
    BY <1>1, <1>2, <1>3, <1>4, Holding, NumberMoved

\* InsertInode keeps the use of the numbers in order, and finds nothing to report.
LEMMA InsertInodeUse ==
    ASSUME TypeOK, NumbersInv, UseInv, NEW t \in Tasks, InsertInode(t)
    PROVE  UseInv' /\ Goto(t, "quota") /\ SetMode(fr[t]) /\ UNCHANGED fs_error
PROOF
  <1> DEFINE x == fr[t].ino
  <1>1. Only(t) /\ pc[t] = "insert"
    BY InsertInodeTypes DEF InsertInode, At
  <1>2. x \notin cached
    BY <1>1, Holding
  <1>3. /\ cached' = cached \cup {x} /\ SetMode(fr[t]) /\ Goto(t, "quota")
        /\ UNCHANGED fs_error
    BY <1>2 DEF InsertInode
  <1>4. pc'[t] = "quota" /\ fr'[t] = fr[t]
    BY <1>3, Moves DEF InsertInode
  <1>5. InHand(t)' = {x}
    BY <1>4 DEF InHand
  <1>6. UNCHANGED <<bitmap, live, lost>>
    BY DEF InsertInode
  <1>7. /\ \A y : y # x => (y \in isdir' <=> y \in isdir)
        /\ x \in isdir' <=> fr[t].dir
    BY <1>3 DEF SetMode
  <1>8. QED
    BY <1>1, <1>3, <1>4, <1>5, <1>6, <1>7, Holding, NumberMoved

\* InitQuota keeps the use of the numbers in order.
LEMMA InitQuotaUse ==
    ASSUME TypeOK, NumbersInv, UseInv, NEW t \in Tasks, InitQuota(t)
    PROVE  UseInv'
PROOF
  <1> DEFINE x == fr[t].ino
             f2 == [fr[t] EXCEPT !.noquota = TRUE]
  <1>1. Only(t) /\ pc[t] = "quota" /\ fr[t] \in Frames
    BY InitQuotaTypes, OneCall DEF InitQuota, At
  <1>2. UNCHANGED <<bitmap, lost, isdir>> /\ (x \in isdir <=> fr[t].dir)
    BY <1>1 DEF InitQuota, UseInv, ModeInv
  <1>3. CASE live' = live \cup {x} /\ Finish(t) /\ UNCHANGED cached
    <2>1. pc'[t] = "idle"
      BY <1>3, Moves
    <2>2. InHand(t)' = {}
      BY <2>1 DEF InHand
    <2>3. QED
      BY <1>1, <1>2, <1>3, <2>1, <2>2, Holding, NumberMoved
  <1>4. CASE cached' = cached \ {x} /\ Frame(t, f2) /\ Goto(t, "evict") /\ UNCHANGED live
    <2>1. pc'[t] = "evict" /\ fr'[t] = f2
      BY <1>4, Moves
    <2>2. f2.ino = x /\ f2.dir = fr[t].dir
      BY <1>1 DEF Frames
    <2>3. InHand(t)' = {x}
      BY <2>1, <2>2 DEF InHand
    <2>4. QED
      BY <1>1, <1>2, <1>4, <2>1, <2>2, <2>3, Holding, NumberMoved
  <1>5. QED
    BY <1>3, <1>4 DEF InitQuota

\* Unlink keeps the use of the numbers in order.
LEMMA UnlinkUse ==
    ASSUME TypeOK, NumbersInv, UseInv, NEW t \in Tasks, Unlink(t)
    PROVE  UseInv'
PROOF
  <1> DEFINE f2(ino) == [NoCall EXCEPT !.ino = ino, !.dir = ino \in isdir]
  <1>1. PICK x \in live \cap cached :
          /\ Enter(t)
          /\ live' = live \ {x}
          /\ cached' = cached \ {x}
          /\ Frame(t, f2(x))
          /\ Goto(t, "evict")
    BY DEF Unlink
  <1>2. Only(t) /\ pc[t] = "idle"
    BY <1>1, UnlinkTypes DEF Enter, At
  <1>3. pc'[t] = "evict" /\ fr'[t] = f2(x)
    BY <1>1, Moves
  <1>4. f2(x).ino = x /\ (f2(x).dir <=> x \in isdir)
    BY DEF NoCall
  <1>5. InHand(t) = {} /\ InHand(t)' = {x}
    BY <1>2, <1>3, <1>4 DEF InHand
  <1>6. UNCHANGED <<bitmap, lost, isdir>>
    BY DEF Unlink
  <1>7. /\ ValidIno(x) /\ x \in bitmap /\ x \notin lost
        /\ \A u \in Tasks : x \notin InHand(u)
    BY DEF UseInv, ValidInv, NoInodeTwice
  <1>8. QED
    BY <1>1, <1>2, <1>3, <1>4, <1>5, <1>6, <1>7, NumberMoved

\* FreeInode keeps the use of the numbers in order, and gives up only a bitmap it cannot read.
LEMMA FreeInodeUse ==
    ASSUME TypeOK, NumbersInv, UseInv, NEW t \in Tasks, FreeInode(t)
    PROVE  UseInv' /\ (UNCHANGED fs_error \/ Complain("read"))
PROOF
  <1> DEFINE x == fr[t].ino
  <1>1. Only(t) /\ pc[t] = "evict"
    BY FreeInodeTypes DEF FreeInode, At
  <1>2. UNCHANGED <<bitmap, live, isdir, cached>>
    BY DEF FreeInode
  <1>3. ValidIno(x) /\ (x \in isdir <=> fr[t].dir)
    BY <1>1, Holding DEF UseInv, ModeInv
  <1>4. CASE Complain("read") /\ lost' = lost \cup {x} /\ Finish(t)
    <2>1. pc'[t] = "idle"
      BY <1>4, Moves
    <2>2. InHand(t)' = {}
      BY <2>1 DEF InHand
    <2>3. QED
      BY <1>1, <1>2, <1>4, <2>1, <2>2, Holding, NumberMoved
  <1>5. CASE Goto(t, "free") /\ UNCHANGED <<lost, fs_error, fr>>
    <2>1. pc'[t] = "free" /\ fr'[t] = fr[t]
      BY <1>5, Moves
    <2>2. InHand(t)' = {x}
      BY <2>1 DEF InHand
    <2>3. QED
      BY <1>1, <1>2, <1>3, <1>5, <2>1, <2>2, Holding, NumberMoved
  <1>6. QED
    BY <1>3, <1>4, <1>5 DEF FreeInode

\* ClearBit keeps the use of the numbers in order, and finds nothing to report.
LEMMA ClearBitUse ==
    ASSUME TypeOK, NumbersInv, UseInv, NEW t \in Tasks, ClearBit(t)
    PROVE  UseInv' /\ Goto(t, "release") /\ UNCHANGED <<fs_error, fr>>
PROOF
  <1> DEFINE x == fr[t].ino
  <1>1. Only(t) /\ pc[t] = "free"
    BY ClearBitTypes DEF ClearBit, At
  <1>2. x \in bitmap
    BY <1>1, Holding
  <1>3. bitmap' = bitmap \ {x} /\ Goto(t, "release") /\ UNCHANGED <<fs_error, fr>>
    BY <1>2 DEF ClearBit
  <1>4. pc'[t] = "release"
    BY <1>3, Moves
  <1>5. InHand(t)' = {}
    BY <1>4 DEF InHand
  <1>6. UNCHANGED <<live, lost, isdir, cached>>
    BY DEF ClearBit, inodes
  <1>7. QED
    BY <1>1, <1>3, <1>4, <1>5, <1>6, Holding, NumberMoved

\* Iget keeps the use of the numbers in order.
LEMMA IgetUse ==
    ASSUME TypeOK, UseInv, Iget
    PROVE  UseInv'
PROOF
  <1>1. UNCHANGED <<bitmap, live, lost, isdir, pc, fr>>
    BY DEF Iget
  <1>2. (\A t \in Tasks : InHand(t)' = InHand(t)) /\ \A ino : ValidIno(ino)' <=> ValidIno(ino)
    BY <1>1 DEF InHand, ValidIno
  <1>3. NoInodeTwice' /\ ValidInv' /\ ModeInv' /\ (live \cap lost = {})'
    BY <1>1, <1>2 DEF UseInv, NoInodeTwice, ValidInv, ModeInv
  <1>4. CacheInv'
    BY <1>1 DEF UseInv, CacheInv, Iget
  <1>5. QED
    BY <1>3, <1>4 DEF UseInv

\* Every step keeps the use of the numbers in order.
LEMMA UseKept ==
    ASSUME TypeOK, NumbersInv, UseInv, [Next]_vars
    PROVE  UseInv'
PROOF
  <1>1. CASE UNCHANGED vars
    <2>1. UNCHANGED <<bitmap, live, lost, isdir, cached, pc, fr>>
      BY <1>1 DEF vars, inodes
    <2>2. (\A t \in Tasks : InHand(t)' = InHand(t)) /\ \A ino : ValidIno(ino)' <=> ValidIno(ino)
      BY <2>1 DEF InHand, ValidIno
    <2>3. QED
      BY <2>1, <2>2 DEF UseInv, NoInodeTwice, ValidInv, CacheInv, ModeInv
  <1>2. QED
    BY <1>1, IgetUse, SearchUse, ClaimBitUse, NumberInodeUse, CountInodeUse,
       InsertInodeUse, InitQuotaUse, UnlinkUse, FreeInodeUse, ClearBitUse
    DEF Next, Step

\* At the start the types are right and no call is under way.
LEMMA InitTypes ==
    ASSUME Init
    PROVE  TypeOK /\ NumbersInv
PROOF
  <1>1. pc \in [Tasks -> Labels] /\ fr \in [Tasks -> Frames] /\ calls \in [Tasks -> Nat]
    BY NoCallFrame DEF Init, Labels
  <1>2. debts \in [Groups -> 0 .. MaxDebt]
    BY ConstantsAssumption DEF Init
  <1>3. \A S \in SUBSET Inos : IsFiniteSet(S) /\ Cardinality(S) \in Int
    BY InosFinite, FS_Subset, FS_CardinalityType
  <1>4. /\ \A g \in Groups : Bits(g) \ InitBitmap \in SUBSET Inos
        /\ \A g \in Groups : Bits(g) \cap InitDirs \in SUBSET Inos
    BY BitsOfGroup
  <1>5. bg_free \in [Groups -> Int] /\ bg_dirs \in [Groups -> Int]
    BY <1>3, <1>4 DEF Init
  <1>6. freeinodes \in Int /\ dirs \in Int /\ charged \in Int
    BY <1>3, ConstantsAssumption DEF Init
  <1>7. /\ bitmap \subseteq Inos /\ live \subseteq Inos /\ isdir \subseteq Inos
        /\ cached \subseteq Inos /\ lost \subseteq Inos /\ fs_error \subseteq {"read", "damage"}
    BY ConstantsAssumption DEF Init
  <1>8. NumbersInv
    BY DEF Init, NumbersInv
  <1>9. QED
    BY <1>1, <1>2, <1>5, <1>6, <1>7, <1>8 DEF TypeOK, Frames

\* At the start, on a sane image.
LEMMA InitUse ==
    ASSUME SaneImage, Init
    PROVE  TypeOK /\ NumbersInv /\ UseInv
PROOF
  <1>1. TypeOK
    BY InitTypes
  <1>2. \A t \in Tasks : pc[t] = "idle" /\ InHand(t) = {}
    BY DEF Init, InHand
  <1>3. NumbersInv /\ ModeInv
    BY <1>2 DEF NumbersInv, ModeInv
  <1>4. NoInodeTwice /\ ValidInv /\ CacheInv /\ live \cap lost = {}
    BY <1>2 DEF Init, SaneImage, NoInodeTwice, ValidInv, CacheInv
  <1>5. QED
    BY <1>1, <1>3, <1>4 DEF UseInv

\* No inode number is ever in use twice, and a number in use has its bit set, however
\* many tasks create and evict inodes and whichever bitmaps cannot be read.
THEOREM NumbersHaveOneUser == SaneImage => (Spec => []NoInodeTwice)
PROOF
  <1> SUFFICES ASSUME SaneImage PROVE Spec => []NoInodeTwice
    OBVIOUS
  <1> DEFINE Inv == TypeOK /\ NumbersInv /\ UseInv
  <1>1. Init => Inv
    BY InitUse
  <1>2. Inv /\ [Next]_vars => Inv'
    BY TypesKept, UseKept
  <1>3. Inv => NoInodeTwice
    BY DEF UseInv
  <1>4. QED
    BY <1>1, <1>2, <1>3, PTL DEF Spec

-----------------------------------------------------------------------------
(***************************************************************************)
(* Nothing is reported that is not there.                                  *)
(***************************************************************************)

\* A step reports nothing but that it could not read a bitmap.
LEMMA ReportsReads ==
    ASSUME TypeOK, NumbersInv, UseInv, [Next]_vars
    PROVE  fs_error' = fs_error \/ Complain("read")
PROOF
  <1>1. CASE UNCHANGED vars
    BY <1>1 DEF vars
  <1>2. CASE Iget
    BY <1>2 DEF Iget
  <1>3. ASSUME NEW t \in Tasks, ScanGroup(t)
        PROVE  fs_error' = fs_error \/ Complain("read")
    BY <1>3 DEF ScanGroup, ReadBitmap, Complain
  <1>4. ASSUME NEW t \in Tasks, NumberInode(t) \/ InsertInode(t) \/ ClearBit(t)
        PROVE  fs_error' = fs_error
    BY <1>4, NumberInodeUse, InsertInodeUse, ClearBitUse
  <1>5. ASSUME NEW t \in Tasks, FreeInode(t)
        PROVE  fs_error' = fs_error \/ Complain("read")
    BY <1>5, FreeInodeUse
  <1>6. ASSUME NEW t \in Tasks,
               \/ NewInode(t) \/ Unlink(t) \/ FindBit(t) \/ ClaimBit(t) \/ CountInode(t)
               \/ InitQuota(t) \/ Fail(t) \/ ReleaseInode(t) \/ ReleaseDir(t)
        PROVE  fs_error' = fs_error
    BY <1>6 DEF NewInode, Unlink, FindBit, ClaimBit, CountInode, InitQuota, Fail,
       ReleaseInode, ReleaseDir
  <1>7. QED
    BY <1>1, <1>2, <1>3, <1>4, <1>5, <1>6 DEF Next, Step

\* On a sane image no interleaving of creations and evictions, whichever bitmaps cannot be
\* read, makes kr_new_inode or kr_free_inode report a reserved number, a number that is in
\* use or a bit that is already clear.
THEOREM NothingReported == SaneImage => (Spec => []NoFalseAlarm)
PROOF
  <1> SUFFICES ASSUME SaneImage PROVE Spec => []NoFalseAlarm
    OBVIOUS
  <1> DEFINE Inv == TypeOK /\ NumbersInv /\ UseInv /\ NoFalseAlarm
  <1>1. Init => Inv
    <2>1. Init => NoFalseAlarm
      BY DEF Init, NoFalseAlarm
    <2>2. QED
      BY <2>1, InitUse
  <1>2. Inv /\ [Next]_vars => Inv'
    <2>1. Inv /\ [Next]_vars => NoFalseAlarm'
      BY ReportsReads DEF NoFalseAlarm, Complain
    <2>2. QED
      BY <2>1, TypesKept, UseKept
  <1>3. QED
    BY <1>1, <1>2, PTL DEF Spec

-----------------------------------------------------------------------------
(***************************************************************************)
(* The counts.  A step is about one call t and one number x, and what it   *)
(* adds to a count is the difference of their weights.                     *)
(***************************************************************************)

\* The places at which the number of a call matters to a count.
Busy == {"got", "count", "insert", "quota", "evict", "free", "release", "released"}

\* What a number and a call contribute to the free inodes of its group, ...
FreeWeight(t, x) == B(x \notin bitmap) + B(pc[t] \in {"got", "count"}) - B(pc[t] = "release")

\* ... to the directories of its group, ...
DirWeight(t, x) ==
    B(x \in isdir \cap (live \cup lost))
        + B(pc[t] \in {"insert", "quota", "evict", "free", "release"} /\ fr[t].dir)

\* ... to those of the filesystem ...
AllDirsWeight(t, x) ==
    B(x \in isdir \cap (live \cup lost))
        + B(pc[t] \in {"count", "insert", "quota", "evict", "free", "release", "released"} /\ fr[t].dir)

\* ... and to the quota.
QuotaWeight(t, x) == B(x \in live) + B(pc[t] = "evict" /\ ~fr[t].noquota)

\* Sets of tasks that agree but on one task.
LEMMA OneTask ==
    ASSUME IsFiniteSet(Tasks), NEW t \in Tasks, NEW S \in SUBSET Tasks, NEW T \in SUBSET Tasks,
           \A u \in Tasks \ {t} : u \in S <=> u \in T
    PROVE  /\ Cardinality(S) \in Nat /\ Cardinality(T) \in Nat
           /\ Cardinality(T) = Cardinality(S) + B(t \in T) - B(t \in S)
           /\ Cardinality(T) <= Cardinality(Tasks) /\ Cardinality(Tasks) \in Nat
PROOF
  <1>1. IsFiniteSet(S) /\ IsFiniteSet(T)
    BY FS_Subset
  <1>2. \A u : u # t => (u \in S <=> u \in T)
    OBVIOUS
  <1>3. Cardinality(T) <= Cardinality(Tasks) /\ Cardinality(Tasks) \in Nat
    BY FS_Subset, FS_CardinalityType
  <1>4. QED
    BY <1>1, <1>2, <1>3, OneElement

\* How the tasks standing somewhere in a group change with one of them.
StandingMove(t, x, L, g) ==
    /\ Cardinality(Standing(L, g)) \in Nat /\ Cardinality(Standing(L, g)') \in Nat
        /\ Cardinality(Standing(L, g)') = Cardinality(Standing(L, g))
             + B(g = GroupOf(x) /\ pc'[t] \in L) - B(g = GroupOf(x) /\ pc[t] \in L)
        /\ Cardinality(WithDir(Standing(L, g))) \in Nat
        /\ Cardinality(WithDir(Standing(L, g))') \in Nat
        /\ Cardinality(WithDir(Standing(L, g))') = Cardinality(WithDir(Standing(L, g)))
             + B(g = GroupOf(x) /\ pc'[t] \in L /\ fr'[t].dir)
             - B(g = GroupOf(x) /\ pc[t] \in L /\ fr[t].dir)
        /\ Cardinality(WithDir(Standing(L, g))') <= Cardinality(Tasks)
        /\ Cardinality(Tasks) \in Nat

\* Tasks standing somewhere in a group, when one of them moves.
LEMMA StandingMoves ==
    ASSUME IsFiniteSet(Tasks), NEW t \in Tasks, NEW x, Only(t),
           pc[t] \in Busy => fr[t].ino = x, pc'[t] \in Busy => fr'[t].ino = x,
           NEW L \in SUBSET Busy, NEW g
    PROVE  StandingMove(t, x, L, g)
PROOF
  <1> DEFINE S == Standing(L, g)
             T == Standing(L, g)'
             V == WithDir(Standing(L, g))
             W == WithDir(Standing(L, g))'
  <1>1. \A u : (u \in S <=> u \in Tasks /\ pc[u] \in L /\ GroupOf(fr[u].ino) = g)
    BY DEF Standing
  <1>2. \A u : (u \in T <=> u \in Tasks /\ pc'[u] \in L /\ GroupOf(fr'[u].ino) = g)
    BY DEF Standing, GroupOf
  <1>3. \A u : (u \in V <=> u \in S /\ fr[u].dir)
    BY DEF WithDir
  <1>4. \A u : (u \in W <=> u \in T /\ fr'[u].dir)
    BY DEF WithDir
  <1> HIDE DEF S, T, V, W
  <1>5. S \in SUBSET Tasks /\ T \in SUBSET Tasks /\ V \in SUBSET Tasks /\ W \in SUBSET Tasks
    BY <1>1, <1>2, <1>3, <1>4
  <1>6. \A u \in Tasks \ {t} : (u \in S <=> u \in T) /\ (u \in V <=> u \in W)
    BY <1>1, <1>2, <1>3, <1>4 DEF Only
  <1>7. (t \in S <=> g = GroupOf(x) /\ pc[t] \in L) /\ (t \in T <=> g = GroupOf(x) /\ pc'[t] \in L)
    BY <1>1, <1>2
  <1>8. /\ t \in V <=> g = GroupOf(x) /\ pc[t] \in L /\ fr[t].dir
        /\ t \in W <=> g = GroupOf(x) /\ pc'[t] \in L /\ fr'[t].dir
    BY <1>3, <1>4, <1>7
  <1>9. /\ Cardinality(S) \in Nat /\ Cardinality(T) \in Nat
        /\ Cardinality(T) = Cardinality(S) + B(t \in T) - B(t \in S)
    BY <1>5, <1>6, OneTask
  <1>10. /\ Cardinality(V) \in Nat /\ Cardinality(W) \in Nat
         /\ Cardinality(W) = Cardinality(V) + B(t \in W) - B(t \in V)
         /\ Cardinality(W) <= Cardinality(Tasks) /\ Cardinality(Tasks) \in Nat
    BY <1>5, <1>6, OneTask
  <1>11. QED
    BY <1>7, <1>8, <1>9, <1>10 DEF B, S, T, V, W, StandingMove

\* A step of call t that concerns the number x: what it must change in the counts.
CountsFollow(t, x) ==
    /\ \A g \in Groups : g # GroupOf(x) => bg_free'[g] = bg_free[g] /\ bg_dirs'[g] = bg_dirs[g]
    /\ LET g == GroupOf(x)
       IN  /\ \/ FreeWeight(t, x)' = FreeWeight(t, x) /\ bg_free'[g] = bg_free[g]
              \/ FreeWeight(t, x)' = FreeWeight(t, x) + 1 /\ bg_free'[g] = U16(bg_free[g] + 1)
              \/ FreeWeight(t, x)' = FreeWeight(t, x) - 1 /\ bg_free'[g] = U16(bg_free[g] - 1)
           /\ \/ DirWeight(t, x)' = DirWeight(t, x) /\ bg_dirs'[g] = bg_dirs[g]
              \/ DirWeight(t, x)' = DirWeight(t, x) + 1 /\ bg_dirs'[g] = U16(bg_dirs[g] + 1)
              \/ DirWeight(t, x)' = DirWeight(t, x) - 1 /\ bg_dirs'[g] = U16(bg_dirs[g] - 1)
    /\ dirs' = dirs + AllDirsWeight(t, x)' - AllDirsWeight(t, x)
    /\ charged' = charged + QuotaWeight(t, x)' - QuotaWeight(t, x)

\* A step that concerns one call and one number.
About(t, x) ==
    /\ Only(t)
    /\ pc[t] \in Busy => fr[t].ino = x
    /\ pc'[t] \in Busy => fr'[t].ino = x
    /\ \A y \in Inos : y # x => /\ y \in bitmap' <=> y \in bitmap
                                /\ y \in isdir' <=> y \in isdir
                                /\ y \in live' <=> y \in live
                                /\ y \in lost' <=> y \in lost

\* The free inodes of a group.
LEMMA FreeFollows ==
    ASSUME CountsFit, TypeOK, CountsAgree, TypeOK', NEW t \in Tasks, NEW x \in Inos,
           About(t, x), CountsFollow(t, x), NEW g \in Groups
    PROVE  bg_free'[g] = U16(Cardinality(Bits(g) \ bitmap')
                             + Cardinality(Standing({"got", "count"}, g)')
                             - Cardinality(Standing({"release"}, g)'))
PROOF
  <1> DEFINE h == GroupOf(x)
             S == Bits(g) \ bitmap
             T == Bits(g) \ bitmap'
             a == Cardinality(Standing({"got", "count"}, g))
             a1 == Cardinality(Standing({"got", "count"}, g)')
             r == Cardinality(Standing({"release"}, g))
             r1 == Cardinality(Standing({"release"}, g)')
  <1>1. /\ a \in Nat /\ a1 \in Nat
        /\ a1 = a + B(g = h /\ pc'[t] \in {"got", "count"}) - B(g = h /\ pc[t] \in {"got", "count"})
    <2>0. /\ IsFiniteSet(Tasks) /\ Only(t)
          /\ pc[t] \in Busy => fr[t].ino = x
          /\ pc'[t] \in Busy => fr'[t].ino = x
      BY DEF About, CountsFit
    <2>1. {"got", "count"} \in SUBSET Busy
      BY DEF Busy
    <2>2. StandingMove(t, x, {"got", "count"}, g)
      BY <2>0, <2>1, StandingMoves
    <2>3. QED
      BY <2>2 DEF StandingMove
  <1>2. /\ r \in Nat /\ r1 \in Nat
        /\ r1 = r + B(g = h /\ pc'[t] = "release") - B(g = h /\ pc[t] = "release")
    <2>0. /\ IsFiniteSet(Tasks) /\ Only(t)
          /\ pc[t] \in Busy => fr[t].ino = x
          /\ pc'[t] \in Busy => fr'[t].ino = x
      BY DEF About, CountsFit
    <2>1. {"release"} \in SUBSET Busy
      BY DEF Busy
    <2>2. StandingMove(t, x, {"release"}, g)
      BY <2>0, <2>1, StandingMoves
    <2>3. QED
      BY <2>2 DEF StandingMove, B
  <1>3. IsFiniteSet(S)
    BY InosFinite, FS_Subset
  <1>4. Bits(g) \subseteq Inos /\ (x \in Bits(g) <=> g = h)
    BY BitsOfGroup, GroupOfInos
  <1>5. \A y : y # x => (y \in S <=> y \in T)
    BY <1>4 DEF About
  <1>6. /\ Cardinality(S) \in Nat /\ Cardinality(T) \in Nat
        /\ Cardinality(T) = Cardinality(S) + B(x \in T) - B(x \in S)
    BY <1>3, <1>5, OneElement
  <1>7. (x \in S <=> g = h /\ x \notin bitmap) /\ (x \in T <=> g = h /\ x \notin bitmap')
    BY <1>4
  <1>8. bg_free[g] = U16(Cardinality(S) + a - r)
    BY DEF CountsAgree
  <1> HIDE DEF a, a1, r, r1, S, T
  <1>9. CASE g # h
    <2>1. Cardinality(T) = Cardinality(S) /\ a1 = a /\ r1 = r
      BY <1>1, <1>2, <1>6, <1>7, <1>9 DEF B
    <2>2. bg_free'[g] = bg_free[g]
      BY <1>9 DEF CountsFollow
    <2>3. QED
      BY <1>8, <2>1, <2>2 DEF a1, r1, T
  <1>10. CASE g = h
    <2>0. /\ FreeWeight(t, x) = B(x \notin bitmap) + B(pc[t] \in {"got", "count"}) - B(pc[t] = "release")
          /\ FreeWeight(t, x)' = B(x \notin bitmap') + B(pc'[t] \in {"got", "count"})
                                  - B(pc'[t] = "release")
      BY DEF FreeWeight, B
    <2>1. Cardinality(T) + a1 - r1 =
            Cardinality(S) + a - r + (FreeWeight(t, x)' - FreeWeight(t, x))
      BY <1>1, <1>2, <1>6, <1>7, <1>10, <2>0 DEF B
    <2>2. \/ FreeWeight(t, x)' = FreeWeight(t, x) /\ bg_free'[g] = bg_free[g]
          \/ FreeWeight(t, x)' = FreeWeight(t, x) + 1 /\ bg_free'[g] = U16(bg_free[g] + 1)
          \/ FreeWeight(t, x)' = FreeWeight(t, x) - 1 /\ bg_free'[g] = U16(bg_free[g] - 1)
      BY <1>10 DEF CountsFollow
    <2>3. FreeWeight(t, x) \in Int
      BY <2>0 DEF B
    <2>4. Cardinality(S) + a - r \in Int
      BY <1>1, <1>2, <1>6
    <2>5. PICK n \in Int : n = Cardinality(S) + a - r
      BY <2>4
    <2>6. \/ Cardinality(T) + a1 - r1 = n /\ bg_free'[g] = U16(n)
          \/ Cardinality(T) + a1 - r1 = n + 1 /\ bg_free'[g] = U16(U16(n) + 1)
          \/ Cardinality(T) + a1 - r1 = n - 1 /\ bg_free'[g] = U16(U16(n) - 1)
      BY <1>8, <2>1, <2>2, <2>3, <2>5
    <2>7. U16(U16(n) + 1) = U16(n + 1) /\ U16(U16(n) - 1) = U16(n - 1)
      BY SixteenBits
    <2>8. bg_free'[g] = U16(Cardinality(T) + a1 - r1)
      BY <2>6, <2>7
    <2>9. QED
      BY <2>8 DEF a1, r1, T
  <1>11. QED
    BY <1>9, <1>10

\* The directories of a group.
LEMMA DirsFollow ==
    ASSUME CountsFit, TypeOK, CountsAgree, TypeOK', NEW t \in Tasks, NEW x \in Inos,
           About(t, x), CountsFollow(t, x), NEW g \in Groups
    PROVE  bg_dirs'[g] = ExpectedDirs(g)'
PROOF
  <1> DEFINE h == GroupOf(x)
             L == {"insert", "quota", "evict", "free", "release"}
             S == Bits(g) \cap isdir \cap (live \cup lost)
             T == Bits(g) \cap isdir' \cap (live' \cup lost')
             a == Cardinality(WithDir(Standing(L, g)))
             a1 == Cardinality(WithDir(Standing(L, g))')
  <1>1. /\ a \in Nat /\ a1 \in Nat
        /\ a1 = a + B(g = h /\ pc'[t] \in L /\ fr'[t].dir) - B(g = h /\ pc[t] \in L /\ fr[t].dir)
        /\ a1 <= Cardinality(Tasks) /\ Cardinality(Tasks) \in Nat
    <2>0. /\ IsFiniteSet(Tasks) /\ Only(t)
          /\ pc[t] \in Busy => fr[t].ino = x
          /\ pc'[t] \in Busy => fr'[t].ino = x
      BY DEF About, CountsFit
    <2>1. L \in SUBSET Busy
      BY DEF Busy
    <2> HIDE DEF L
    <2>2. StandingMove(t, x, L, g)
      BY <2>0, <2>1, StandingMoves
    <2>3. QED
      BY <2>2 DEF StandingMove
  <1>2. Bits(g) \subseteq Inos /\ (x \in Bits(g) <=> g = h)
    BY BitsOfGroup, GroupOfInos
  <1>3. IsFiniteSet(S)
    BY InosFinite, FS_Subset
  <1>4. \A y : y # x => (y \in S <=> y \in T)
    BY <1>2 DEF About
  <1>5. /\ Cardinality(S) \in Nat /\ Cardinality(T) \in Nat
        /\ Cardinality(T) = Cardinality(S) + B(x \in T) - B(x \in S)
    <2> HIDE DEF S, T
    <2>1. QED
      BY <1>3, <1>4, OneElement
  <1>6. Cardinality(T) <= InodesPerGroup
    <2>1. T \subseteq Bits(g) /\ IsFiniteSet(Bits(g))
      BY InosFinite
    <2>2. Cardinality(T) <= Cardinality(Bits(g))
      BY <2>1, FS_Subset
    <2>3. FirstOf(g) \in Int /\ LastOf(g) \in Int /\ LastOf(g) - FirstOf(g) + 1 = InodesPerGroup
      <3>1. g \in Int /\ InodesPerGroup \in Int
        BY ConstantsAssumption DEF Groups
      <3>2. (g + 1) * InodesPerGroup = g * InodesPerGroup + InodesPerGroup
            /\ g * InodesPerGroup \in Int
        BY <3>1
      <3>3. QED
        BY <3>1, <3>2 DEF FirstOf, LastOf
    <2>4. Cardinality(Bits(g)) = InodesPerGroup
      BY <2>3, FS_Interval, ConstantsAssumption DEF Bits
    <2>5. QED
      BY <2>2, <2>4
  <1>7. /\ x \in S <=> g = h /\ x \in isdir \cap (live \cup lost)
        /\ x \in T <=> g = h /\ x \in isdir' \cap (live' \cup lost')
    BY <1>2
  <1>8. bg_dirs[g] = Cardinality(S) + a
    BY DEF CountsAgree, ExpectedDirs
  <1>9. ExpectedDirs(g)' = Cardinality(T) + a1
    BY DEF ExpectedDirs, Bits, FirstOf, LastOf
  <1>10. Cardinality(T) + a1 >= 0 /\ Cardinality(T) + a1 <= 65535
    BY <1>1, <1>5, <1>6, ConstantsAssumption DEF CountsFit
  <1> HIDE DEF a, a1, S, T
  <1>11. CASE g # h
    <2>1. Cardinality(T) = Cardinality(S) /\ a1 = a
      BY <1>1, <1>5, <1>7, <1>11 DEF B
    <2>2. bg_dirs'[g] = bg_dirs[g]
      BY <1>11 DEF CountsFollow
    <2>3. QED
      BY <1>8, <1>9, <2>1, <2>2
  <1>12. CASE g = h
    <2>0. /\ DirWeight(t, x) = B(x \in isdir \cap (live \cup lost)) + B(pc[t] \in L /\ fr[t].dir)
          /\ DirWeight(t, x)' = B(x \in isdir' \cap (live' \cup lost'))
                                 + B(pc'[t] \in L /\ fr'[t].dir)
      BY DEF DirWeight, B
    <2>1. Cardinality(T) + a1 = Cardinality(S) + a + (DirWeight(t, x)' - DirWeight(t, x))
      BY <1>1, <1>5, <1>7, <1>12, <2>0 DEF B
    <2>2. \/ DirWeight(t, x)' = DirWeight(t, x) /\ bg_dirs'[g] = bg_dirs[g]
          \/ DirWeight(t, x)' = DirWeight(t, x) + 1 /\ bg_dirs'[g] = U16(bg_dirs[g] + 1)
          \/ DirWeight(t, x)' = DirWeight(t, x) - 1 /\ bg_dirs'[g] = U16(bg_dirs[g] - 1)
      BY <1>12 DEF CountsFollow
    <2>3. DirWeight(t, x) \in Int
      BY <2>0 DEF B
    <2>4. \/ Cardinality(T) + a1 = Cardinality(S) + a /\ bg_dirs'[g] = bg_dirs[g]
          \/ Cardinality(T) + a1 = Cardinality(S) + a + 1 /\ bg_dirs'[g] = U16(Cardinality(S) + a + 1)
          \/ Cardinality(T) + a1 = Cardinality(S) + a - 1 /\ bg_dirs'[g] = U16(Cardinality(S) + a - 1)
      BY <1>1, <1>5, <1>8, <2>1, <2>2, <2>3
    <2>5. U16(Cardinality(T) + a1) = Cardinality(T) + a1
      BY <1>1, <1>5, <1>10, SixteenBits
    <2>6. QED
      BY <1>8, <1>9, <2>4, <2>5
  <1>13. QED
    BY <1>11, <1>12

\* The counter of directories and the quota.
LEMMA TotalsFollow ==
    ASSUME CountsFit, TypeOK, CountsAgree, InodeQuotaAgrees, TypeOK',
           NEW t \in Tasks, NEW x \in Inos, About(t, x), CountsFollow(t, x)
    PROVE  /\ dirs' = Cardinality(isdir' \cap (live' \cup lost')) + Cardinality(WithDir(Counted)')
           /\ InodeQuotaAgrees'
PROOF
  <1> DEFINE L == {"count", "insert", "quota", "evict", "free", "release", "released"}
             S == isdir \cap (live \cup lost)
             T == isdir' \cap (live' \cup lost')
             V == WithDir(Counted)
             W == WithDir(Counted)'
             P == {u \in Tasks : pc[u] = "evict" /\ ~fr[u].noquota}
             Q == {u \in Tasks : pc'[u] = "evict" /\ ~fr'[u].noquota}
  <1>1. IsFiniteSet(S) /\ \A y : y # x => (y \in S <=> y \in T)
    <2>1. S \subseteq Inos /\ T \subseteq Inos
      BY DEF TypeOK
    <2>2. QED
      BY <2>1, InosFinite, FS_Subset DEF About
  <1>2. IsFiniteSet(live) /\ \A y : y # x => (y \in live <=> y \in live')
    <2>1. live \subseteq Inos /\ live' \subseteq Inos
      BY DEF TypeOK
    <2>2. QED
      BY <2>1, InosFinite, FS_Subset DEF About
  <1>3. /\ V \in SUBSET Tasks /\ W \in SUBSET Tasks
        /\ \A u \in Tasks \ {t} : u \in V <=> u \in W
        /\ t \in V <=> pc[t] \in L /\ fr[t].dir
        /\ t \in W <=> pc'[t] \in L /\ fr'[t].dir
    BY DEF WithDir, Counted, About, Only
  <1>4. /\ P \in SUBSET Tasks /\ Q \in SUBSET Tasks
        /\ \A u \in Tasks \ {t} : u \in P <=> u \in Q
        /\ t \in P <=> pc[t] = "evict" /\ ~fr[t].noquota
        /\ t \in Q <=> pc'[t] = "evict" /\ ~fr'[t].noquota
    BY DEF About, Only
  <1>5. /\ AllDirsWeight(t, x) = B(x \in S) + B(pc[t] \in L /\ fr[t].dir)
        /\ AllDirsWeight(t, x)' = B(x \in T) + B(pc'[t] \in L /\ fr'[t].dir)
    BY DEF AllDirsWeight, B
  <1>6. /\ QuotaWeight(t, x) = B(x \in live) + B(pc[t] = "evict" /\ ~fr[t].noquota)
        /\ QuotaWeight(t, x)' = B(x \in live') + B(pc'[t] = "evict" /\ ~fr'[t].noquota)
    BY DEF QuotaWeight, B
  <1>7. dirs = Cardinality(S) + Cardinality(V) /\ charged = Cardinality(live) + Cardinality(P)
    BY DEF CountsAgree, InodeQuotaAgrees
  <1>8. /\ dirs' = dirs + AllDirsWeight(t, x)' - AllDirsWeight(t, x)
        /\ charged' = charged + QuotaWeight(t, x)' - QuotaWeight(t, x)
    BY DEF CountsFollow
  <1>9. /\ InodeQuotaAgrees' <=> charged' = Cardinality(live') + Cardinality(Q)
    BY DEF InodeQuotaAgrees
  <1>10. IsFiniteSet(Tasks)
    BY DEF CountsFit
  <1> HIDE DEF S, T, V, W, P, Q, L
  <1>11. /\ Cardinality(S) \in Nat /\ Cardinality(T) \in Nat
         /\ Cardinality(T) = Cardinality(S) + B(x \in T) - B(x \in S)
    BY <1>1, OneElement
  <1>12. /\ Cardinality(live) \in Nat /\ Cardinality(live') \in Nat
         /\ Cardinality(live') = Cardinality(live) + B(x \in live') - B(x \in live)
    BY <1>2, OneElement
  <1>13. /\ Cardinality(V) \in Nat /\ Cardinality(W) \in Nat
         /\ Cardinality(W) = Cardinality(V) + B(t \in W) - B(t \in V)
    BY <1>3, <1>10, OneTask
  <1>14. /\ Cardinality(P) \in Nat /\ Cardinality(Q) \in Nat
         /\ Cardinality(Q) = Cardinality(P) + B(t \in Q) - B(t \in P)
    BY <1>4, <1>10, OneTask
  <1>15. dirs' = Cardinality(T) + Cardinality(W)
    BY <1>3, <1>5, <1>7, <1>8, <1>11, <1>13 DEF B
  <1>16. charged' = Cardinality(live') + Cardinality(Q)
    BY <1>4, <1>6, <1>7, <1>8, <1>12, <1>14 DEF B
  <1>17. QED
    BY <1>9, <1>15, <1>16 DEF T, W

\* All of the counts, after a step that concerns one call and one number.
LEMMA CountsMove ==
    ASSUME CountsFit, TypeOK, CountsAgree, InodeQuotaAgrees, TypeOK',
           NEW t \in Tasks, NEW x \in Inos, About(t, x), CountsFollow(t, x)
    PROVE  CountsAgree' /\ InodeQuotaAgrees'
PROOF
  <1>1. \A g \in Groups :
           /\ bg_free'[g] = U16(Cardinality(Bits(g) \ bitmap')
                             + Cardinality(Standing({"got", "count"}, g)')
                             - Cardinality(Standing({"release"}, g)'))
           /\ bg_dirs'[g] = ExpectedDirs(g)'
    BY FreeFollows, DirsFollow
  <1>2. \A g \in Groups : Bits(g)' = Bits(g) /\ \A n \in Int : U16(n)' = U16(n)
    BY DEF Bits, FirstOf, LastOf, U16
  <1>3. QED
    BY <1>1, TotalsFollow DEF CountsAgree, Bits, FirstOf, LastOf, U16

-----------------------------------------------------------------------------
(***************************************************************************)
(* The counts, action by action.                                           *)
(***************************************************************************)

\* A step of a call that no count knows of.
LEMMA StillCounts ==
    ASSUME CountsFit, IallocInv, TypeOK', NEW t \in Tasks, Only(t),
           pc[t] \notin Busy, pc'[t] \notin Busy,
           UNCHANGED <<bitmap, bg_free, bg_dirs, dirs, live, lost, isdir, charged>>
    PROVE  CountsAgree' /\ InodeQuotaAgrees'
PROOF
  <1>1. PICK x \in Inos : x = FirstOf(0)
    <2>1. 0 \in Groups
      BY ConstantsAssumption DEF Groups
    <2>2. QED
      BY <2>1, BitsOfGroup
  <1>2. About(t, x)
    BY DEF About
  <1>3. /\ pc[t] \notin {"got", "count", "insert", "quota", "evict", "free", "release", "released"}
        /\ pc'[t] \notin {"got", "count", "insert", "quota", "evict", "free", "release", "released"}
    BY DEF Busy
  <1>4. /\ FreeWeight(t, x)' = FreeWeight(t, x) /\ DirWeight(t, x)' = DirWeight(t, x)
        /\ AllDirsWeight(t, x)' = AllDirsWeight(t, x) /\ QuotaWeight(t, x)' = QuotaWeight(t, x)
        /\ AllDirsWeight(t, x) \in Int /\ QuotaWeight(t, x) \in Int
    BY <1>3 DEF FreeWeight, DirWeight, AllDirsWeight, QuotaWeight, B
  <1>5. dirs \in Int /\ charged \in Int
    BY DEF IallocInv, TypeOK
  <1>6. CountsFollow(t, x)
    BY <1>4, <1>5 DEF CountsFollow
  <1>7. QED
    BY <1>2, <1>6, CountsMove DEF IallocInv

\* The bit that is set leaves the free ones, and its call joins those that will say so.
LEMMA ClaimBitCounts ==
    ASSUME CountsFit, IallocInv, TypeOK', NEW t \in Tasks, ClaimBit(t)
    PROVE  CountsAgree' /\ InodeQuotaAgrees'
PROOF
  <1>0. TypeOK /\ NumbersInv /\ UseInv /\ CountsAgree /\ InodeQuotaAgrees
    BY DEF IallocInv
  <1>1. Only(t) /\ pc[t] = "claim" /\ fr[t].ino \in Inos
    BY <1>0, ClaimBitTypes, OneCall DEF ClaimBit, At
  <1>2. UNCHANGED <<bg_free, bg_dirs, dirs, live, lost, isdir, charged>>
    BY DEF ClaimBit, counts, counters, inodes
  <1>3. PICK x \in Inos : x = fr[t].ino
    BY <1>1
  <1>4. CASE x \notin bitmap /\ bitmap' = bitmap \cup {x} /\ Goto(t, "got") /\ UNCHANGED fr
    <2>1. pc'[t] = "got" /\ fr'[t] = fr[t]
      BY <1>0, <1>4, Moves
    <2>2. About(t, x)
      BY <1>1, <1>2, <1>3, <1>4, <2>1 DEF About
    <2>3. FreeWeight(t, x)' = FreeWeight(t, x)
      BY <1>1, <1>4, <2>1 DEF FreeWeight, B
    <2>4. /\ DirWeight(t, x)' = DirWeight(t, x)
          /\ AllDirsWeight(t, x)' = AllDirsWeight(t, x) /\ QuotaWeight(t, x)' = QuotaWeight(t, x)
          /\ AllDirsWeight(t, x) \in Int /\ QuotaWeight(t, x) \in Int
      BY <1>1, <1>2, <2>1 DEF DirWeight, AllDirsWeight, QuotaWeight, B
    <2>5. dirs \in Int /\ charged \in Int
      BY <1>0 DEF TypeOK
    <2>6. CountsFollow(t, x)
      BY <1>2, <2>3, <2>4, <2>5 DEF CountsFollow
    <2>7. QED
      BY <1>0, <2>2, <2>6, CountsMove
  <1>5. CASE UNCHANGED bitmap /\ (Goto(t, "find") \/ LeaveGroup(t))
    <2>1. pc'[t] \in {"find", "scan"}
      BY <1>0, <1>5, Moves DEF LeaveGroup
    <2>2. QED
      BY <1>1, <1>2, <1>5, <2>1, StillCounts DEF Busy
  <1>6. QED
    BY <1>3, <1>4, <1>5 DEF ClaimBit

\* s_dirs_counter counts the directory that the call has in hand.
LEMMA NumberInodeCounts ==
    ASSUME CountsFit, IallocInv, TypeOK', NEW t \in Tasks, NumberInode(t)
    PROVE  CountsAgree' /\ InodeQuotaAgrees'
PROOF
  <1>0. TypeOK /\ NumbersInv /\ UseInv /\ CountsAgree /\ InodeQuotaAgrees
    BY DEF IallocInv
  <1>1. /\ Only(t) /\ pc[t] = "got" /\ fr[t].ino \in Inos /\ fr[t].dir \in BOOLEAN
        /\ fr[t].noquota \in BOOLEAN /\ dirs \in Int /\ charged \in Int
    BY <1>0, NumberInodeTypes, OneCall DEF NumberInode, At, TypeOK
  <1>2. UNCHANGED <<bitmap, bg_free, bg_dirs, live, lost, isdir, charged>>
    BY DEF NumberInode, counts, inodes
  <1>3. PICK x \in Inos : x = fr[t].ino
    BY <1>1
  <1>4. pc'[t] = "count" /\ fr'[t] = fr[t]
    BY <1>0, Moves, NumberInodeUse DEF NumberInode
  <1>5. /\ x \notin live /\ x \notin lost
        /\ dirs' = IF fr[t].dir THEN dirs + 1 ELSE dirs
    <2>1. ValidIno(fr[t].ino)
      BY <1>0, <1>1, Holding
    <2>2. QED
      BY <1>0, <1>1, <1>3, <2>1, Holding DEF NumberInode
  <1>6. About(t, x)
    BY <1>1, <1>2, <1>3, <1>4 DEF About, Busy
  <1>7. FreeWeight(t, x)' = FreeWeight(t, x) /\ DirWeight(t, x)' = DirWeight(t, x)
    BY <1>1, <1>2, <1>4 DEF FreeWeight, DirWeight, B
  <1>8. /\ AllDirsWeight(t, x) = 0 /\ AllDirsWeight(t, x)' = B(fr[t].dir)
        /\ QuotaWeight(t, x)' = QuotaWeight(t, x) /\ QuotaWeight(t, x) \in Int
    BY <1>1, <1>2, <1>4, <1>5 DEF AllDirsWeight, QuotaWeight, B
  <1>9. CountsFollow(t, x)
    BY <1>1, <1>2, <1>5, <1>7, <1>8 DEF CountsFollow, B
  <1>10. QED
    BY <1>0, <1>6, <1>9, CountsMove

\* The counts of the group learn of the inode that its bit already tells of.
LEMMA CountInodeCounts ==
    ASSUME CountsFit, IallocInv, TypeOK', NEW t \in Tasks, CountInode(t)
    PROVE  CountsAgree' /\ InodeQuotaAgrees'
PROOF
  <1>0. TypeOK /\ NumbersInv /\ UseInv /\ CountsAgree /\ InodeQuotaAgrees
    BY DEF IallocInv
  <1>1. /\ Only(t) /\ pc[t] = "count" /\ fr[t].ino \in Inos /\ fr[t].dir \in BOOLEAN
        /\ fr[t].noquota \in BOOLEAN /\ dirs \in Int /\ charged \in Int
    BY <1>0, CountInodeTypes, OneCall DEF CountInode, At, TypeOK
  <1>2. UNCHANGED <<bitmap, dirs, live, lost, isdir, charged>>
    BY DEF CountInode, counters, inodes
  <1>3. PICK x \in Inos : x = fr[t].ino
    BY <1>1
  <1>4. pc'[t] = "insert" /\ fr'[t] = fr[t]
    BY <1>0, Moves DEF CountInode
  <1>5. /\ x \notin live /\ x \notin lost /\ x \in bitmap
        /\ GroupOf(x) = fr[t].group /\ fr[t].group \in Groups
        /\ bg_free \in [Groups -> Int] /\ bg_dirs \in [Groups -> Int]
    <2>1. fr[t].ino \in Bits(fr[t].group) /\ fr[t].group \in Groups
      BY <1>0, <1>1, OneCall
    <2>2. QED
      BY <1>0, <1>1, <1>3, <2>1, Holding, BitsOfGroup DEF TypeOK
  <1>11. /\ \A g \in Groups : g # GroupOf(x) => bg_free'[g] = bg_free[g] /\ bg_dirs'[g] = bg_dirs[g]
         /\ bg_free'[GroupOf(x)] = U16(bg_free[GroupOf(x)] - 1)
         /\ bg_dirs'[GroupOf(x)] = IF fr[t].dir THEN U16(bg_dirs[GroupOf(x)] + 1)
                                   ELSE bg_dirs[GroupOf(x)]
    BY <1>5 DEF CountInode
  <1>6. About(t, x)
    BY <1>1, <1>2, <1>3, <1>4 DEF About, Busy
  <1>7. /\ FreeWeight(t, x) = 1 /\ FreeWeight(t, x)' = 0
        /\ DirWeight(t, x) = 0 /\ DirWeight(t, x)' = B(fr[t].dir)
    BY <1>1, <1>2, <1>4, <1>5 DEF FreeWeight, DirWeight, B
  <1>8. /\ AllDirsWeight(t, x)' = AllDirsWeight(t, x) /\ AllDirsWeight(t, x) \in Int
        /\ QuotaWeight(t, x)' = QuotaWeight(t, x) /\ QuotaWeight(t, x) \in Int
    BY <1>1, <1>2, <1>4, <1>5 DEF AllDirsWeight, QuotaWeight, B
  <1>9. CountsFollow(t, x)
    BY <1>1, <1>2, <1>7, <1>8, <1>11 DEF CountsFollow, B
  <1>10. QED
    BY <1>0, <1>6, <1>9, CountsMove

\* The mode of an inode that has no name yet is no concern of the counts.
LEMMA InsertInodeCounts ==
    ASSUME CountsFit, IallocInv, TypeOK', NEW t \in Tasks, InsertInode(t)
    PROVE  CountsAgree' /\ InodeQuotaAgrees'
PROOF
  <1>0. TypeOK /\ NumbersInv /\ UseInv /\ CountsAgree /\ InodeQuotaAgrees
    BY DEF IallocInv
  <1>1. /\ Only(t) /\ pc[t] = "insert" /\ fr[t].ino \in Inos /\ fr[t].dir \in BOOLEAN
        /\ fr[t].noquota \in BOOLEAN /\ dirs \in Int /\ charged \in Int
    BY <1>0, InsertInodeTypes, OneCall DEF InsertInode, At, TypeOK
  <1>2. UNCHANGED <<bitmap, bg_free, bg_dirs, dirs, live, lost, charged>>
    BY DEF InsertInode, counts, counters
  <1>3. PICK x \in Inos : x = fr[t].ino
    BY <1>1
  <1>4. pc'[t] = "quota" /\ fr'[t] = fr[t]
    BY <1>0, Moves, InsertInodeUse DEF InsertInode
  <1>5. /\ x \notin live /\ x \notin lost
        /\ \A y : y # x => (y \in isdir' <=> y \in isdir)
    BY <1>0, <1>1, <1>3, Holding, InsertInodeUse DEF SetMode
  <1>6. About(t, x)
    BY <1>1, <1>2, <1>3, <1>4, <1>5 DEF About, Busy
  <1>7. FreeWeight(t, x)' = FreeWeight(t, x) /\ DirWeight(t, x)' = DirWeight(t, x)
    BY <1>1, <1>2, <1>4, <1>5 DEF FreeWeight, DirWeight, B
  <1>8. /\ AllDirsWeight(t, x)' = AllDirsWeight(t, x) /\ AllDirsWeight(t, x) \in Int
        /\ QuotaWeight(t, x)' = QuotaWeight(t, x) /\ QuotaWeight(t, x) \in Int
    BY <1>1, <1>2, <1>4, <1>5 DEF AllDirsWeight, QuotaWeight, B
  <1>9. CountsFollow(t, x)
    BY <1>1, <1>2, <1>7, <1>8 DEF CountsFollow
  <1>10. QED
    BY <1>0, <1>6, <1>9, CountsMove

\* The bit joins the free ones, and its call those that will say so.
LEMMA ClearBitCounts ==
    ASSUME CountsFit, IallocInv, TypeOK', NEW t \in Tasks, ClearBit(t)
    PROVE  CountsAgree' /\ InodeQuotaAgrees'
PROOF
  <1>0. TypeOK /\ NumbersInv /\ UseInv /\ CountsAgree /\ InodeQuotaAgrees
    BY DEF IallocInv
  <1>1. /\ Only(t) /\ pc[t] = "free" /\ fr[t].ino \in Inos /\ fr[t].dir \in BOOLEAN
        /\ fr[t].noquota \in BOOLEAN /\ dirs \in Int /\ charged \in Int
    BY <1>0, ClearBitTypes, OneCall DEF ClearBit, At, TypeOK
  <1>2. UNCHANGED <<bg_free, bg_dirs, dirs, live, lost, isdir, charged>>
    BY DEF ClearBit, counts, counters, inodes
  <1>3. PICK x \in Inos : x = fr[t].ino
    BY <1>1
  <1>4. pc'[t] = "release" /\ fr'[t] = fr[t]
    BY <1>0, Moves, ClearBitUse
  <1>5. x \in bitmap /\ bitmap' = bitmap \ {x}
    BY <1>0, <1>1, <1>3, Holding DEF ClearBit
  <1>6. About(t, x)
    BY <1>1, <1>2, <1>3, <1>4, <1>5 DEF About, Busy
  <1>7. FreeWeight(t, x)' = FreeWeight(t, x) /\ DirWeight(t, x)' = DirWeight(t, x)
    BY <1>1, <1>2, <1>4, <1>5 DEF FreeWeight, DirWeight, B
  <1>8. /\ AllDirsWeight(t, x)' = AllDirsWeight(t, x) /\ AllDirsWeight(t, x) \in Int
        /\ QuotaWeight(t, x)' = QuotaWeight(t, x) /\ QuotaWeight(t, x) \in Int
    BY <1>1, <1>2, <1>4, <1>5 DEF AllDirsWeight, QuotaWeight, B
  <1>9. CountsFollow(t, x)
    BY <1>1, <1>2, <1>7, <1>8 DEF CountsFollow
  <1>10. QED
    BY <1>0, <1>6, <1>9, CountsMove

\* The counts of the group learn of the bit that was cleared.
LEMMA ReleaseInodeCounts ==
    ASSUME CountsFit, IallocInv, TypeOK', NEW t \in Tasks, ReleaseInode(t)
    PROVE  CountsAgree' /\ InodeQuotaAgrees'
PROOF
  <1>0. TypeOK /\ NumbersInv /\ UseInv /\ CountsAgree /\ InodeQuotaAgrees
    BY DEF IallocInv
  <1>1. /\ Only(t) /\ pc[t] = "release" /\ fr[t].ino \in Inos /\ fr[t].dir \in BOOLEAN
        /\ fr[t].noquota \in BOOLEAN /\ dirs \in Int /\ charged \in Int
    BY <1>0, ReleaseInodeTypes, OneCall DEF ReleaseInode, At, TypeOK
  <1>2. UNCHANGED <<bitmap, dirs, live, lost, isdir, charged>>
    BY DEF ReleaseInode, counters, inodes
  <1>3. PICK x \in Inos : x = fr[t].ino
    BY <1>1
  <1>4. pc'[t] = "released" /\ fr'[t] = fr[t]
    BY <1>0, Moves DEF ReleaseInode
  <1>5. /\ GroupOf(x) \in Groups
        /\ bg_free \in [Groups -> Int] /\ bg_dirs \in [Groups -> Int]
    BY <1>0, GroupOfInos DEF TypeOK
  <1>11. /\ \A g \in Groups : g # GroupOf(x) => bg_free'[g] = bg_free[g] /\ bg_dirs'[g] = bg_dirs[g]
         /\ bg_free'[GroupOf(x)] = U16(bg_free[GroupOf(x)] + 1)
         /\ bg_dirs'[GroupOf(x)] = IF fr[t].dir THEN U16(bg_dirs[GroupOf(x)] - 1)
                                   ELSE bg_dirs[GroupOf(x)]
    BY <1>3, <1>5 DEF ReleaseInode
  <1>6. About(t, x)
    BY <1>1, <1>2, <1>3, <1>4 DEF About, Busy
  <1>7. /\ FreeWeight(t, x) = B(x \notin bitmap) - 1 /\ FreeWeight(t, x)' = B(x \notin bitmap)
        /\ DirWeight(t, x) = DirWeight(t, x)' + B(fr[t].dir) /\ DirWeight(t, x)' \in Int
    BY <1>1, <1>2, <1>4 DEF FreeWeight, DirWeight, B
  <1>8. /\ AllDirsWeight(t, x)' = AllDirsWeight(t, x) /\ AllDirsWeight(t, x) \in Int
        /\ QuotaWeight(t, x)' = QuotaWeight(t, x) /\ QuotaWeight(t, x) \in Int
    BY <1>1, <1>2, <1>4 DEF AllDirsWeight, QuotaWeight, B
  <1>9. CountsFollow(t, x)
    BY <1>1, <1>2, <1>7, <1>8, <1>11 DEF CountsFollow, B
  <1>10. QED
    BY <1>0, <1>6, <1>9, CountsMove

\* s_dirs_counter learns of the directory last.
LEMMA ReleaseDirCounts ==
    ASSUME CountsFit, IallocInv, TypeOK', NEW t \in Tasks, ReleaseDir(t)
    PROVE  CountsAgree' /\ InodeQuotaAgrees'
PROOF
  <1>0. TypeOK /\ NumbersInv /\ UseInv /\ CountsAgree /\ InodeQuotaAgrees
    BY DEF IallocInv
  <1>1. /\ Only(t) /\ pc[t] = "released" /\ fr[t].ino \in Inos /\ fr[t].dir \in BOOLEAN
        /\ dirs \in Int /\ charged \in Int
    BY <1>0, ReleaseDirTypes, OneCall DEF ReleaseDir, At, TypeOK
  <1>2. UNCHANGED <<bitmap, bg_free, bg_dirs, live, lost, isdir, charged>>
    BY DEF ReleaseDir, counts, inodes
  <1>3. PICK x \in Inos : x = fr[t].ino
    BY <1>1
  <1>4. pc'[t] = "idle"
    BY <1>0, Moves DEF ReleaseDir
  <1>5. About(t, x)
    BY <1>1, <1>2, <1>3, <1>4 DEF About, Busy
  <1>6. FreeWeight(t, x)' = FreeWeight(t, x) /\ DirWeight(t, x)' = DirWeight(t, x)
    BY <1>1, <1>2, <1>4 DEF FreeWeight, DirWeight, B
  <1>7. /\ AllDirsWeight(t, x) = AllDirsWeight(t, x)' + B(fr[t].dir) /\ AllDirsWeight(t, x)' \in Int
        /\ QuotaWeight(t, x)' = QuotaWeight(t, x) /\ QuotaWeight(t, x) \in Int
    BY <1>1, <1>2, <1>4 DEF AllDirsWeight, QuotaWeight, B
  <1>8. dirs' = IF fr[t].dir THEN dirs - 1 ELSE dirs
    BY DEF ReleaseDir
  <1>9. CountsFollow(t, x)
    BY <1>1, <1>2, <1>6, <1>7, <1>8 DEF CountsFollow, B
  <1>10. QED
    BY <1>0, <1>5, <1>9, CountsMove

\* A new inode gets its name and is charged, or goes the way of kr_evict_inode uncharged.
LEMMA InitQuotaCounts ==
    ASSUME CountsFit, IallocInv, TypeOK', NEW t \in Tasks, InitQuota(t)
    PROVE  CountsAgree' /\ InodeQuotaAgrees'
PROOF
  <1> DEFINE f2 == [fr[t] EXCEPT !.noquota = TRUE]
  <1>0. TypeOK /\ NumbersInv /\ UseInv /\ CountsAgree /\ InodeQuotaAgrees
    BY DEF IallocInv
  <1>1. /\ Only(t) /\ pc[t] = "quota" /\ fr[t] \in Frames /\ fr[t].ino \in Inos
        /\ dirs \in Int /\ charged \in Int
    BY <1>0, InitQuotaTypes, OneCall DEF InitQuota, At, TypeOK
  <1>2. UNCHANGED <<bitmap, bg_free, bg_dirs, dirs, lost, isdir>>
    BY DEF InitQuota, counts, counters
  <1>3. PICK x \in Inos : x = fr[t].ino
    BY <1>1
  <1>4. x \notin live /\ x \notin lost /\ (x \in isdir <=> fr[t].dir)
    BY <1>0, <1>1, <1>3, Holding DEF UseInv, ModeInv
  <1>5. CASE charged' = charged + 1 /\ live' = live \cup {x} /\ Finish(t)
    <2>1. pc'[t] = "idle"
      BY <1>0, <1>5, Moves
    <2>2. About(t, x)
      BY <1>1, <1>2, <1>3, <1>5, <2>1 DEF About, Busy
    <2>3. FreeWeight(t, x)' = FreeWeight(t, x) /\ DirWeight(t, x)' = DirWeight(t, x)
      BY <1>1, <1>2, <1>4, <1>5, <2>1 DEF FreeWeight, DirWeight, B
    <2>4. /\ AllDirsWeight(t, x)' = AllDirsWeight(t, x) /\ AllDirsWeight(t, x) \in Int
          /\ QuotaWeight(t, x) = 0 /\ QuotaWeight(t, x)' = 1
      BY <1>1, <1>2, <1>4, <1>5, <2>1 DEF AllDirsWeight, QuotaWeight, B
    <2>5. CountsFollow(t, x)
      BY <1>1, <1>2, <1>5, <2>3, <2>4 DEF CountsFollow
    <2>6. QED
      BY <1>0, <2>2, <2>5, CountsMove
  <1>6. CASE Frame(t, f2) /\ Goto(t, "evict") /\ UNCHANGED <<live, charged>>
    <2>1. pc'[t] = "evict" /\ fr'[t] = f2
      BY <1>0, <1>6, Moves
    <2>2. f2.ino = fr[t].ino /\ f2.dir = fr[t].dir /\ f2.noquota = TRUE
      BY <1>1 DEF Frames
    <2> HIDE DEF f2
    <2>3. About(t, x)
      BY <1>1, <1>2, <1>3, <1>6, <2>1, <2>2 DEF About, Busy
    <2>4. FreeWeight(t, x)' = FreeWeight(t, x) /\ DirWeight(t, x)' = DirWeight(t, x)
      BY <1>1, <1>2, <1>4, <1>6, <2>1, <2>2 DEF FreeWeight, DirWeight, B
    <2>5. /\ AllDirsWeight(t, x)' = AllDirsWeight(t, x) /\ AllDirsWeight(t, x) \in Int
          /\ QuotaWeight(t, x)' = QuotaWeight(t, x) /\ QuotaWeight(t, x) \in Int
      BY <1>1, <1>2, <1>4, <1>6, <2>1, <2>2 DEF AllDirsWeight, QuotaWeight, B
    <2>6. CountsFollow(t, x)
      BY <1>1, <1>2, <1>6, <2>4, <2>5 DEF CountsFollow
    <2>7. QED
      BY <1>0, <2>3, <2>6, CountsMove
  <1>7. QED
    BY <1>3, <1>5, <1>6 DEF InitQuota

\* An inode that loses its name stays counted, and charged, through its call.
LEMMA UnlinkCounts ==
    ASSUME CountsFit, IallocInv, TypeOK', NEW t \in Tasks, Unlink(t)
    PROVE  CountsAgree' /\ InodeQuotaAgrees'
PROOF
  <1> DEFINE f2(ino) == [NoCall EXCEPT !.ino = ino, !.dir = ino \in isdir]
  <1>0. TypeOK /\ NumbersInv /\ UseInv /\ CountsAgree /\ InodeQuotaAgrees
    BY DEF IallocInv
  <1>1. PICK x \in live \cap cached :
          /\ Enter(t)
          /\ live' = live \ {x}
          /\ Frame(t, f2(x))
          /\ Goto(t, "evict")
    BY DEF Unlink
  <1>2. /\ Only(t) /\ pc[t] = "idle" /\ x \in Inos /\ dirs \in Int /\ charged \in Int
    BY <1>0, <1>1, UnlinkTypes DEF Enter, At, TypeOK
  <1>3. UNCHANGED <<bitmap, bg_free, bg_dirs, dirs, lost, isdir, charged>>
    BY DEF Unlink, counts, counters
  <1>4. pc'[t] = "evict" /\ fr'[t] = f2(x)
    BY <1>0, <1>1, Moves
  <1>5. f2(x).ino = x /\ (f2(x).dir <=> x \in isdir) /\ f2(x).noquota = FALSE
    BY DEF NoCall
  <1>6. x \in live /\ x \notin lost
    BY <1>0 DEF UseInv
  <1> HIDE DEF f2
  <1>7. About(t, x)
    BY <1>1, <1>2, <1>3, <1>4, <1>5 DEF About, Busy
  <1>8. FreeWeight(t, x)' = FreeWeight(t, x) /\ DirWeight(t, x)' = DirWeight(t, x)
    BY <1>1, <1>2, <1>3, <1>4, <1>5, <1>6 DEF FreeWeight, DirWeight, B
  <1>9. /\ AllDirsWeight(t, x)' = AllDirsWeight(t, x) /\ AllDirsWeight(t, x) \in Int
        /\ QuotaWeight(t, x)' = QuotaWeight(t, x) /\ QuotaWeight(t, x) \in Int
    BY <1>1, <1>2, <1>3, <1>4, <1>5, <1>6 DEF AllDirsWeight, QuotaWeight, B
  <1>10. CountsFollow(t, x)
    BY <1>2, <1>3, <1>8, <1>9 DEF CountsFollow
  <1>11. QED
    BY <1>0, <1>2, <1>7, <1>10, CountsMove

\* kr_free_inode first gives the quota back; an inode it gives up stays counted.
LEMMA FreeInodeCounts ==
    ASSUME CountsFit, IallocInv, TypeOK', NEW t \in Tasks, FreeInode(t)
    PROVE  CountsAgree' /\ InodeQuotaAgrees'
PROOF
  <1>0. TypeOK /\ NumbersInv /\ UseInv /\ CountsAgree /\ InodeQuotaAgrees
    BY DEF IallocInv
  <1>1. /\ Only(t) /\ pc[t] = "evict" /\ fr[t].ino \in Inos /\ fr[t].noquota \in BOOLEAN
        /\ dirs \in Int /\ charged \in Int
    BY <1>0, FreeInodeTypes, OneCall DEF FreeInode, At, TypeOK
  <1>2. /\ UNCHANGED <<bitmap, bg_free, bg_dirs, dirs, live, isdir>>
        /\ charged' = IF fr[t].noquota THEN charged ELSE charged - 1
    BY DEF FreeInode, counts, counters
  <1>3. PICK x \in Inos : x = fr[t].ino
    BY <1>1
  <1>4. x \notin live /\ x \notin lost /\ (x \in isdir <=> fr[t].dir)
    BY <1>0, <1>1, <1>3, Holding DEF UseInv, ModeInv
  <1>5. CASE lost' = lost \cup {x} /\ Finish(t)
    <2>1. pc'[t] = "idle"
      BY <1>0, <1>5, Moves
    <2>2. About(t, x)
      BY <1>1, <1>2, <1>3, <1>5, <2>1 DEF About, Busy
    <2>3. FreeWeight(t, x)' = FreeWeight(t, x) /\ DirWeight(t, x)' = DirWeight(t, x)
      BY <1>1, <1>2, <1>4, <1>5, <2>1 DEF FreeWeight, DirWeight, B
    <2>4. /\ AllDirsWeight(t, x)' = AllDirsWeight(t, x) /\ AllDirsWeight(t, x) \in Int
          /\ QuotaWeight(t, x) = B(~fr[t].noquota) /\ QuotaWeight(t, x)' = 0
      BY <1>1, <1>2, <1>4, <1>5, <2>1 DEF AllDirsWeight, QuotaWeight, B
    <2>5. CountsFollow(t, x)
      BY <1>1, <1>2, <2>3, <2>4 DEF CountsFollow, B
    <2>6. QED
      BY <1>0, <2>2, <2>5, CountsMove
  <1>6. CASE Goto(t, "free") /\ UNCHANGED <<lost, fr>>
    <2>1. pc'[t] = "free" /\ fr'[t] = fr[t]
      BY <1>0, <1>6, Moves
    <2>2. About(t, x)
      BY <1>1, <1>2, <1>3, <1>6, <2>1 DEF About, Busy
    <2>3. FreeWeight(t, x)' = FreeWeight(t, x) /\ DirWeight(t, x)' = DirWeight(t, x)
      BY <1>1, <1>2, <1>4, <1>6, <2>1 DEF FreeWeight, DirWeight, B
    <2>4. /\ AllDirsWeight(t, x)' = AllDirsWeight(t, x) /\ AllDirsWeight(t, x) \in Int
          /\ QuotaWeight(t, x) = B(~fr[t].noquota) /\ QuotaWeight(t, x)' = 0
      BY <1>1, <1>2, <1>4, <1>6, <2>1 DEF AllDirsWeight, QuotaWeight, B
    <2>5. CountsFollow(t, x)
      BY <1>1, <1>2, <2>3, <2>4 DEF CountsFollow, B
    <2>6. QED
      BY <1>0, <2>2, <2>5, CountsMove
  <1>7. QED
    BY <1>3, <1>5, <1>6 DEF FreeInode

\* The search for a number changes no count.
LEMMA SearchCounts ==
    ASSUME CountsFit, IallocInv, TypeOK', NEW t \in Tasks,
           NewInode(t) \/ ScanGroup(t) \/ FindBit(t) \/ Fail(t)
    PROVE  CountsAgree' /\ InodeQuotaAgrees'
PROOF
  <1>0. TypeOK /\ NumbersInv /\ UseInv
    BY DEF IallocInv
  <1>1. Only(t)
    BY <1>0, NewInodeTypes, ScanGroupTypes, FindBitTypes, FailTypes
  <1>2. /\ pc[t] \in {"idle", "scan", "find", "nospace", "fail"}
        /\ UNCHANGED <<bitmap, bg_free, bg_dirs, dirs, live, lost, isdir, charged>>
    <2>1. CASE NewInode(t)
      <3>1. Enter(t)
        BY <2>1 DEF NewInode
      <3>2. UNCHANGED <<bitmap, counts, counters, inodes, fs_error>>
        BY <2>1 DEF NewInode
      <3>3. QED
        BY <3>1, <3>2 DEF Enter, At, inodes, counts, counters
    <2>2. CASE ScanGroup(t) \/ FindBit(t)
      BY <2>2 DEF ScanGroup, FindBit, At, inodes, counts, counters
    <2>3. CASE Fail(t)
      BY <2>3 DEF Fail, At, inodes, counts, counters
    <2>4. QED
      BY <2>1, <2>2, <2>3
  <1>3. \E label \in {"idle", "scan", "find", "claim", "nospace", "fail"} : Goto(t, label)
    <2>1. CASE NewInode(t)
      BY <2>1 DEF NewInode
    <2>2. CASE ScanGroup(t) \/ FindBit(t)
      BY <2>2 DEF ScanGroup, FindBit, LeaveGroup
    <2>3. CASE Fail(t)
      BY <2>3 DEF Fail, Finish
    <2>4. QED
      BY <2>1, <2>2, <2>3
  <1>4. pc'[t] \in {"idle", "scan", "find", "claim", "nospace", "fail"}
    BY <1>0, <1>3, Moves
  <1>5. pc[t] \notin Busy /\ pc'[t] \notin Busy
    BY <1>2, <1>4 DEF Busy
  <1>6. QED
    BY <1>1, <1>2, <1>5, StillCounts

\* A step that changes neither the calls nor what is counted.
LEMMA SameCounts ==
    ASSUME IallocInv,
           UNCHANGED <<bitmap, bg_free, bg_dirs, dirs, live, lost, isdir, charged, pc, fr>>
    PROVE  CountsAgree' /\ InodeQuotaAgrees'
PROOF
  <1>1. \A L, g : Standing(L, g)' = Standing(L, g)
    BY DEF Standing, GroupOf
  <1>2. /\ \A L, g : WithDir(Standing(L, g))' = WithDir(Standing(L, g))
        /\ WithDir(Counted)' = WithDir(Counted)
    BY <1>1 DEF WithDir, Counted
  <1>3. \A g \in Groups : ExpectedDirs(g)' = ExpectedDirs(g)
    BY <1>2 DEF ExpectedDirs, Bits, FirstOf, LastOf
  <1>4. /\ \A g \in Groups :
             /\ bg_free[g] = U16(Cardinality(Bits(g) \ bitmap)
                                 + Cardinality(Standing({"got", "count"}, g))
                                 - Cardinality(Standing({"release"}, g)))
             /\ bg_dirs[g] = ExpectedDirs(g)
        /\ dirs = Cardinality(isdir \cap (live \cup lost)) + Cardinality(WithDir(Counted))
    BY DEF IallocInv, CountsAgree
  <1>5. CountsAgree'
    BY <1>1, <1>2, <1>3, <1>4 DEF CountsAgree, Bits, FirstOf, LastOf, U16
  <1>6. InodeQuotaAgrees'
    BY DEF IallocInv, InodeQuotaAgrees
  <1>7. QED
    BY <1>5, <1>6

\* Every step keeps the counts in agreement.
LEMMA CountsKept ==
    ASSUME CountsFit, IallocInv, TypeOK', [Next]_vars
    PROVE  CountsAgree' /\ InodeQuotaAgrees'
PROOF
  <1>1. CASE UNCHANGED vars
    BY <1>1, SameCounts DEF vars, counts, counters, inodes
  <1>2. CASE Iget
    BY <1>2, SameCounts DEF Iget, counts, counters
  <1>3. QED
    BY <1>1, <1>2, SearchCounts, ClaimBitCounts, NumberInodeCounts, CountInodeCounts,
       InsertInodeCounts, InitQuotaCounts, UnlinkCounts, FreeInodeCounts, ClearBitCounts,
       ReleaseInodeCounts, ReleaseDirCounts
    DEF Next, Step

\* At mount the counts are those of the bitmaps.
LEMMA InitCounts ==
    ASSUME CountsFit, Init
    PROVE  CountsAgree /\ InodeQuotaAgrees
PROOF
  <1>1. \A t \in Tasks : pc[t] = "idle"
    BY DEF Init
  <1>2. \A g : /\ Standing({"got", "count"}, g) = {} /\ Standing({"release"}, g) = {}
               /\ Standing({"insert", "quota", "evict", "free", "release"}, g) = {}
    BY <1>1 DEF Standing
  <1>3. /\ \A g : WithDir(Standing({"insert", "quota", "evict", "free", "release"}, g)) = {}
        /\ Counted = {} /\ WithDir(Counted) = {}
        /\ {t \in Tasks : pc[t] = "evict" /\ ~fr[t].noquota} = {}
    BY <1>1, <1>2 DEF WithDir, Counted
  <1>4. Cardinality({}) = 0
    BY FS_EmptySet
  <1>5. ASSUME NEW g \in Groups
        PROVE  /\ bg_free[g] = U16(Cardinality(Bits(g) \ bitmap))
               /\ Cardinality(Bits(g) \ bitmap) \in Int
               /\ bg_dirs[g] = Cardinality(Bits(g) \cap isdir \cap (live \cup lost))
               /\ bg_dirs[g] \in Int
    <2>1. IsFiniteSet(Bits(g)) /\ Cardinality(Bits(g)) = InodesPerGroup
      <3>1. g \in Int /\ InodesPerGroup \in Int
        BY ConstantsAssumption DEF Groups
      <3>2. (g + 1) * InodesPerGroup = g * InodesPerGroup + InodesPerGroup
            /\ g * InodesPerGroup \in Int
        BY <3>1
      <3>3. FirstOf(g) \in Int /\ LastOf(g) \in Int /\ LastOf(g) - FirstOf(g) + 1 = InodesPerGroup
        BY <3>1, <3>2 DEF FirstOf, LastOf
      <3>4. QED
        BY <3>3, FS_Interval, ConstantsAssumption DEF Bits
    <2>2. PICK n : n = Cardinality(Bits(g) \ InitBitmap)
      OBVIOUS
    <2>3. n \in Nat /\ n <= InodesPerGroup
      <3>1. Bits(g) \ InitBitmap \subseteq Bits(g)
        OBVIOUS
      <3>2. QED
        BY <2>1, <2>2, <3>1, FS_Subset, FS_CardinalityType
    <2>4. U16(n) = n
      <3>1. Cardinality(Tasks) \in Nat
        BY FS_CardinalityType DEF CountsFit
      <3>2. n <= 65535
        BY <2>3, <3>1, ConstantsAssumption DEF CountsFit
      <3>3. QED
        BY <2>3, <3>2, SixteenBits
    <2>5. bg_free[g] = n /\ bitmap = InitBitmap
      BY <2>2 DEF Init
    <2>6. bg_dirs[g] = Cardinality(Bits(g) \cap InitDirs)
      BY DEF Init
    <2>7. Bits(g) \cap isdir \cap (live \cup lost) = Bits(g) \cap InitDirs
      BY ConstantsAssumption DEF Init
    <2>8. Cardinality(Bits(g) \cap InitDirs) \in Int
      <3>1. Bits(g) \cap InitDirs \subseteq Bits(g)
        OBVIOUS
      <3>2. QED
        BY <2>1, <3>1, FS_Subset, FS_CardinalityType
    <2>9. QED
      BY <2>2, <2>3, <2>4, <2>5, <2>6, <2>7, <2>8
  <1>6. dirs = Cardinality(isdir \cap (live \cup lost)) /\ dirs \in Int
    <2>1. isdir \cap (live \cup lost) = InitDirs
      BY ConstantsAssumption DEF Init
    <2>2. IsFiniteSet(InitDirs)
      BY InosFinite, FS_Subset, ConstantsAssumption
    <2>3. dirs = Cardinality(InitDirs)
      BY DEF Init
    <2>4. Cardinality(InitDirs) \in Int
      BY <2>2, FS_CardinalityType
    <2>5. QED
      BY <2>1, <2>3, <2>4
  <1>7. charged = Cardinality(live) /\ charged \in Int
    <2>1. IsFiniteSet(InitLive)
      BY InosFinite, FS_Subset, ConstantsAssumption
    <2>2. QED
      BY <2>1, FS_CardinalityType DEF Init
  <1>8. \A g \in Groups :
          /\ bg_free[g] = U16(Cardinality(Bits(g) \ bitmap)
                              + Cardinality(Standing({"got", "count"}, g))
                              - Cardinality(Standing({"release"}, g)))
          /\ bg_dirs[g] = ExpectedDirs(g)
    <2> TAKE g \in Groups
    <2>1. /\ Cardinality(Standing({"got", "count"}, g)) = 0
          /\ Cardinality(Standing({"release"}, g)) = 0
      BY <1>2, <1>4
    <2>2. Cardinality(WithDir(Standing({"insert", "quota", "evict", "free", "release"}, g))) = 0
      BY <1>3, <1>4
    <2>3. \A n \in Int : n + 0 - 0 = n /\ n + 0 = n
      OBVIOUS
    <2>4. QED
      BY <1>5, <2>1, <2>2, <2>3 DEF ExpectedDirs
  <1>9. /\ dirs = Cardinality(isdir \cap (live \cup lost)) + Cardinality(WithDir(Counted))
        /\ charged = Cardinality(live)
                     + Cardinality({t \in Tasks : pc[t] = "evict" /\ ~fr[t].noquota})
    <2>1. dirs = dirs + 0 /\ charged = charged + 0
      BY <1>6, <1>7
    <2>2. Cardinality(WithDir(Counted)) = 0
      BY <1>3, <1>4
    <2>3. Cardinality({t \in Tasks : pc[t] = "evict" /\ ~fr[t].noquota}) = 0
      BY <1>3, <1>4
    <2>4. QED
      BY <1>6, <1>7, <2>1, <2>2, <2>3
  <1>10. CountsAgree
    BY <1>8, <1>9 DEF CountsAgree
  <1>11. QED
    BY <1>9, <1>10 DEF InodeQuotaAgrees

\* The free inodes and the directories that the groups count, the superblock's counter of
\* directories and the inodes that quota charges agree with the bitmaps, the names and the
\* calls in progress, for any number of tasks and whichever bitmaps cannot be read, as
\* long as the counts of a group fit into their 16 bits.
THEOREM CountsAgreeAlways ==
    ASSUME SaneImage, CountsFit
    PROVE  Spec => []InodeAccountsAgree
PROOF
  <1>1. Init => IallocInv
    BY InitUse, InitCounts DEF IallocInv
  <1>2. IallocInv /\ [Next]_vars => IallocInv'
    <2> SUFFICES ASSUME IallocInv, [Next]_vars PROVE IallocInv'
      OBVIOUS
    <2>1. TypeOK /\ NumbersInv /\ UseInv
      BY DEF IallocInv
    <2>2. TypeOK' /\ NumbersInv' /\ UseInv'
      BY <2>1, TypesKept, UseKept
    <2>3. QED
      BY <2>2, CountsKept DEF IallocInv
  <1>3. IallocInv => InodeAccountsAgree
    BY DEF IallocInv, InodeAccountsAgree
  <1>4. QED
    BY <1>1, <1>2, <1>3, PTL DEF Spec

-----------------------------------------------------------------------------
(***************************************************************************)
(* No bad number, whatever the bitmaps say.                                *)
(***************************************************************************)

\* A number has been checked before it is counted.
CheckedInv ==
    \A t \in Tasks : pc[t] \in {"count", "insert", "quota"} => ValidIno(fr[t].ino)

\* Only NumberInode brings a call among the checked ones.
LEMMA CheckedKept ==
    ASSUME TypeOK, NumbersInv, CheckedInv, [Next]_vars
    PROVE  CheckedInv'
PROOF
  <1>0. \A ino : ValidIno(ino)' <=> ValidIno(ino)
    BY DEF ValidIno
  <1>1. CASE UNCHANGED vars
    BY <1>0, <1>1 DEF vars, CheckedInv
  <1>2. CASE Iget
    BY <1>0, <1>2 DEF Iget, CheckedInv
  <1>3. ASSUME NEW t \in Tasks, Only(t),
               pc'[t] \in {"count", "insert", "quota"} => ValidIno(fr'[t].ino)
        PROVE  CheckedInv'
    BY <1>0, <1>3 DEF CheckedInv, Only
  <1>4. ASSUME NEW t \in Tasks, NumberInode(t)
        PROVE  CheckedInv'
    <2>1. UNCHANGED fr /\ ((~ValidIno(fr[t].ino) /\ Goto(t, "fail")) \/ ValidIno(fr[t].ino))
      BY <1>4 DEF NumberInode
    <2>2. fr'[t] = fr[t] /\ (Goto(t, "fail") => pc'[t] = "fail")
      BY <2>1, Moves
    <2>3. Only(t)
      BY <1>4, NumberInodeTypes
    <2>4. QED
      BY <1>3, <2>1, <2>2, <2>3
  <1>5. ASSUME NEW t \in Tasks, CountInode(t) \/ InsertInode(t)
        PROVE  CheckedInv'
    <2>1. fr'[t] = fr[t] /\ ValidIno(fr[t].ino)
      BY <1>5 DEF CountInode, InsertInode, At, CheckedInv
    <2>2. QED
      BY <1>3, <1>5, <2>1, CountInodeTypes, InsertInodeTypes
  <1>6. ASSUME NEW t \in Tasks, NewInode(t) \/ Unlink(t)
        PROVE  CheckedInv'
    <2>1. Only(t) /\ \E label \in {"nospace", "scan", "evict"} : Goto(t, label)
      BY <1>6, NewInodeTypes, UnlinkTypes DEF NewInode, Unlink
    <2>2. QED
      BY <1>3, <2>1, Moves
  <1>7. ASSUME NEW t \in Tasks, ScanGroup(t) \/ FindBit(t) \/ ClaimBit(t)
        PROVE  CheckedInv'
    <2>1. Only(t) /\ \E label \in {"nospace", "find", "fail", "scan", "claim", "got"} : Goto(t, label)
      BY <1>7, ScanGroupTypes, FindBitTypes, ClaimBitTypes
      DEF ScanGroup, FindBit, ClaimBit, LeaveGroup
    <2>2. QED
      BY <1>3, <2>1, Moves
  <1>8. ASSUME NEW t \in Tasks, InitQuota(t) \/ Fail(t) \/ FreeInode(t)
        PROVE  CheckedInv'
    <2>1. Only(t) /\ \E label \in {"idle", "evict", "free"} : Goto(t, label)
      BY <1>8, InitQuotaTypes, FailTypes, FreeInodeTypes DEF InitQuota, Fail, FreeInode, Finish
    <2>2. QED
      BY <1>3, <2>1, Moves
  <1>9. ASSUME NEW t \in Tasks, ClearBit(t) \/ ReleaseInode(t) \/ ReleaseDir(t)
        PROVE  CheckedInv'
    <2>1. Only(t) /\ \E label \in {"release", "idle", "released"} : Goto(t, label)
      BY <1>9, ClearBitTypes, ReleaseInodeTypes, ReleaseDirTypes
      DEF ClearBit, ReleaseInode, ReleaseDir, Finish
    <2>2. QED
      BY <1>3, <2>1, Moves
  <1>10. QED
    BY <1>1, <1>2, <1>4, <1>5, <1>6, <1>7, <1>8, <1>9 DEF Next, Step

\* Only InitQuota gives an inode a name, its call's own.
LEMMA NamesGiven ==
    ASSUME CheckedInv, [Next]_vars, NEW ino \in live' \ live
    PROVE  ValidIno(ino) /\ \E t \in Tasks : pc[t] = "quota" /\ fr[t].ino = ino
PROOF
  <1>1. CASE UNCHANGED vars
    BY <1>1 DEF vars, inodes
  <1>2. CASE Iget
    BY <1>2 DEF Iget
  <1>3. ASSUME NEW t \in Tasks, NewInode(t) \/ Unlink(t)
        PROVE  FALSE
    <2>1. live' \subseteq live
      BY <1>3 DEF NewInode, Unlink, inodes
    <2>2. QED
      BY <2>1
  <1>4. ASSUME NEW t \in Tasks, ScanGroup(t) \/ FindBit(t) \/ ClaimBit(t) \/ NumberInode(t)
        PROVE  FALSE
    BY <1>4 DEF ScanGroup, FindBit, ClaimBit, NumberInode, inodes
  <1>5. ASSUME NEW t \in Tasks, CountInode(t) \/ InsertInode(t) \/ Fail(t) \/ FreeInode(t)
        PROVE  FALSE
    BY <1>5 DEF CountInode, InsertInode, Fail, FreeInode, inodes
  <1>6. ASSUME NEW t \in Tasks, ClearBit(t) \/ ReleaseInode(t) \/ ReleaseDir(t)
        PROVE  FALSE
    BY <1>6 DEF ClearBit, ReleaseInode, ReleaseDir, inodes
  <1>7. ASSUME NEW t \in Tasks, InitQuota(t)
        PROVE  ValidIno(ino) /\ pc[t] = "quota" /\ fr[t].ino = ino
    <2>1. pc[t] = "quota" /\ fr[t].ino = ino
      BY <1>7 DEF InitQuota, At
    <2>2. QED
      BY <2>1 DEF CheckedInv
  <1>8. QED
    BY <1>1, <1>2, <1>3, <1>4, <1>5, <1>6, <1>7 DEF Next, Step

\* The inode of a call that is making one is in the cache, and is no other call's.
MakingInv ==
    \A t \in Tasks : pc[t] = "quota" =>
        /\ fr[t].ino \in cached
        /\ \A u \in Tasks \ {t} : pc[u] = "quota" => fr[u].ino # fr[t].ino

\* A call enters the cache with a number that is not there.
EntersAlone == \A t \in Tasks : pc'[t] = "quota" => pc[t] = "quota" \/ fr'[t].ino \notin cached

\* Only InsertInode brings a call among those that are making an inode, and neither an
\* eviction nor a failed creation takes the inode of another out of the cache.
LEMMA MakingKept ==
    ASSUME TypeOK, NumbersInv, MakingInv, [Next]_vars
    PROVE  MakingInv' /\ EntersAlone
PROOF
  <1>1. CASE UNCHANGED vars
    BY <1>1 DEF vars, inodes, MakingInv, EntersAlone
  <1>2. CASE Iget
    BY <1>2 DEF Iget, MakingInv, EntersAlone
  <1>3. ASSUME NEW t \in Tasks, Only(t), pc'[t] # "quota",
               \A u \in Tasks \ {t} : pc[u] = "quota" => fr[u].ino \in cached'
        PROVE  MakingInv' /\ EntersAlone
    BY <1>3 DEF MakingInv, EntersAlone, Only
  <1>4. ASSUME NEW t \in Tasks, Only(t), pc'[t] # "quota", cached' = cached
        PROVE  MakingInv' /\ EntersAlone
    BY <1>3, <1>4 DEF MakingInv
  <1>5. ASSUME NEW t \in Tasks, NumberInode(t) \/ CountInode(t)
        PROVE  MakingInv' /\ EntersAlone
    <2>1. Only(t) /\ \E label \in {"fail", "count", "insert"} : Goto(t, label)
      BY <1>5, NumberInodeTypes, CountInodeTypes DEF NumberInode, CountInode
    <2>2. cached' = cached
      BY <1>5 DEF NumberInode, CountInode, inodes
    <2>3. QED
      BY <1>4, <2>1, <2>2, Moves
  <1>6. ASSUME NEW t \in Tasks, InsertInode(t)
        PROVE  MakingInv' /\ EntersAlone
    <2>1. Only(t) /\ fr' = fr
      BY <1>6, InsertInodeTypes DEF InsertInode
    <2>2. CASE fr[t].ino \in cached
      <3>1. cached' = cached /\ Goto(t, "fail")
        BY <1>6, <2>2 DEF InsertInode
      <3>2. QED
        BY <1>4, <2>1, <3>1, Moves
    <2>3. CASE fr[t].ino \notin cached
      <3>1. cached' = cached \cup {fr[t].ino}
        BY <1>6, <2>3 DEF InsertInode
      <3>2. QED
        BY <2>1, <2>3, <3>1 DEF MakingInv, EntersAlone, Only
    <2>4. QED
      BY <2>2, <2>3
  <1>7. ASSUME NEW t \in Tasks, InitQuota(t)
        PROVE  MakingInv' /\ EntersAlone
    <2>1. Only(t) /\ \E label \in {"idle", "evict"} : Goto(t, label)
      BY <1>7, InitQuotaTypes DEF InitQuota, Finish
    <2>2. pc[t] = "quota" /\ (cached' = cached \/ cached' = cached \ {fr[t].ino})
      BY <1>7 DEF InitQuota, At
    <2>3. \A u \in Tasks \ {t} : pc[u] = "quota" => fr[u].ino \in cached'
      BY <2>2 DEF MakingInv
    <2>4. QED
      BY <1>3, <2>1, <2>3, Moves
  <1>8. ASSUME NEW t \in Tasks, Unlink(t)
        PROVE  MakingInv' /\ EntersAlone
    <2>1. Only(t) /\ Goto(t, "evict")
      BY <1>8, UnlinkTypes DEF Unlink
    <2>2. PICK ino \in live \cap cached : cached' = cached \ {ino} /\ ~BeingMade(ino)
      BY <1>8 DEF Unlink
    <2>3. \A u \in Tasks \ {t} : pc[u] = "quota" => fr[u].ino \in cached'
      BY <2>2 DEF MakingInv, BeingMade, At
    <2>4. QED
      BY <1>3, <2>1, <2>3, Moves
  <1>9. ASSUME NEW t \in Tasks, NewInode(t)
        PROVE  MakingInv' /\ EntersAlone
    <2>1. Only(t) /\ \E label \in {"nospace", "scan"} : Goto(t, label)
      BY <1>9, NewInodeTypes DEF NewInode
    <2>2. cached' = cached
      BY <1>9 DEF NewInode, inodes
    <2>3. QED
      BY <1>4, <2>1, <2>2, Moves
  <1>10. ASSUME NEW t \in Tasks, ScanGroup(t) \/ FindBit(t) \/ ClaimBit(t)
        PROVE  MakingInv' /\ EntersAlone
    <2>1. Only(t) /\ \E label \in {"nospace", "find", "fail", "scan", "claim", "got"} : Goto(t, label)
      BY <1>10, ScanGroupTypes, FindBitTypes, ClaimBitTypes
      DEF ScanGroup, FindBit, ClaimBit, LeaveGroup
    <2>2. cached' = cached
      BY <1>10 DEF ScanGroup, FindBit, ClaimBit, inodes
    <2>3. QED
      BY <1>4, <2>1, <2>2, Moves
  <1>11. ASSUME NEW t \in Tasks, Fail(t) \/ FreeInode(t)
        PROVE  MakingInv' /\ EntersAlone
    <2>1. Only(t) /\ \E label \in {"idle", "free"} : Goto(t, label)
      BY <1>11, FailTypes, FreeInodeTypes DEF Fail, FreeInode, Finish
    <2>2. cached' = cached
      BY <1>11 DEF Fail, FreeInode, inodes
    <2>3. QED
      BY <1>4, <2>1, <2>2, Moves
  <1>12. ASSUME NEW t \in Tasks, ClearBit(t) \/ ReleaseInode(t) \/ ReleaseDir(t)
        PROVE  MakingInv' /\ EntersAlone
    <2>1. Only(t) /\ \E label \in {"release", "idle", "released"} : Goto(t, label)
      BY <1>12, ClearBitTypes, ReleaseInodeTypes, ReleaseDirTypes
      DEF ClearBit, ReleaseInode, ReleaseDir, Finish
    <2>2. cached' = cached
      BY <1>12 DEF ClearBit, ReleaseInode, ReleaseDir, inodes
    <2>3. QED
      BY <1>4, <2>1, <2>2, Moves
  <1>13. QED
    BY <1>1, <1>2, <1>5, <1>6, <1>7, <1>8, <1>9, <1>10, <1>11, <1>12 DEF Next, Step

\* Whatever the bitmaps of the image say, kr_new_inode makes no inode with a reserved
\* number or one past s_inodes_count, and none with the number of an inode that is in the
\* cache or that another call is making.
THEOREM NoBadNumber == Spec => NoBadInode
PROOF
  <1> DEFINE Inv == TypeOK /\ NumbersInv /\ CheckedInv /\ MakingInv
  <1>1. Init => Inv
    <2>1. Init => CheckedInv /\ MakingInv
      BY DEF Init, CheckedInv, MakingInv
    <2>2. QED
      BY <2>1, InitTypes
  <1>2. Inv /\ [Next]_vars => Inv'
    BY TypesKept, CheckedKept, MakingKept
  <1>3. Inv /\ [Next]_vars =>
          [/\ \A ino \in live' \ live : ValidIno(ino)
           /\ \A t \in Tasks :
                pc'[t] = "quota" =>
                  /\ ValidIno(fr'[t].ino)
                  /\ pc[t] # "quota" => fr'[t].ino \notin cached
                  /\ \A u \in Tasks \ {t} : pc'[u] = "quota" => fr'[u].ino # fr'[t].ino]_vars
    <2> SUFFICES ASSUME Inv, [Next]_vars
                 PROVE  /\ \A ino \in live' \ live : ValidIno(ino)
                        /\ \A t \in Tasks :
                             pc'[t] = "quota" =>
                               /\ ValidIno(fr'[t].ino)
                               /\ pc[t] # "quota" => fr'[t].ino \notin cached
                               /\ \A u \in Tasks \ {t} :
                                     pc'[u] = "quota" => fr'[u].ino # fr'[t].ino
      OBVIOUS
    <2>1. \A ino \in live' \ live : ValidIno(ino)
      BY NamesGiven
    <2>2. CheckedInv' /\ MakingInv' /\ EntersAlone
      BY CheckedKept, MakingKept
    <2>3. \A t \in Tasks : pc'[t] = "quota" => ValidIno(fr'[t].ino)
      BY <2>2 DEF CheckedInv, ValidIno
    <2>4. \A t \in Tasks : pc'[t] = "quota" =>
             \A u \in Tasks \ {t} : pc'[u] = "quota" => fr'[u].ino # fr'[t].ino
      BY <2>2 DEF MakingInv
    <2>5. QED
      BY <2>1, <2>2, <2>3, <2>4 DEF EntersAlone
  <1>4. QED
    BY <1>1, <1>2, <1>3, PTL DEF Spec, NoBadInode
=============================================================================
