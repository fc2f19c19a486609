----------------------------- MODULE MCKrBlockMap -----------------------------
(***************************************************************************)
(* Instances of KrBlockMap: one direct pointer, two pointers in a block,   *)
(* so that block 0 of the file is direct, 1 and 2 are under the indirect   *)
(* block, 3 .. 6 under the double and 7 .. 14 under the triple one.        *)
(***************************************************************************)
EXTENDS KrBlockMap, TLC

CONSTANTS t1, t2

MCTasks == {t1, t2}

NoPointers == [b \in Nodes |-> [o \in Slots(b) |-> 0]]

\* Blocks 1 and 2 of the file, in blocks 2 and 3.
FullIndirect == [NoPointers EXCEPT ![Inode][IND] = 1, ![1] = 0 :> 2 @@ 1 :> 3]

\* Block 2 of the file only: block 1 is a hole under an indirect block.
HoleIndirect == [NoPointers EXCEPT ![Inode][IND] = 1, ![1][1] = 2]

\* Blocks 0 and 4: a hole under the lower block of the double indirect one.
HoleDouble ==
    [NoPointers EXCEPT ![Inode] = 0 :> 1 @@ IND :> 0 @@ DIND :> 2 @@ TIND :> 0,
                       ![2][0] = 3, ![3][1] = 4]

MCTrees == {FullIndirect, HoleIndirect, HoleDouble}
MCSize == [t \in MCTrees |-> IF t = HoleDouble THEN 5 ELSE 3]

MCIndirect == {FullIndirect, HoleIndirect}
MCIndirectSize == [t \in MCIndirect |-> 3]

MCRace == t1 :> {"read", "writepage", "bmap"} @@ t2 :> {"write", "setsize"}
MCEvicter == t1 :> {"writepage"} @@ t2 :> {"write", "evict"}

\* Block 7: the first one under the triple indirect block.
Triple == [NoPointers EXCEPT ![Inode][TIND] = 2, ![2][0] = 3, ![3][0] = 4, ![4][0] = 5]
MCTriple == {Triple, NoPointers}
MCTripleSize == [t \in MCTriple |-> IF t = Triple THEN 8 ELSE 0]

MCCalls11 == [t \in MCTasks |-> 1]
MCCalls12 == t1 :> 1 @@ t2 :> 2

\* Each block is in one place, free, in the file, with another file or in the hands of a
\* call, and a call that has returned holds no buffer.
NothingLostOrHeld == TypeOK /\ NothingLost /\ BuffersReleased
=============================================================================
