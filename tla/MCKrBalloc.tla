------------------------------ MODULE MCKrBalloc ------------------------------
(***************************************************************************)
(* Instances of KrBalloc: two groups of six bits on blocks 1 .. 12, of which*)
(* the last is past the end of the filesystem.  Bitmaps and a one-block    *)
(* inode table are next to each other, as mkfs lays them out: at the start *)
(* of group 0 and, as with a stride, one block into group 1.  Five blocks  *)
(* are left for data, 4 .. 7 and 11, and 6, 7 are contiguous across the    *)
(* boundary of the groups.                                                 *)
(***************************************************************************)
EXTENDS KrBalloc

CONSTANTS i1, i2

MCMetadata ==
    [g \in 0 .. 1 |-> [block_bitmap |-> 1 + 7 * g, inode_bitmap |-> 2 + 7 * g,
                       inode_table |-> 3 + 7 * g, itb |-> 1]]

MCInodes == {i1, i2}

\* i2 is a directory, or the file of an ordinary writer.
MCOneRegular == {i1}

\* Bounds on the calls made on i1 and i2.
MCCalls22 == [i \in MCInodes |-> 2]
MCCalls32 == [i \in MCInodes |-> IF i = i1 THEN 3 ELSE 2]

MCInitBitmap == {1, 2, 3, 8, 9, 10, 12}
MCNothingOwned == [i \in MCInodes |-> {}]

\* A filesystem in use: i1 maps a run across the groups.
MCInitBitmapUsed == MCInitBitmap \cup {5, 6, 7}
MCOwned == [i \in MCInodes |-> IF i = i1 THEN {6, 7} ELSE {5}]

\* The filesystems that are checked are sane when they are mounted.
ASSUME MountAssumption ==
    SaneMount /\ SaneZones /\ SaneCounts /\ DescriptorsChecked /\ TablesBehindBitmaps
=============================================================================
