------------------------------ MODULE KrFileMap ------------------------------
(***************************************************************************)
(* What the pointer tree of an inode promises: a partial map from the      *)
(* blocks of a file to blocks of the filesystem and a size.  A block is    *)
(* mapped only when it was a hole, two blocks of the file never have the   *)
(* same block, and a mapping is dropped only when it lies at or past the   *)
(* size, which changes by itself.                                          *)
(***************************************************************************)
EXTENDS Integers

CONSTANTS LastBlock, NBlocks

VARIABLES
    map,   \* the block of each block of the file, 0 for a hole
    size   \* of the file, in blocks

Mapped == {i \in 0 .. LastBlock : map[i] # 0}

Init ==
    /\ map \in [0 .. LastBlock -> 0 .. NBlocks]
    /\ \A i, j \in Mapped : map[i] = map[j] => i = j
    /\ size \in 0 .. LastBlock + 1

\* Holes get blocks that nothing of the file has.
Fill ==
    LET changed == {i \in 0 .. LastBlock : map'[i] # map[i]}
    IN  /\ map' \in [0 .. LastBlock -> 0 .. NBlocks]
        /\ \A i \in changed : map[i] = 0
        /\ \A i \in changed, j \in 0 .. LastBlock : map'[i] = map'[j] => i = j
        /\ UNCHANGED size

\* Blocks past the size lose theirs.
Drop ==
    /\ map' \in [0 .. LastBlock -> 0 .. NBlocks]
    /\ \A i \in 0 .. LastBlock : map'[i] = map[i] \/ (i >= size /\ map'[i] = 0)
    /\ UNCHANGED size

Resize == size' \in 0 .. LastBlock + 1 /\ UNCHANGED map

Next == Fill \/ Drop \/ Resize

Spec == Init /\ [][Next]_<<map, size>>
=============================================================================
