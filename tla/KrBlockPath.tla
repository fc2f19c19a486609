----------------------------- MODULE KrBlockPath -----------------------------
(***************************************************************************)
(* Where the pointer to a block of a file is kept (kr_block_to_path of     *)
(* Exercises/Exercise19/inode.c).  The inode has NDir direct pointers and  *)
(* one pointer each to a single, a double and a triple indirect block; an  *)
(* indirect block holds 2^bits pointers.                                   *)
(***************************************************************************)
EXTENDS Integers, Sequences

CONSTANT NDir    \* KR_NDIR_BLOCKS (12)

ASSUME NDirAssumption == NDir \in Nat \ {0}

\* KR_IND_BLOCK, KR_DIND_BLOCK and KR_TIND_BLOCK, slots of i_data.
IND == NDir
DIND == NDir + 1
TIND == NDir + 2

\* KR_ADDR_PER_BLOCK.
AddrPerBlock(bits) == 2 ^ bits

\* How many blocks a file can have: the reference, not the code.
FileBlocks(bits) ==
    LET ptrs == AddrPerBlock(bits)
    IN  NDir + ptrs + ptrs * ptrs + ptrs * ptrs * ptrs

\* The offsets of the pointers that lead to i_block, from i_data down; none when
\* the block is out of range.  The last test is on a quotient, as in the code.
kr_block_to_path(bits, i_block) ==
    LET ptrs == AddrPerBlock(bits)
        i1 == i_block - NDir
        i2 == i1 - ptrs
        i3 == i2 - ptrs * ptrs
    IN  IF i_block < 0 THEN <<>>
        ELSE IF i_block < NDir THEN <<i_block>>
        ELSE IF i1 < ptrs THEN <<IND, i1>>
        ELSE IF i2 < ptrs * ptrs THEN <<DIND, i2 \div ptrs, i2 % ptrs>>
        ELSE IF i3 \div (ptrs * ptrs) < ptrs
        THEN <<TIND, i3 \div (ptrs * ptrs), (i3 \div ptrs) % ptrs, i3 % ptrs>>
        ELSE <<>>

\* *boundary: how many pointers follow, in the same array, the one to i_block.
\* i_block & (ptrs - 1) is taken after the subtractions that found the range.
boundary(bits, i_block) ==
    LET path == kr_block_to_path(bits, i_block)
        final == IF Len(path) = 1 THEN NDir ELSE AddrPerBlock(bits)
    IN  final - 1 - (path[Len(path)] % AddrPerBlock(bits))
=============================================================================
