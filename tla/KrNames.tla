-------------------------------- MODULE KrNames --------------------------------
(***************************************************************************)
(* What a directory promises: a finite map from names to inodes, in which  *)
(* one name at a time is bound, unbound or bound to another inode.         *)
(***************************************************************************)
CONSTANTS Names, Inos, NoInode

VARIABLE names

Init == names = [n \in Names |-> NoInode]

\* Bound when it was not, unbound, or bound to another inode: one name changes.
Next ==
    \E new \in {names'}, old \in {names} :
        \E n \in Names :
            /\ new[n] \in Inos \cup {NoInode}
            /\ new = [old EXCEPT ![n] = new[n]]

Spec == Init /\ [][Next]_names
=============================================================================
