------------------------------ MODULE MCKrIalloc ------------------------------
(***************************************************************************)
(* Instances of KrIalloc: two groups of three inodes, of which 1 and 2 are *)
(* reserved.  A behaviour is one of two scenarios: "race", with the        *)
(* constants of the configuration, and "faults", an instance over the same *)
(* variables in which bitmaps cannot be read.                              *)
(***************************************************************************)
EXTENDS KrIalloc

CONSTANTS t1, t2

VARIABLE scenario

MCTasks == {t1, t2}

\* A root directory, and a directory in the last group.
MCParents == {[group |-> 0, ino |-> 2, top |-> TRUE],
              [group |-> 1, ino |-> 4, top |-> FALSE]}

MCBlockCounts == {[g \in Groups |-> 3]}

MCCalls32 == [t \in MCTasks |-> IF t = t1 THEN 3 ELSE 2]
MCCalls22 == [t \in MCTasks |-> 2]

\* Inode 2 is the root directory, 4 a directory and 3 a file.
MCInitBitmap == {1, 2, 3, 4}
MCLive == {3, 4}
MCDirs == {4}

\* The hypotheses of the theorems hold of this image.
ASSUME ImageAssumption == SaneImage /\ CountsFit

Faults == INSTANCE KrIalloc WITH IOErrors <- TRUE, MaxCalls <- MCCalls22

MCInit ==
    \/ scenario = "race" /\ Init
    \/ scenario = "faults" /\ Faults!Init

MCNext ==
    /\ \/ scenario = "race" /\ Next
       \/ scenario = "faults" /\ Faults!Next
    /\ UNCHANGED scenario

MCSpec == MCInit /\ [][MCNext]_<<vars, scenario>>
=============================================================================
