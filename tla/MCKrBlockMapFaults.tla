-------------------------- MODULE MCKrBlockMapFaults --------------------------
(***************************************************************************)
(* KrBlockMap in four scenarios, one of which is a behaviour's:            *)
(*   "triple"  the constants of the configuration: one task that reads,    *)
(*             writes, truncates and evicts under the triple indirect      *)
(*             block, with allocations that fail;                          *)
(*   "reuse"   a read against truncations and writes, with the freed       *)
(*             blocks taken again or going to another file;                *)
(*   "evict"   allocations that fail, DAX, and the end of the inode;       *)
(*   "io"      indirect blocks that cannot be read.                        *)
(* The last three are instances over the same variables.                   *)
(***************************************************************************)
EXTENDS MCKrBlockMap

VARIABLE scenario

\* The calls of a single task, t1.
MCWriterOnly == t1 :> {"read", "write", "setsize", "evict"} @@ t2 :> {}
MCLookup == t1 :> {"read"} @@ t2 :> {"write", "setsize"}
MCCalls20 == t1 :> 2 @@ t2 :> 0

\* The same hole, and block 0: two blocks are left.
HoleIndirectUsed == [HoleIndirect EXCEPT ![Inode][0] = 5]

\* A file with holes, and one that is nothing else.
MCHoles == {HoleDouble, NoPointers}
MCHolesSize == [t \in MCHoles |-> IF t = HoleDouble THEN 5 ELSE 3]

Reuse == INSTANCE KrBlockMap
           WITH Kinds <- MCLookup, LastBlock <- 2, MaxRun <- 1, Trees <- {HoleIndirectUsed},
                InitSize <- [t \in {HoleIndirectUsed} |-> 3], MaxForeign <- 1,
                AllocErrors <- FALSE, MaxCalls <- MCCalls12
Ending == INSTANCE KrBlockMap
            WITH Kinds <- MCEvicter, LastBlock <- 3, MaxRun <- 1, Trees <- MCIndirect,
                 InitSize <- MCIndirectSize, Dax <- TRUE, MaxCalls <- MCCalls12
BadReads == INSTANCE KrBlockMap
              WITH LastBlock <- 4, MaxRun <- 2, Trees <- MCHoles, InitSize <- MCHolesSize,
                   IOErrors <- TRUE, AllocErrors <- FALSE, Dax <- TRUE

MCInit ==
    \/ scenario = "triple" /\ Init
    \/ scenario = "reuse" /\ Reuse!Init
    \/ scenario = "evict" /\ Ending!Init
    \/ scenario = "io" /\ BadReads!Init

MCNext ==
    /\ \/ scenario = "triple" /\ Next
       \/ scenario = "reuse" /\ Reuse!Next
       \/ scenario = "evict" /\ Ending!Next
       \/ scenario = "io" /\ BadReads!Next
    /\ UNCHANGED scenario

MCSpec == MCInit /\ [][MCNext]_<<vars, scenario>>

-----------------------------------------------------------------------------
\* Whatever fails, the tree stays sound and answers are what the tree said.  Unless a block
\* cannot be read, no block is lost, no buffer is held and no block is mapped past i_size
\* (after a failed read kr_get_blocks may store over a pointer, and a failure to zero a
\* block leaves it with the buffers of the new branch).
SoundUnderFaults ==
    /\ TreeIsSound /\ LookupsLinearize
    /\ scenario # "io" => NothingLost /\ BuffersReleased /\ NoBlocksPastEOF

\* Unless a block cannot be read, the tree implements the map of KrFileMap.
ReadableMap ==
    INSTANCE KrFileMap
      WITH map <- IF scenario = "io" THEN [i \in FileRange |-> 0] ELSE Map,
           size <- IF scenario = "io" THEN 0 ELSE i_size
ImplementsFileMapUnlessIO == ReadableMap!Spec
=============================================================================
