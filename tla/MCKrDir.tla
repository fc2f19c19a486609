-------------------------------- MODULE MCKrDir --------------------------------
(***************************************************************************)
(* KrDir for TLC in three scenarios, one of which is a behaviour's:        *)
(*   "scan"    the constants of the configuration: chunks of 5 units and a *)
(*             task that reads the directory while it changes              *)
(*   "chunks"  chunks of 7 units, no reader                                *)
(*   "io"      pages that cannot be read                                   *)
(* The last two are instances with variables of their own.  Records are of *)
(* 2 or 3 units, so that slack too short for one occurs.                   *)
(***************************************************************************)
EXTENDS KrDir, TLC

CONSTANT r1

VARIABLES scenario, o_mem, o_i_size, o_start, o_pos, o_moved, o_due, o_got, o_twice

otherVars == <<o_mem, o_i_size, o_start, o_pos, o_moved, o_due, o_got, o_twice>>

MCNames == {"a", "b", "long"}
MCLens == "a" :> 2 @@ "b" :> 2 @@ "long" :> 3 @@ "." :> 2 @@ ".." :> 2
MCTwoNames == {"a", "long"}
MCTwoLens == "a" :> 2 @@ "long" :> 3 @@ "." :> 2 @@ ".." :> 2

MCNoReader == {}
MCOneIno == {3}
Wide == INSTANCE KrDir
          WITH Chunk <- 7, Readers <- MCNoReader,
               mem <- o_mem, i_size <- o_i_size, start <- o_start, pos <- o_pos,
               moved <- o_moved, due <- o_due, got <- o_got, twice <- o_twice
BadReads == INSTANCE KrDir
              WITH Names <- MCTwoNames, RecLen <- MCTwoLens, Inos <- MCOneIno,
                   ChunksPerPage <- 1, IOErrors <- TRUE,
                   mem <- o_mem, i_size <- o_i_size, start <- o_start, pos <- o_pos,
                   moved <- o_moved, due <- o_due, got <- o_got, twice <- o_twice

MCInit ==
    /\ scenario \in {"scan", "chunks", "io"}
    /\ Init
    /\ IF scenario = "io" THEN BadReads!Init ELSE Wide!Init

MCNext ==
    /\ \/ scenario = "scan" /\ Next /\ UNCHANGED otherVars
       \/ scenario = "chunks" /\ Wide!Next /\ UNCHANGED vars
       \/ scenario = "io" /\ BadReads!Next /\ UNCHANGED vars
    /\ UNCHANGED scenario

MCSpec == MCInit /\ [][MCNext]_<<vars, otherVars, scenario>>

-----------------------------------------------------------------------------
\* The same of a directory with wider chunks, and of one whose pages cannot always be
\* read: what is in its pages passes kr_check_page, kr_add_link finds its room, and a scan
\* that ends without an error has given every name that was there.
OthersAreSound ==
    /\ scenario = "chunks" => Wide!DirectoryIsSound
    /\ scenario = "io" => BadReads!DirectoryIsSound /\ BadReads!ScansAreRight

\* The records that kr_add_link, kr_set_link and kr_delete_entry leave implement the map of
\* KrNames; of the scenario with the widest chunks, the property being one of all directories.
NoName == [n \in Names |-> 0]
Map ==
    INSTANCE KrNames
      WITH names <- IF scenario = "chunks" THEN Wide!InoOf ELSE NoName, NoInode <- 0
RecordsImplementNames == Map!Spec
=============================================================================
