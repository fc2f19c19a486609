------------------------------- MODULE MCKrNamei -------------------------------
(***************************************************************************)
(* KrNamei for TLC: the root, three more inodes and two names, and link    *)
(* counts that reach their limit, with the faults of the configuration.    *)
(***************************************************************************)
EXTENDS KrNamei

\* The hypotheses of the theorems hold of the names that are checked.
ASSUME NameiAssumption == ConstantsOK /\ PagesWork
=============================================================================
