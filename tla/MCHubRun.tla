------------------------------ MODULE MCHubRun ------------------------------
(***************************************************************************)
(* Small instances of HubRun.  The tasks are alike.                        *)
(***************************************************************************)
EXTENDS HubRun

TaskSymmetry == Permutations(Tasks)
=============================================================================
