------------------------------ MODULE MCReplay ------------------------------
(***************************************************************************)
(* The programs of MCStorage, run twice.                                    *)
(***************************************************************************)
EXTENDS MCStorage, SummaryReplay
=============================================================================
