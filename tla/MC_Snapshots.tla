--------------------------- MODULE MC_Snapshots ---------------------------
(* Instances of Snapshots for TLC.                                         *)
EXTENDS Snapshots

CONSTANTS h1, h2
=============================================================================
