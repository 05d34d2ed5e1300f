--------------------------- MODULE MC_NodeIscsi ---------------------------
(* Instances of NodeIscsi for TLC.                                         *)
EXTENDS NodeIscsi

CONSTANTS v1, v2, p1, p2, sda, sdb
=============================================================================
