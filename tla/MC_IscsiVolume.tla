-------------------------- MODULE MC_IscsiVolume --------------------------
(* Instances of IscsiVolume for TLC.                                       *)
EXTENDS IscsiVolume

CONSTANTS d1, d2, n1, h1, h2
=============================================================================
