-------------------------- MODULE MC_ShareVolume --------------------------
(* Instances of ShareVolume for TLC.                                       *)
EXTENDS ShareVolume

CONSTANTS h1, h2
=============================================================================
