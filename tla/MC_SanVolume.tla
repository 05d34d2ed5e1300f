--------------------------- MODULE MC_SanVolume ---------------------------
(* Instances of SanVolume for TLC: the constants are numbers and strings.  *)
EXTENDS SanVolume
=============================================================================
