-------------------------- MODULE MC_NfsPrivilege --------------------------
(* Instances of NfsPrivilege for TLC.                                      *)
EXTENDS NfsPrivilege

CONSTANTS a, b, s1, s2
=============================================================================
