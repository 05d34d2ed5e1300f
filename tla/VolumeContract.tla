--------------------------- MODULE VolumeContract ---------------------------
(***************************************************************************)
(* What the controller promises the CO of one volume, whatever the volume  *)
(* is made of.  IscsiVolume, SanVolume and ShareVolume are shown to keep   *)
(* this promise.                                                           *)
(*                                                                         *)
(* The volume is handed out once, with the capacity that was asked for.    *)
(* From then on it is there and does not shrink until the CO asks for its  *)
(* deletion, and the deletion has succeeded only when it is gone for good. *)
(***************************************************************************)
EXTENDS Naturals

VARIABLES
    asked,   \* the capacities the CO may ask a new volume to have
    phase,   \* the CO's view of the volume
    size     \* the capacity of the volume the CO was handed; 0: there is none

vars == <<asked, phase, size>>

Init ==
    /\ asked \subseteq Nat \ {0}
    /\ phase = "creating" /\ size = 0

\* CreateVolume succeeds.
Create ==
    /\ phase = "creating" /\ phase' = "bound"
    /\ size' \in asked
    /\ UNCHANGED asked

\* ControllerExpandVolume grows the volume, answered or not.
Expand ==
    /\ phase = "bound"
    /\ size' \in Nat /\ size' > size
    /\ UNCHANGED <<asked, phase>>

\* DeleteVolume is called.
Delete ==
    /\ phase = "bound" /\ phase' = "deleting"
    /\ UNCHANGED <<asked, size>>

\* The volume goes away.
Remove ==
    /\ phase = "deleting" /\ size' = 0
    /\ UNCHANGED <<asked, phase>>

\* DeleteVolume succeeds.
Forget ==
    /\ phase = "deleting" /\ phase' = "deleted"
    /\ size = 0
    /\ UNCHANGED <<asked, size>>

Next == Create \/ Expand \/ Delete \/ Remove \/ Forget

Spec == Init /\ [][Next]_vars
=============================================================================
