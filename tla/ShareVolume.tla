---------------------------- MODULE ShareVolume ----------------------------
(***************************************************************************)
(* One SMB or NFS volume, which is a shared folder with a quota:           *)
(* CreateVolume (from nothing, from a snapshot or from another share),     *)
(* DeleteVolume and ControllerExpandVolume, one step per request to the    *)
(* DSM.                                                                    *)
(*                                                                         *)
(* Unlike a LUN, a share can be found by its name as soon as it exists,    *)
(* before its quota is what the volume should have.  Quotas are in MB.     *)
(* An attempt that fails before it has changed anything is a stuttering    *)
(* step.                                                                   *)
(***************************************************************************)
EXTENDS Naturals

CONSTANTS
    Handlers,     \* gRPC calls that may be running at once
    SerialCalls,  \* TRUE: the CO has one call in flight for the volume
    Kinds,        \* what it may be made from: "none", "snapshot", "volume"
    Sizes,        \* capacities the CO may ask for
    Sources,      \* quotas the source may have; 0: none
    MaxFaults,    \* bound: requests that fail or whose answer is lost
    MaxCrashes,   \* bound: restarts of the driver
    MaxObjects    \* bound: uuids in use at a time

ASSUME ConstantsAssumption ==
    /\ SerialCalls \in BOOLEAN
    /\ Kinds \subseteq {"none", "snapshot", "volume"}
    /\ Sizes \subseteq Nat \ {0} /\ Sources \subseteq Nat
    /\ MaxFaults \in Nat /\ MaxCrashes \in Nat /\ MaxObjects \in Nat

VARIABLES
    request,     \* what the CO asks for, again and again: kind, size, source
    share,       \* DSM: the share of the volume's name
    pc, call,    \* where each call is, and what it has gathered
    co, pv,      \* the CO's view of the volume, and the id it recorded
    faults, crashes,
    logged,      \* shares a log line reports as left behind
    unanswered   \* history: shares some request about which went unanswered

coVars == <<co, pv>>
ledger == <<logged, unanswered>>
vars == <<request, share, pc, call, co, pv, faults, crashes, logged, unanswered>>

\* An id of 0 means that there is no such share.
NoShare == [id |-> 0, quota |-> 0]

\* size: what the call asks for; id: the share it has got; made: its
\* createRollback.
NewCall(op, size) == [op |-> op, size |-> size, id |-> 0, made |-> 0]
NoCall == NewCall("create", 0)

Labels == {"idle", "create", "get", "quota", "undo", "delete", "reply"}
Ids     == 0..MaxObjects
Amounts == Sizes \cup Sources \cup {0}
Share   == [id : Ids, quota : Amounts]
Call    == [op : {"create", "delete", "expand"}, size : Amounts, id : Ids, made : Ids]

TypeOK ==
    /\ request \in [kind : Kinds, size : Sizes, source : Sources]
    /\ share \in Share
    /\ pc \in [Handlers -> Labels] /\ call \in [Handlers -> Call]
    /\ co \in {"creating", "bound", "deleting", "deleted"} /\ pv \in Ids
    /\ faults \in 0..MaxFaults /\ crashes \in 0..MaxCrashes
    /\ logged \subseteq Ids /\ unanswered \subseteq Ids

Fault == faults < MaxFaults /\ faults' = faults + 1
NoFault == UNCHANGED faults

\* The uuids nothing and nobody knows; the bound leaves one.
FreeIds == (1..MaxObjects) \
    ({share.id, pv} \cup {call[h].id : h \in Handlers} \cup {call[h].made : h \in Handlers}
        \cup logged \cup unanswered)
NewId == CHOOSE i \in FreeIds : TRUE
CanMake == FreeIds # {}

Got(h, l, c) == pc' = [pc EXCEPT ![h] = l] /\ call' = [call EXCEPT ![h] = c]
Goto(h, l) == Got(h, l, call[h])
Fail(h) == Got(h, "idle", NoCall)

\* Mutant: a quota that cannot be set removes the share, whoever made it.
UndoAnyShare(h) == IF share # NoShare THEN Goto(h, "undo") ELSE Fail(h)

\* The rollback of a failed creation.
Undo(h) ==
    IF call[h].op = "create" /\ call[h].made # 0 THEN Goto(h, "undo") ELSE Fail(h)

\* The CO sends a call.
Begin(h) ==
    /\ pc[h] = "idle"
    /\ SerialCalls => \A g \in Handlers : pc[g] = "idle"

\* CreateVolume answers with a volume only if its capacity is the one asked for.
RespondVolume(h, id, quota) ==
    IF quota = request.size THEN Got(h, "reply", [call[h] EXCEPT !.id = id])
                            ELSE Fail(h)

-----------------------------------------------------------------------------
(* CreateVolume.                                                           *)

\* Mutant: a share of the name is an error.
CreateVolumeStrict(h) ==
    /\ Begin(h)
    /\ co = "creating"
    /\ share = NoShare
    /\ Got(h, "create", NewCall("create", request.size))
    /\ UNCHANGED <<request, share, coVars, faults, crashes, ledger>>

\* findSMBorNFSVolume finds the share by its name.  A clone of a volume may
\* not be smaller than its source (checkRestoreSize).
CreateVolume(h) ==
    /\ Begin(h)
    /\ co = "creating"
    /\ \/ share # NoShare /\ RespondVolume(h, share.id, share.quota)
       \/ /\ share = NoShare
          /\ request.kind = "volume" => request.size >= request.source
          /\ Got(h, "create", NewCall("create", request.size))
    /\ UNCHANGED <<request, share, coVars, faults, crashes, ledger>>

\* A clone has its source's quota, on some models none.
FirstQuotas == IF request.kind = "none" THEN {request.size} ELSE {request.source, 0}

AddShare == \E q \in FirstQuotas :
    /\ CanMake /\ share = NoShare
    /\ share' = [id |-> NewId, quota |-> q]

\* ShareCreate or ShareClone.
ShareCreate(h) ==
    /\ pc[h] = "create"
    /\ \/ /\ AddShare
          /\ Got(h, "get", [call[h] EXCEPT !.made = NewId])
          /\ NoFault
          /\ UNCHANGED unanswered
       \/ /\ share # NoShare                          \* AlreadyExistError
          /\ Goto(h, "get")
          /\ NoFault
          /\ UNCHANGED <<share, unanswered>>
       \/ /\ Fail(h)
          /\ Fault
          /\ UNCHANGED <<share, unanswered>>
       \/ /\ AddShare                                 \* made, answer lost
          /\ unanswered' = unanswered \cup {NewId}
          /\ Fail(h)
          /\ Fault
    /\ UNCHANGED <<request, coVars, crashes, logged>>

\* A clone whose quota is missing or too small has it set next.  Restoring a
\* snapshot into a smaller volume is refused only here.
ShareGet(h) ==
    LET clone == request.kind # "none"
        short == clone /\ (share.quota = 0 \/ share.quota < request.size)
        large == request.kind = "snapshot" /\ share.quota > request.size IN
    /\ pc[h] = "get"
    /\ \/ /\ share # NoShare /\ short
          /\ Got(h, "quota", [call[h] EXCEPT !.id = share.id])
          /\ NoFault
       \/ /\ share # NoShare /\ ~short /\ ~large
          /\ RespondVolume(h, share.id, share.quota)
          /\ NoFault
       \/ /\ Undo(h)
          /\ IF share = NoShare \/ large THEN NoFault ELSE Fault
    /\ UNCHANGED <<request, share, coVars, crashes, ledger>>

\* Mutant: the quota grows by the new size.
SetShareQuotaBy(h) ==
    /\ pc[h] = "quota" /\ share # NoShare
    /\ share' = [share EXCEPT !.quota = @ + call[h].size]
    /\ Goto(h, "reply")
    /\ UNCHANGED <<request, coVars, faults, crashes, ledger>>

\* Addressed by name.  Creation and expansion end with it.
SetShareQuota(h) ==
    /\ pc[h] = "quota"
    /\ \/ /\ share # NoShare
          /\ share' = [share EXCEPT !.quota = call[h].size]
          /\ Goto(h, "reply")
          /\ NoFault
       \/ /\ Undo(h)
          /\ IF share = NoShare THEN NoFault ELSE Fault
          /\ UNCHANGED share
       \/ /\ share # NoShare                          \* set, answer lost
          /\ share' = [share EXCEPT !.quota = call[h].size]
          /\ Undo(h)
          /\ Fault
    /\ UNCHANGED <<request, coVars, crashes, ledger>>

\* Mutant: the rollback says nothing of what it leaves behind.
UndoShareSilently(h) ==
    /\ pc[h] = "undo"
    /\ \/ share # NoShare /\ share' = NoShare /\ NoFault
       \/ UNCHANGED share /\ IF share = NoShare THEN NoFault ELSE Fault
    /\ Fail(h)
    /\ UNCHANGED <<request, coVars, crashes, ledger>>

\* createRollback.run, by name.
UndoShare(h) ==
    /\ pc[h] = "undo"
    /\ \/ share # NoShare /\ share' = NoShare /\ NoFault /\ UNCHANGED logged
       \/ /\ UNCHANGED share
          /\ logged' = logged \cup {call[h].made}
          /\ IF share = NoShare THEN NoFault ELSE Fault
       \/ /\ share # NoShare /\ share' = NoShare      \* removed, answer lost
          /\ logged' = logged \cup {call[h].made}
          /\ Fault
    /\ Fail(h)
    /\ UNCHANGED <<request, coVars, crashes, unanswered>>

-----------------------------------------------------------------------------
(* DeleteVolume and ControllerExpandVolume.                                *)

\* Mutant: a volume that is not there cannot be deleted.
DeleteVolumeStrict(h) ==
    /\ Begin(h)
    /\ co \in {"bound", "deleting"}
    /\ share.id = pv
    /\ Got(h, "delete", NewCall("delete", 0))
    /\ co' = "deleting"
    /\ UNCHANGED <<request, share, pv, faults, crashes, ledger>>

DeleteVolume(h) ==
    /\ Begin(h)
    /\ co \in {"bound", "deleting"}
    /\ Got(h, IF share.id = pv THEN "delete" ELSE "reply", NewCall("delete", 0))
    /\ co' = "deleting"
    /\ UNCHANGED <<request, share, pv, faults, crashes, ledger>>

\* By name; a share that is gone by now is an error, which the next call
\* does not meet.
ShareDelete(h) ==
    /\ pc[h] = "delete"
    /\ \/ share # NoShare /\ share' = NoShare /\ Goto(h, "reply") /\ NoFault
       \/ UNCHANGED share /\ Fail(h) /\ IF share = NoShare THEN NoFault ELSE Fault
       \/ share # NoShare /\ share' = NoShare /\ Fail(h) /\ Fault
    /\ UNCHANGED <<request, coVars, crashes, ledger>>

ControllerExpandVolume(h) == \E s \in Sizes :
    /\ Begin(h)
    /\ co = "bound"
    /\ share.id = pv /\ share.quota <= s
    /\ Got(h, "quota", NewCall("expand", s))
    /\ UNCHANGED <<request, share, coVars, faults, crashes, ledger>>

-----------------------------------------------------------------------------
\* The CO learns that the call succeeded, or it does not, or no longer cares.
Deliver(h) ==
    /\ pc[h] = "reply"
    /\ Fail(h)
    /\ \/ /\ call[h].op = "create" /\ co = "creating"
          /\ co' = "bound" /\ pv' = call[h].id
          /\ NoFault
       \/ /\ call[h].op = "delete" /\ co = "deleting"
          /\ co' = "deleted"
          /\ NoFault
          /\ UNCHANGED pv
       \/ /\ \/ call[h].op = "expand"
             \/ call[h].op = "create" /\ co # "creating"
             \/ call[h].op = "delete" /\ co # "deleting"
          /\ NoFault
          /\ UNCHANGED coVars
       \/ Fault /\ UNCHANGED coVars
    /\ UNCHANGED <<request, share, crashes, ledger>>

Crash ==
    /\ crashes < MaxCrashes
    /\ crashes' = crashes + 1
    /\ pc' = [h \in Handlers |-> "idle"]
    /\ call' = [h \in Handlers |-> NoCall]
    /\ unanswered' = IF \A h \in Handlers : pc[h] = "idle" THEN unanswered
                     ELSE unanswered \cup {share.id}
    /\ UNCHANGED <<request, share, coVars, faults, logged>>

Init ==
    /\ request \in [kind : Kinds, size : Sizes, source : Sources]
    /\ share = NoShare
    /\ pc = [h \in Handlers |-> "idle"] /\ call = [h \in Handlers |-> NoCall]
    /\ co = "creating" /\ pv = 0
    /\ faults = 0 /\ crashes = 0
    /\ logged = {} /\ unanswered = {}

HandlerStep(h) ==
    \/ ShareCreate(h) \/ ShareGet(h) \/ SetShareQuota(h) \/ UndoShare(h)
    \/ ShareDelete(h) \/ Deliver(h)

Next ==
    \/ \E h \in Handlers :
         CreateVolume(h) \/ DeleteVolume(h) \/ ControllerExpandVolume(h) \/ HandlerStep(h)
    \/ Crash

Spec == Init /\ [][Next]_vars

\* A request ends, and the CO repeats a call that did not succeed.
FairSpec ==
    /\ Spec
    /\ \A h \in Handlers : WF_vars(HandlerStep(h))
    /\ WF_vars(\E h \in Handlers : CreateVolume(h))
    /\ WF_vars(\E h \in Handlers : co = "deleting" /\ DeleteVolume(h))

-----------------------------------------------------------------------------
(* Properties.                                                             *)

\* The capacity of the volume the CO was handed; a share that is going away
\* counts until it has gone.
Shown == IF co # "creating" /\ share.id = pv THEN share.quota ELSE 0

Contract == INSTANCE VolumeContract WITH
    asked <- {request.size},
    phase <- co,
    size  <- Shown

\* ShareVolume does what the controller promises of a volume (CreateVolume,
\* ExpandVolume and DeleteVolume of dsm.go): rollbacks, retries, lost answers and
\* restarts never take away, shrink or bring back what the CO was handed, which
\* has the capacity it asked for, whichever attempt made it or set its quota.
KeepsContract == Contract!Spec

\* A share of another size stands in the way of its name only if a log line
\* reports it or a request about it was never answered.
ObstaclesAccounted ==
    co = "creating" /\ share # NoShare /\ share.quota # request.size
        /\ (\A h \in Handlers : pc[h] = "idle")
        => share.id \in logged \cup unanswered

\* CreateVolume repeated by the CO ends with a volume, whatever an earlier
\* attempt left behind (rollback.go: "Creation is idempotent by design").
CreateSucceeds ==
    co = "creating" /\ request.size >= request.source ~> co = "bound"

\* So it is for a share that is made from nothing, with its quota.
PlainCreateSucceeds == request.kind = "none" => CreateSucceeds

\* DeleteVolume repeated by the CO ends with success.
DeleteSucceeds == co = "deleting" ~> co = "deleted"
=============================================================================
