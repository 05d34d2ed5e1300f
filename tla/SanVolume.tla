----------------------------- MODULE SanVolume -----------------------------
(***************************************************************************)
(* One iSCSI or NVMe volume that is made from nothing, from a snapshot or  *)
(* from another volume: CreateVolume and DeleteVolume, one step per        *)
(* request to the DSM the source is on.                                    *)
(*                                                                         *)
(* A unit is a LUN or a namespace, a group the target or the subsystem     *)
(* that makes it visible.  The DSM copies the source into a new unit in    *)
(* its own time and keeps the unit locked meanwhile; the unit starts out   *)
(* with the size of its source.                                            *)
(*                                                                         *)
(* IscsiVolume has the placement on several DSMs, the lookup's failures    *)
(* and calls that interleave; here one call at a time runs, and an attempt *)
(* that fails before it has changed anything is a stuttering step.         *)
(***************************************************************************)
EXTENDS Naturals

CONSTANTS
    Protocols,   \* those it may have: "iscsi", "nvme"
    Sizes,       \* capacities the CO may ask for
    Sources,     \* sizes of the source; 0: the volume has none
    MaxFaults,   \* bound: requests that fail or whose answer is lost, and
                 \*   copies that outlast waitCloneFinished
    MaxCrashes,  \* bound: restarts of the driver
    MaxObjects   \* bound: uuids in use at a time

ASSUME ConstantsAssumption ==
    /\ Protocols \subseteq {"iscsi", "nvme"}
    /\ Sizes \subseteq Nat \ {0} /\ Sources \subseteq Nat
    /\ MaxFaults \in Nat /\ MaxCrashes \in Nat /\ MaxObjects \in Nat

VARIABLES
    request,     \* what the CO asks for, again and again: protocol, size, source
    unit,        \* DSM: the unit of the volume's name,
    group,       \*   and the group of that name, with what it maps
    pc, call,    \* where the call is, and what it has gathered
    co, pv,      \* the CO's view of the volume, and the id it recorded
    faults, crashes,
    logged,      \* objects a log line reports as left behind
    unanswered,  \* history: objects some request about which went unanswered
    abandoned    \* history: groups DeleteVolume gave up without saying so

dsmVars == <<unit, group>>
coVars  == <<co, pv>>
ledger  == <<logged, unanswered, abandoned>>
vars == <<request, unit, group, pc, call, co, pv, faults, crashes, logged, unanswered,
          abandoned>>

\* An id of 0 means that there is no such object.
NoUnit  == [id |-> 0, size |-> 0, copying |-> FALSE]
NoGroup == [id |-> 0, units |-> {}]

\* id, size: the unit the call has got; group: the id it knows the group by;
\* madeUnit, madeGroup: its createRollback.
NoCall == [op |-> "create", id |-> 0, size |-> 0, group |-> 0, madeUnit |-> 0, madeGroup |-> 0]

Labels == {"idle", "clone", "wait", "grow", "group", "groupGet", "map", "undoGroup",
           "undoUnit", "unitDelete", "unitCheck", "groupDelete", "groupCheck", "reply"}

Ids     == 0..MaxObjects
Amounts == Sizes \cup Sources \cup {0}
Unit    == [id : Ids, size : Amounts, copying : BOOLEAN]
Group   == [id : Ids, units : SUBSET Ids]
Call    == [op : {"create", "delete"}, id : Ids, size : Amounts, group : Ids,
            madeUnit : Ids, madeGroup : Ids]

TypeOK ==
    /\ request \in [protocol : Protocols, size : Sizes, source : Sources]
    /\ unit \in Unit /\ group \in Group
    /\ pc \in Labels /\ call \in Call
    /\ co \in {"creating", "bound", "deleting", "deleted"} /\ pv \in Ids
    /\ faults \in 0..MaxFaults /\ crashes \in 0..MaxCrashes
    /\ logged \subseteq Ids /\ unanswered \subseteq Ids /\ abandoned \subseteq Ids

Fault == faults < MaxFaults /\ faults' = faults + 1
NoFault == UNCHANGED faults

\* What the listings of findVolume can see.
Visible == unit # NoUnit /\ unit.id \in group.units

Goto(l) == pc' = l /\ UNCHANGED call
Got(l, c) == pc' = l /\ call' = c
Fail == pc' = "idle" /\ call' = NoCall

\* The call has got the unit i, of size s; it has made the group i.
WithUnit(i, s) == [call EXCEPT !.id = i, !.size = s]
WithGroup(i)   == [call EXCEPT !.group = i, !.madeGroup = i]

RemoveUnit ==
    /\ unit' = NoUnit
    /\ group' = [group EXCEPT !.units = @ \ {unit.id}]

RemoveGroup ==
    /\ group' = NoGroup
    /\ UNCHANGED unit

\* The uuids nothing and nobody knows; the bound leaves one.
FreeIds == (1..MaxObjects) \ ({unit.id, group.id, pv, call.id, call.madeUnit, call.madeGroup}
                                \cup group.units \cup logged \cup unanswered \cup abandoned)
NewId == CHOOSE i \in FreeIds : TRUE
CanMake == FreeIds # {}

\* A failed creation runs createMapping...'s rollback, then its caller's.
UndoCaller == IF call.madeUnit # 0 THEN Goto("undoUnit") ELSE Fail
Undo == IF call.madeGroup # 0 THEN Goto("undoGroup") ELSE UndoCaller

\* CreateVolume answers with a volume only if its capacity is the one asked for.
RespondVolume(id, size) ==
    IF size = request.size
    THEN Got("reply", WithUnit(id, size))
    ELSE Fail

-----------------------------------------------------------------------------
(* CreateVolume.                                                           *)

\* checkRestoreSize refuses a volume smaller than its source.
CreateVolume ==
    /\ pc = "idle" /\ co = "creating"
    /\ \/ Visible /\ RespondVolume(unit.id, unit.size)
       \/ ~Visible /\ request.size >= request.source /\ Goto("clone")
    /\ UNCHANGED <<request, dsmVars, coVars, faults, crashes, ledger>>

NewUnit ==
    IF request.source = 0
    THEN [id |-> NewId, size |-> request.size, copying |-> FALSE]
    ELSE [id |-> NewId, size |-> request.source, copying |-> TRUE]

AddUnit ==
    /\ CanMake /\ unit = NoUnit
    /\ unit' = NewUnit
    /\ UNCHANGED group

\* SnapshotClone, LunClone, NamespaceCreate and their like.
Clone ==
    /\ pc = "clone"
    /\ \/ /\ AddUnit
          /\ Got("wait", [call EXCEPT !.madeUnit = NewId])
          /\ NoFault
          /\ UNCHANGED unanswered
       \/ /\ unit # NoUnit                            \* AlreadyExistError
          /\ Goto("wait")
          /\ NoFault
          /\ UNCHANGED <<dsmVars, unanswered>>
       \/ /\ Fail
          /\ Fault
          /\ UNCHANGED <<dsmVars, unanswered>>
       \/ /\ AddUnit                                  \* made, answer lost
          /\ unanswered' = unanswered \cup {NewId}
          /\ Fail
          /\ Fault
    /\ UNCHANGED <<request, coVars, crashes, logged, abandoned>>

CopyEnds ==
    /\ unit.copying
    /\ unit' = [unit EXCEPT !.copying = FALSE]
    /\ UNCHANGED <<request, group, pc, call, coVars, faults, crashes, ledger>>

\* Mutant: the copy is not waited for.
WaitNot ==
    /\ pc = "wait"
    /\ Got(IF request.size > unit.size THEN "grow" ELSE "group",
           WithUnit(unit.id, unit.size))
    /\ UNCHANGED <<request, dsmVars, coVars, faults, crashes, ledger>>

\* waitCloneFinished and the Get after it: they fail, or the wait ends first.
Wait ==
    /\ pc = "wait"
    /\ \/ /\ ~unit.copying
          /\ Got(IF request.size > unit.size THEN "grow" ELSE "group",
                 WithUnit(unit.id, unit.size))
          /\ NoFault
       \/ /\ Undo
          /\ Fault
    /\ UNCHANGED <<request, dsmVars, coVars, crashes, ledger>>

\* Mutant: the unit grows by the new size.
GrowBy ==
    /\ pc = "grow"
    /\ unit' = [unit EXCEPT !.size = @ + request.size]
    /\ Got("group", [call EXCEPT !.size = request.size])
    /\ UNCHANGED <<request, group, coVars, faults, crashes, ledger>>

\* The unit is made as large as the volume should be.
Grow ==
    /\ pc = "grow"
    /\ \/ /\ unit' = [unit EXCEPT !.size = request.size]
          /\ Got("group", [call EXCEPT !.size = request.size])
          /\ NoFault
       \/ /\ Undo
          /\ Fault
          /\ UNCHANGED unit
       \/ /\ unit' = [unit EXCEPT !.size = request.size]    \* grown, answer lost
          /\ Undo
          /\ Fault
    /\ UNCHANGED <<request, group, coVars, crashes, ledger>>

AddGroup ==
    /\ CanMake /\ group = NoGroup
    /\ group' = [id |-> NewId, units |-> {}]
    /\ UNCHANGED unit

\* Mutant: a group that exists already is an error.
GroupCreateStrict ==
    /\ pc = "group"
    /\ \/ /\ AddGroup
          /\ Got("groupGet", WithGroup(NewId))
          /\ NoFault
          /\ UNCHANGED unanswered
       \/ /\ IF group # NoGroup THEN NoFault ELSE Fault
          /\ Undo
          /\ UNCHANGED <<dsmVars, unanswered>>
       \/ /\ AddGroup
          /\ unanswered' = unanswered \cup {NewId}
          /\ Undo
          /\ Fault
    /\ UNCHANGED <<request, coVars, crashes, logged, abandoned>>

\* TargetCreate, SubsystemCreate.  A target is then fetched by its name, a
\* subsystem by the uuid of the answer, which is empty where there was none.
GroupCreate ==
    /\ pc = "group"
    /\ \/ /\ AddGroup
          /\ Got("groupGet", WithGroup(NewId))
          /\ NoFault
          /\ UNCHANGED unanswered
       \/ /\ group # NoGroup                          \* AlreadyExistError
          /\ Got("groupGet", [call EXCEPT !.group = IF request.protocol = "iscsi" THEN group.id ELSE 0])
          /\ NoFault
          /\ UNCHANGED <<dsmVars, unanswered>>
       \/ /\ Undo
          /\ Fault
          /\ UNCHANGED <<dsmVars, unanswered>>
       \/ /\ AddGroup                                 \* made, answer lost
          /\ unanswered' = unanswered \cup {NewId}
          /\ Undo
          /\ Fault
    /\ UNCHANGED <<request, coVars, crashes, logged, abandoned>>

GroupGet ==
    /\ pc = "groupGet"
    /\ \/ /\ call.group # 0
          /\ Goto("map")
          /\ NoFault
       \/ /\ Undo
          /\ IF call.group # 0 THEN Fault ELSE NoFault
    /\ UNCHANGED <<request, dsmVars, coVars, crashes, ledger>>

\* LunMapTarget adds a LUN, SubsystemSetNamespaces sets what the group maps.
AddMapping ==
    /\ group' = [group EXCEPT !.units =
                    IF request.protocol = "iscsi" THEN @ \cup {call.id} ELSE {call.id}]
    /\ UNCHANGED unit

MapUnit ==
    /\ pc = "map"
    /\ \/ /\ AddMapping
          /\ RespondVolume(call.id, call.size)
          /\ NoFault
       \/ /\ Undo
          /\ Fault
          /\ UNCHANGED dsmVars
       \/ /\ AddMapping                               \* mapped, answer lost
          /\ Undo
          /\ Fault
    /\ UNCHANGED <<request, coVars, crashes, ledger>>

-----------------------------------------------------------------------------
(* createRollback.run.                                                     *)

\* Mutant: the subsystem is not rolled back.
UndoGroupNot ==
    /\ pc = "undoGroup"
    /\ UndoCaller
    /\ UNCHANGED <<request, dsmVars, coVars, faults, crashes, ledger>>

UndoGroup ==
    /\ pc = "undoGroup"
    /\ \/ RemoveGroup /\ NoFault /\ UNCHANGED logged
       \/ /\ RemoveGroup \/ UNCHANGED dsmVars
          /\ logged' = logged \cup {call.madeGroup}
          /\ Fault
    /\ UndoCaller
    /\ UNCHANGED <<request, coVars, crashes, unanswered, abandoned>>

\* The unit is fetched by name and deleted.  The DSM may refuse to delete a
\* unit it still copies into.
UndoUnit ==
    /\ pc = "undoUnit"
    /\ \/ RemoveUnit /\ NoFault /\ UNCHANGED logged
       \/ /\ UNCHANGED dsmVars
          /\ logged' = logged \cup {call.madeUnit}
          /\ IF unit.copying THEN NoFault ELSE Fault
       \/ /\ RemoveUnit                               \* removed, answer lost
          /\ logged' = logged \cup {call.madeUnit}
          /\ Fault
    /\ Fail
    /\ UNCHANGED <<request, coVars, crashes, unanswered, abandoned>>

-----------------------------------------------------------------------------
(* DeleteVolume.                                                           *)

\* Mutant: a volume that is not there cannot be deleted.
DeleteVolumeStrict ==
    /\ pc = "idle" /\ co \in {"bound", "deleting"}
    /\ Visible /\ unit.id = pv
    /\ Got("unitDelete", [NoCall EXCEPT !.op = "delete"])
    /\ co' = "deleting"
    /\ UNCHANGED <<request, dsmVars, pv, faults, crashes, ledger>>

DeleteVolume ==
    /\ pc = "idle" /\ co \in {"bound", "deleting"}
    /\ Got(IF Visible /\ unit.id = pv THEN "unitDelete" ELSE "reply",
           [NoCall EXCEPT !.op = "delete"])
    /\ co' = "deleting"
    /\ UNCHANGED <<request, dsmVars, pv, faults, crashes, ledger>>

UnitDelete ==
    /\ pc = "unitDelete"
    /\ \/ /\ RemoveUnit
          /\ Goto("groupDelete")
          /\ NoFault
       \/ /\ RemoveUnit \/ UNCHANGED dsmVars           \* removed or not, no answer
          /\ Goto("unitCheck")
          /\ Fault
    /\ UNCHANGED <<request, coVars, crashes, ledger>>

\* Mutant: any error of the Get counts as deleted.
UnitCheckAnyError ==
    /\ pc = "unitCheck"
    /\ \/ unit = NoUnit /\ Goto("reply") /\ NoFault
       \/ unit # NoUnit /\ Fail /\ NoFault
       \/ Goto("reply") /\ Fault
    /\ UNCHANGED <<request, dsmVars, coVars, crashes, ledger>>

\* The delete failed: only a unit that is not there counts as deleted.  The
\* call ends here either way; once the unit is gone no later lookup leads to
\* its group.
UnitCheck ==
    /\ pc = "unitCheck"
    /\ \/ unit = NoUnit /\ Goto("reply") /\ NoFault
       \/ Fail /\ IF unit = NoUnit THEN Fault ELSE NoFault
    /\ abandoned' = IF unit = NoUnit THEN abandoned \cup {group.id} ELSE abandoned
    /\ UNCHANGED <<request, dsmVars, coVars, crashes, logged, unanswered>>

GroupDelete ==
    /\ pc = "groupDelete"
    /\ \/ RemoveGroup /\ Goto("reply") /\ NoFault
       \/ /\ RemoveGroup \/ UNCHANGED dsmVars
          /\ Goto("groupCheck")
          /\ Fault
    /\ UNCHANGED <<request, coVars, crashes, ledger>>

\* Any error of TargetGet counts as deleted, of SubsystemGet only that it
\* is not there.
GroupCheck ==
    /\ pc = "groupCheck"
    /\ \/ /\ group = NoGroup
          /\ Goto("reply")
          /\ NoFault
          /\ UNCHANGED ledger
       \/ /\ group # NoGroup \/ request.protocol = "nvme"
          /\ Fail
          /\ logged' = logged \cup {group.id}
          /\ IF group # NoGroup THEN NoFault ELSE Fault
          /\ UNCHANGED <<unanswered, abandoned>>
       \/ /\ group # NoGroup /\ request.protocol = "iscsi"
          /\ Goto("reply")
          /\ abandoned' = abandoned \cup {group.id}
          /\ Fault
          /\ UNCHANGED <<logged, unanswered>>
    /\ UNCHANGED <<request, dsmVars, coVars, crashes>>

-----------------------------------------------------------------------------
\* The CO learns that the call succeeded, or it does not.
Deliver ==
    /\ pc = "reply"
    /\ Fail
    /\ \/ /\ co' = IF call.op = "create" THEN "bound" ELSE "deleted"
          /\ pv' = IF call.op = "create" THEN call.id ELSE pv
          /\ NoFault
       \/ Fault /\ UNCHANGED coVars
    /\ UNCHANGED <<request, dsmVars, crashes, ledger>>

\* The driver dies and starts again; the DSM keeps what it holds.
Crash ==
    /\ crashes < MaxCrashes
    /\ crashes' = crashes + 1
    /\ Fail
    /\ unanswered' = IF pc = "idle" THEN unanswered
                     ELSE unanswered \cup {unit.id, group.id}
    /\ UNCHANGED <<request, dsmVars, coVars, faults, logged, abandoned>>

Init ==
    /\ request \in [protocol : Protocols, size : Sizes, source : Sources]
    /\ unit = NoUnit /\ group = NoGroup
    /\ pc = "idle" /\ call = NoCall
    /\ co = "creating" /\ pv = 0
    /\ faults = 0 /\ crashes = 0
    /\ logged = {} /\ unanswered = {} /\ abandoned = {}

HandlerStep ==
    \/ Clone \/ Wait \/ Grow \/ GroupCreate \/ GroupGet \/ MapUnit
    \/ UndoGroup \/ UndoUnit
    \/ UnitDelete \/ UnitCheck \/ GroupDelete \/ GroupCheck \/ Deliver

Next == CreateVolume \/ DeleteVolume \/ HandlerStep \/ CopyEnds \/ Crash

Spec == Init /\ [][Next]_vars

\* A request ends, a copy ends, and the CO repeats a call that did not succeed.
FairSpec ==
    /\ Spec
    /\ WF_vars(HandlerStep) /\ WF_vars(CopyEnds)
    /\ WF_vars(CreateVolume) /\ WF_vars(co = "deleting" /\ DeleteVolume)

-----------------------------------------------------------------------------
(* Properties.                                                             *)

Accounted == logged \cup unanswered

\* What a later lookup can find, and hand out without another look, is a
\* complete copy as large as the volume should be, whatever attempt made it
\* and wherever that attempt failed (createVolumeBySnapshot: rather than
\* "handing back a volume that is smaller than the PVC promises").
VisibleIsComplete == Visible => ~unit.copying /\ unit.size >= request.size

\* The volume the CO was handed must stay visible until the CO asks for its
\* deletion, and exist no longer when that has succeeded.
Held == unit.id = pv /\ (co = "bound" => Visible)
Shown == IF co # "creating" /\ Held THEN unit.size ELSE 0

Contract == INSTANCE VolumeContract WITH
    asked <- {request.size},
    phase <- co,
    size  <- Shown

\* SanVolume does what the controller promises of a volume: the copy, the rollbacks
\* and the retries never take away, shrink or bring back what the CO was handed
\* (CreateVolume and DeleteVolume of dsm.go).
KeepsContract == Contract!Spec

\* A unit no group maps, or a group that maps nothing, stays behind only if a
\* log line reports it or a request that makes it was never answered; a group
\* also where DeleteVolume returns without a word about it, because the unit's
\* deletion failed although the unit is gone (dsm.go:741-746, 758-764), or
\* TargetGet failed after a failed Target.delete (dsm.go:772-775).
LeftoversAccounted == pc = "idle" =>
    /\ unit # NoUnit /\ ~Visible => unit.id \in Accounted
    /\ group # NoGroup /\ group.units = {} => group.id \in Accounted \cup abandoned

\* CreateVolume repeated by the CO ends with a volume: what an earlier attempt
\* left behind is taken over (rollback.go: "Creation is idempotent by design").
CreateSucceeds ==
    co = "creating" /\ request.size >= request.source ~> co = "bound"

\* So it is for a LUN, whose target an attempt looks up by its name.
LunCreateSucceeds == request.protocol = "iscsi" => CreateSucceeds

\* DeleteVolume repeated by the CO ends with success.
DeleteSucceeds == co = "deleting" ~> co = "deleted"
=============================================================================
