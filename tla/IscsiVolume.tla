---------------------------- MODULE IscsiVolume ----------------------------
(***************************************************************************)
(* The life of an iSCSI volume: CreateVolume, DeleteVolume and             *)
(* ControllerExpandVolume of the controller service, over the DSM service  *)
(* that places, looks up, builds and takes apart a LUN and its target.     *)
(*                                                                         *)
(* Every gRPC call runs in a goroutine of its own (a handler) and nothing  *)
(* in the driver locks a volume, so the model takes one step per request   *)
(* to a DSM and interleaves the steps of all handlers.  A request may be   *)
(* answered, may fail without effect, or may take effect while its answer  *)
(* is lost.  The driver process may die at any point; its memory goes, the *)
(* DSMs keep what they hold.                                               *)
(*                                                                         *)
(* The caller (the CO: Kubernetes with its provisioner) is external and    *)
(* modelled from what the driver relies on: it repeats CreateVolume for a  *)
(* name until one succeeds, records the volume id it is given, and repeats *)
(* DeleteVolume for that id until one succeeds.                            *)
(***************************************************************************)
EXTENDS Naturals

CONSTANTS
    Dsms,           \* the DSMs of the configuration file
    Names,          \* names the CO asks volumes for; never used again later
    Sizes,          \* capacities a call may ask for
    Handlers,       \* gRPC calls that may be running at once
    SerialCalls,    \* TRUE: the CO has one call at a time in flight per volume
    StartupFaults,  \* TRUE: a DSM may fail to answer while the driver starts
    MaxFaults,      \* bound: requests that fail or whose answer is lost
    MaxCrashes,     \* bound: restarts of the driver
    MaxObjects      \* bound: LUNs and targets ever made

ASSUME ConstantsAssumption ==
    /\ Dsms # {} /\ Names # {}
    /\ Sizes \subseteq Nat \ {0}
    /\ SerialCalls \in BOOLEAN
    /\ StartupFaults \in BOOLEAN
    /\ MaxFaults \in Nat
    /\ MaxCrashes \in Nat
    /\ MaxObjects \in Nat

VARIABLES
    lun,        \* [Dsms -> [Names -> LUN]]: a DSM holds one LUN of a name
    target,     \* [Dsms -> [Names -> target]]: likewise for targets
    nextId,     \* LUN uuids and target ids handed out so far
    dsms,       \* service.dsms: the DSMs the running driver knows
    pc,         \* where each handler is
    call,       \* the call a handler serves
    todo,       \* its findVolume: DSMs whose targets are still to be listed,
    maps,       \*   mappings whose LUN is still to be fetched,
    found,      \*   volumes that match,
    listErr,    \*   and whether the listing is incomplete
    rest,       \* its CreateVolume loop: DSMs not tried yet
    vol,        \* the k8sVolume it builds, expands or deletes
    madeLun,    \* its createRollback: the LUN this attempt created, if any,
    madeTgt,    \*   and the target
    res,        \* the response it is about to send
    co,         \* the CO's view of each volume
    pv,         \* the volume id the CO recorded
    faults, crashes,
    logged,     \* objects a log line reports as left behind
    unanswered, \* history: objects some request about which went unanswered
    abandoned   \* history: targets DeleteVolume gave up without saying so

dsmVars    == <<lun, target, nextId>>
lookVars   == <<todo, maps, found, listErr>>
undoVars   == <<madeLun, madeTgt>>
coVars     == <<co, pv>>
ledger     == <<logged, unanswered, abandoned>>
vars == <<lun, target, nextId, dsms, pc, call, todo, maps, found, listErr, rest,
          vol, madeLun, madeTgt, res, co, pv, faults, crashes, logged, unanswered,
          abandoned>>

-----------------------------------------------------------------------------
(* Types.  An id of 0 means that there is no such object.                  *)

NoLun    == [uuid |-> 0, size |-> 0]
NoTarget == [id |-> 0, luns |-> {}]

Lun     == [uuid : Nat, size : Nat]
Target  == [id : Nat, luns : SUBSET Nat]
Call    == [op : {"create", "delete", "expand"}, name : Names, size : Nat, id : Nat]
Mapping == [dsm : Dsms, uuid : Nat, tgt : Nat, luns : SUBSET Nat]
Volume  == [dsm : Dsms, uuid : Nat, size : Nat, tgt : Nat, luns : SUBSET Nat]
Reply   == [code : {"OK", "error"}, id : Nat]

\* What the variables of a handler hold while it serves no call.
NoCall   == [op |-> "create", name |-> CHOOSE n \in Names : TRUE, size |-> 0, id |-> 0]
NoVolume == [dsm |-> CHOOSE d \in Dsms : TRUE, uuid |-> 0, size |-> 0, tgt |-> 0,
             luns |-> {}]
NoReply  == [code |-> "error", id |-> 0]

NewVolume(d) == [dsm |-> d, uuid |-> 0, size |-> 0, tgt |-> 0, luns |-> {}]
\* Mutant: the capacity LunGet reports is not copied into the volume.
WithLunNoSize(v, l) == [dsm |-> v.dsm, uuid |-> l.uuid, tgt |-> v.tgt, luns |-> v.luns]
WithLun(v, l) == [dsm |-> v.dsm, uuid |-> l.uuid, size |-> l.size, tgt |-> v.tgt,
                  luns |-> v.luns]
WithTarget(v, t) == [dsm |-> v.dsm, uuid |-> v.uuid, size |-> v.size, tgt |-> t.id,
                     luns |-> t.luns]

Labels == {"idle", "lookup", "pick", "lunCreate", "lunGet", "targetCreate",
           "targetGet", "lunMap", "undoTarget", "undoLunGet", "undoLunDelete",
           "lunDelete", "lunCheck", "targetDelete", "targetCheck",
           "lunUpdate", "reply"}

TypeOK ==
    /\ lun \in [Dsms -> [Names -> Lun]]
    /\ target \in [Dsms -> [Names -> Target]]
    /\ nextId \in Nat
    /\ dsms \subseteq Dsms
    /\ pc \in [Handlers -> Labels]
    /\ call \in [Handlers -> Call]
    /\ todo \in [Handlers -> SUBSET Dsms]
    /\ maps \in [Handlers -> SUBSET Mapping]
    /\ found \in [Handlers -> SUBSET Volume]
    /\ listErr \in [Handlers -> {"nil", "incomplete"}]
    /\ rest \in [Handlers -> SUBSET Dsms]
    /\ vol \in [Handlers -> Volume]
    /\ madeLun \in [Handlers -> Nat]
    /\ madeTgt \in [Handlers -> Nat]
    /\ res \in [Handlers -> Reply]
    /\ co \in [Names -> {"creating", "bound", "deleting", "deleted"}]
    /\ pv \in [Names -> Nat]
    /\ faults \in Nat /\ crashes \in Nat
    /\ logged \subseteq Nat /\ unanswered \subseteq Nat /\ abandoned \subseteq Nat

-----------------------------------------------------------------------------
(* Requests to a DSM.                                                      *)

\* A request fails, or its answer does: sendRequest returns an error that
\* errCodeMapping does not recognise.
Fault == faults < MaxFaults /\ faults' = faults + 1
NoFault == UNCHANGED faults

CanMake == nextId < MaxObjects

\* LUN.create and Target.create on a DSM that has no object of that name.
AddLun(d, n, s) ==
    /\ CanMake
    /\ nextId' = nextId + 1
    /\ lun' = [lun EXCEPT ![d][n] = [uuid |-> nextId + 1, size |-> s]]
    /\ UNCHANGED target

AddTarget(d, n) ==
    /\ CanMake
    /\ nextId' = nextId + 1
    /\ target' = [target EXCEPT ![d][n] = [id |-> nextId + 1, luns |-> {}]]
    /\ UNCHANGED lun

\* LUN.delete: the DSM drops the LUN's mappings with it.
RemoveLun(d, u) ==
    /\ lun' = [lun EXCEPT ![d] = [n \in Names |->
                  IF lun[d][n].uuid = u THEN NoLun ELSE lun[d][n]]]
    /\ target' = [target EXCEPT ![d] = [n \in Names |->
                  [id |-> target[d][n].id, luns |-> target[d][n].luns \ {u}]]]
    /\ UNCHANGED nextId

\* Target.delete: the LUNs it mapped stay, unmapped.
RemoveTarget(d, t) ==
    /\ target' = [target EXCEPT ![d] = [n \in Names |->
                  IF target[d][n].id = t THEN NoTarget ELSE target[d][n]]]
    /\ UNCHANGED <<lun, nextId>>

HasLun(d, u) == u # 0 /\ \E n \in Names : lun[d][n].uuid = u
HasTarget(d, t) == t # 0 /\ \E n \in Names : target[d][n].id = t

-----------------------------------------------------------------------------
(* Handlers.                                                               *)

Goto(h, l) == pc' = [pc EXCEPT ![h] = l]

Respond(h, code, id) ==
    /\ Goto(h, "reply")
    /\ res' = [res EXCEPT ![h] = [code |-> code, id |-> id]]

Active(n) == {h \in Handlers : pc[h] # "idle" /\ call[h].name = n}

\* The CO sends a call; the handler enters findVolume, which first searches
\* the shares (of other volumes: it can only fail or find nothing here).
Start(h, op, n, s, id) ==
    /\ pc[h] = "idle"
    /\ SerialCalls => Active(n) = {}
    /\ call' = [call EXCEPT ![h] = [op |-> op, name |-> n, size |-> s, id |-> id]]
    /\ Goto(h, "lookup")
    /\ todo' = [todo EXCEPT ![h] = dsms]
    /\ \/ NoFault /\ UNCHANGED listErr
       \/ Fault /\ listErr' = [listErr EXCEPT ![h] = "incomplete"]
    /\ UNCHANGED <<dsmVars, dsms, maps, found, rest, vol, undoVars, res, pv,
                   crashes, ledger>>

CreateVolume(h, n) == \E s \in Sizes :
    /\ co[n] = "creating"
    /\ Start(h, "create", n, s, 0)
    /\ UNCHANGED co

ControllerExpandVolume(h, n) == \E s \in Sizes :
    /\ co[n] = "bound"
    /\ Start(h, "expand", n, s, pv[n])
    /\ UNCHANGED co

DeleteVolume(h, n) ==
    /\ co[n] \in {"bound", "deleting"}
    /\ Start(h, "delete", n, 0, pv[n])
    /\ co' = [co EXCEPT ![n] = "deleting"]

\* listISCSIVolumes, one DSM: the mappings of every target it lists.
Mappings(d) ==
    UNION {{[dsm |-> d, uuid |-> u, tgt |-> target[d][n].id,
             luns |-> target[d][n].luns] : u \in target[d][n].luns} :
           n \in Names}

ListTargets(h) ==
    /\ pc[h] = "lookup"
    /\ maps[h] = {}
    /\ \E d \in todo[h] :
         /\ todo' = [todo EXCEPT ![h] = todo[h] \ {d}]
         /\ \/ /\ NoFault
               /\ maps' = [maps EXCEPT ![h] = Mappings(d)]
               /\ UNCHANGED listErr
            \/ /\ Fault
               /\ listErr' = [listErr EXCEPT ![h] = "incomplete"]
               /\ UNCHANGED maps
    /\ UNCHANGED <<dsmVars, dsms, pc, call, found, rest, vol, undoVars, res,
                   coVars, crashes, ledger>>

\* GetVolume matches by id, GetVolumeByName by name.
Matches(c, n, u) == IF c.op = "create" THEN n = c.name ELSE u = c.id

VolumeOf(m, n) == [dsm |-> m.dsm, uuid |-> m.uuid, size |-> lun[m.dsm][n].size,
                   tgt |-> m.tgt, luns |-> m.luns]

\* The LUN behind a mapping may have gone since the targets were listed: like
\* any other failure that leaves the listing incomplete.
GetMappedLun(h) ==
    /\ pc[h] = "lookup"
    /\ \E m \in maps[h] :
         /\ maps' = [maps EXCEPT ![h] = maps[h] \ {m}]
         /\ \/ \E n \in Names :
                 /\ lun[m.dsm][n].uuid = m.uuid
                 /\ found' = IF Matches(call[h], n, m.uuid)
                             THEN [found EXCEPT ![h] = found[h] \cup {VolumeOf(m, n)}]
                             ELSE found
                 /\ NoFault
                 /\ UNCHANGED listErr
            \/ /\ IF HasLun(m.dsm, m.uuid) THEN Fault ELSE NoFault
               /\ listErr' = [listErr EXCEPT ![h] = "incomplete"]
               /\ UNCHANGED found
    /\ UNCHANGED <<dsmVars, dsms, pc, call, todo, rest, vol, undoVars, res,
                   coVars, crashes, ledger>>

\* findVolume returns: a volume, (nil, nil), or an error.
LookedUp(h, op) ==
    /\ pc[h] = "lookup"
    /\ call[h].op = op
    /\ todo[h] = {} /\ maps[h] = {}
    /\ found' = [found EXCEPT ![h] = {}]
    /\ listErr' = [listErr EXCEPT ![h] = "nil"]
    /\ UNCHANGED <<todo, maps>>
\* Mutant: a listing that failed counts as an empty one.
AbsentIgnoringErrors(h) == found[h] = {}
Absent(h) == found[h] = {} /\ listErr[h] = "nil"
Unknown(h) == found[h] = {} /\ listErr[h] = "incomplete"

\* CreateVolume answers with a volume only if its capacity is the one asked for.
RespondVolume(h, v) ==
    Respond(h, IF v.size = call[h].size THEN "OK" ELSE "error", v.uuid)

CreateLookedUp(h) ==
    /\ LookedUp(h, "create")
    /\ \/ \E v \in found[h] :
            /\ RespondVolume(h, v)
            /\ UNCHANGED rest
       \/ /\ Unknown(h)
          /\ Respond(h, "error", 0)
          /\ UNCHANGED rest
       \/ /\ Absent(h)
          /\ Goto(h, "pick")
          /\ rest' = [rest EXCEPT ![h] = dsms]
          /\ UNCHANGED res
    /\ UNCHANGED <<dsmVars, dsms, call, vol, undoVars, coVars, faults,
                   crashes, ledger>>

\* Mutant: deleting a volume that does not exist is an error.
DeleteLookedUpStrict(h) ==
    /\ LookedUp(h, "delete")
    /\ \/ \E v \in found[h] :
            /\ vol' = [vol EXCEPT ![h] = v]
            /\ Goto(h, "lunDelete")
            /\ UNCHANGED res
       \/ /\ found[h] = {}
          /\ Respond(h, "error", 0)
          /\ UNCHANGED vol
    /\ UNCHANGED <<dsmVars, dsms, call, rest, undoVars, coVars, faults,
                   crashes, ledger>>

DeleteLookedUp(h) ==
    /\ LookedUp(h, "delete")
    /\ \/ \E v \in found[h] :
            /\ vol' = [vol EXCEPT ![h] = v]
            /\ Goto(h, "lunDelete")
            /\ UNCHANGED res
       \/ /\ Unknown(h)
          /\ Respond(h, "error", 0)
          /\ UNCHANGED vol
       \/ /\ Absent(h)
          /\ Respond(h, "OK", 0)
          /\ UNCHANGED vol
    /\ UNCHANGED <<dsmVars, dsms, call, rest, undoVars, coVars, faults,
                   crashes, ledger>>

\* Mutant: the requested capacity is not compared with the LUN's.
ExpandLookedUpUnchecked(h) ==
    /\ LookedUp(h, "expand")
    /\ \/ \E v \in found[h] :
            /\ vol' = [vol EXCEPT ![h] = v]
            /\ Goto(h, "lunUpdate")
            /\ UNCHANGED res
       \/ /\ found[h] = {}
          /\ Respond(h, "error", 0)
          /\ UNCHANGED vol
    /\ UNCHANGED <<dsmVars, dsms, call, rest, undoVars, coVars, faults,
                   crashes, ledger>>

ExpandLookedUp(h) ==
    /\ LookedUp(h, "expand")
    /\ \/ \E v \in found[h] :
            /\ v.size <= call[h].size
            /\ vol' = [vol EXCEPT ![h] = v]
            /\ Goto(h, "lunUpdate")
            /\ UNCHANGED res
       \/ /\ \/ found[h] = {}
             \/ \E v \in found[h] : v.size > call[h].size
          /\ Respond(h, "error", 0)
          /\ UNCHANGED vol
    /\ UNCHANGED <<dsmVars, dsms, call, rest, undoVars, coVars, faults,
                   crashes, ledger>>

-----------------------------------------------------------------------------
(* service.CreateVolume and createVolumeByDsm.                             *)

\* The next DSM of the loop, in the random order of a Go map; none left is
\* the end of the call.
PickDsm(h) ==
    /\ pc[h] = "pick"
    /\ \/ \E d \in rest[h] :
            /\ rest' = [rest EXCEPT ![h] = @ \ {d}]
            /\ vol' = [vol EXCEPT ![h] = NewVolume(d)]
            /\ madeLun' = [madeLun EXCEPT ![h] = 0]
            /\ madeTgt' = [madeTgt EXCEPT ![h] = 0]
            /\ Goto(h, "lunCreate")
            /\ UNCHANGED res
       \/ /\ rest[h] = {}
          /\ Respond(h, "error", 0)
          /\ UNCHANGED <<rest, vol, undoVars>>
    /\ UNCHANGED <<dsmVars, dsms, call, lookVars, coVars, faults, crashes, ledger>>

\* A failure ends the attempt on this DSM: createMappingTarget's rollback runs
\* first, then its caller's, then the loop goes on.
UndoLun(h) == Goto(h, IF madeLun[h] # 0 THEN "undoLunGet" ELSE "pick")
\* Mutant: createMappingTarget registers no rollback for its target.
UndoKeepingTarget(h) == UndoLun(h)
Undo(h) == IF madeTgt[h] # 0 THEN Goto(h, "undoTarget") ELSE UndoLun(h)

\* Mutant: a LUN that already exists is an error.
LunCreateStrict(h) ==
    LET d == vol[h].dsm  n == call[h].name IN
    /\ pc[h] = "lunCreate"
    /\ \/ /\ lun[d][n] = NoLun
          /\ AddLun(d, n, call[h].size)
          /\ madeLun' = [madeLun EXCEPT ![h] = nextId + 1]
          /\ UNCHANGED madeTgt
          /\ Goto(h, "lunGet")
          /\ NoFault
          /\ UNCHANGED unanswered
       \/ /\ IF lun[d][n] # NoLun THEN NoFault ELSE Fault
          /\ Goto(h, "pick")
          /\ UNCHANGED <<dsmVars, undoVars, unanswered>>
       \/ /\ lun[d][n] = NoLun
          /\ Fault
          /\ AddLun(d, n, call[h].size)
          /\ unanswered' = unanswered \cup {nextId + 1}
          /\ Goto(h, "pick")
          /\ UNCHANGED undoVars
    /\ UNCHANGED <<dsms, call, lookVars, rest, vol, res, coVars, crashes, logged, abandoned>>

\* A failure before the LUN is made (no location) also ends in "pick".
LunCreate(h) ==
    LET d == vol[h].dsm  n == call[h].name IN
    /\ pc[h] = "lunCreate"
    /\ \/ /\ lun[d][n] = NoLun
          /\ AddLun(d, n, call[h].size)
          /\ madeLun' = [madeLun EXCEPT ![h] = nextId + 1]
          /\ UNCHANGED madeTgt
          /\ Goto(h, "lunGet")
          /\ NoFault
          /\ UNCHANGED unanswered
       \/ /\ lun[d][n] # NoLun                        \* AlreadyExistError
          /\ Goto(h, "lunGet")
          /\ NoFault
          /\ UNCHANGED <<dsmVars, undoVars, unanswered>>
       \/ /\ Fault
          /\ Goto(h, "pick")
          /\ UNCHANGED <<dsmVars, undoVars, unanswered>>
       \/ /\ lun[d][n] = NoLun                        \* made, answer lost
          /\ Fault
          /\ AddLun(d, n, call[h].size)
          /\ unanswered' = unanswered \cup {nextId + 1}
          /\ Goto(h, "pick")
          /\ UNCHANGED undoVars
    /\ UNCHANGED <<dsms, call, lookVars, rest, vol, res, coVars, crashes, logged, abandoned>>

LunGet(h) ==
    LET l == lun[vol[h].dsm][call[h].name] IN
    /\ pc[h] = "lunGet"
    /\ \/ /\ l # NoLun
          /\ vol' = [vol EXCEPT ![h] = WithLun(vol[h], l)]
          /\ Goto(h, "targetCreate")
          /\ NoFault
       \/ /\ IF l = NoLun THEN NoFault ELSE Fault
          /\ Undo(h)
          /\ UNCHANGED vol
    /\ UNCHANGED <<dsmVars, dsms, call, lookVars, rest, undoVars, res, coVars, crashes,
                   ledger>>

\* createMappingTarget.
TargetCreate(h) ==
    LET d == vol[h].dsm  n == call[h].name IN
    /\ pc[h] = "targetCreate"
    /\ \/ /\ target[d][n] = NoTarget
          /\ AddTarget(d, n)
          /\ madeTgt' = [madeTgt EXCEPT ![h] = nextId + 1]
          /\ UNCHANGED madeLun
          /\ Goto(h, "targetGet")
          /\ NoFault
          /\ UNCHANGED unanswered
       \/ /\ target[d][n] # NoTarget                  \* AlreadyExistError
          /\ Goto(h, "targetGet")
          /\ NoFault
          /\ UNCHANGED <<dsmVars, undoVars, unanswered>>
       \/ /\ Fault
          /\ Undo(h)
          /\ UNCHANGED <<dsmVars, undoVars, unanswered>>
       \/ /\ target[d][n] = NoTarget                  \* made, answer lost
          /\ Fault
          /\ AddTarget(d, n)
          /\ unanswered' = unanswered \cup {nextId + 1}
          /\ Undo(h)
          /\ UNCHANGED undoVars
    /\ UNCHANGED <<dsms, call, lookVars, rest, vol, res, coVars, crashes, logged, abandoned>>

\* TargetGet, and TargetSet where several sessions are allowed: it changes
\* nothing the model keeps, and fails like TargetGet.
TargetGet(h) ==
    LET t == target[vol[h].dsm][call[h].name] IN
    /\ pc[h] = "targetGet"
    /\ \/ /\ t # NoTarget
          /\ vol' = [vol EXCEPT ![h] = WithTarget(vol[h], t)]
          /\ Goto(h, "lunMap")
          /\ NoFault
       \/ /\ IF t = NoTarget THEN NoFault ELSE Fault
          /\ Undo(h)
          /\ UNCHANGED vol
    /\ UNCHANGED <<dsmVars, dsms, call, lookVars, rest, undoVars, res, coVars, crashes,
                   ledger>>

MapLun(d, t, u) ==
    /\ HasLun(d, u) /\ HasTarget(d, t)
    /\ target' = [target EXCEPT ![d] = [n \in Names |->
                  IF target[d][n].id = t
                  THEN [id |-> t, luns |-> target[d][n].luns \cup {u}]
                  ELSE target[d][n]]]
    /\ UNCHANGED <<lun, nextId>>

\* Mutant: the error of LunMapTarget is dropped.
LunMapTargetUnchecked(h) ==
    LET v == vol[h] IN
    /\ pc[h] = "lunMap"
    /\ RespondVolume(h, v)
    /\ \/ MapLun(v.dsm, v.tgt, v.uuid) /\ NoFault
       \/ Fault /\ UNCHANGED dsmVars
    /\ UNCHANGED <<dsms, call, lookVars, rest, vol, undoVars, coVars, crashes, ledger>>

LunMapTarget(h) ==
    LET v == vol[h] IN
    /\ pc[h] = "lunMap"
    /\ \/ /\ MapLun(v.dsm, v.tgt, v.uuid)
          /\ RespondVolume(h, v)
          /\ NoFault
       \/ /\ IF HasLun(v.dsm, v.uuid) /\ HasTarget(v.dsm, v.tgt)
             THEN Fault ELSE NoFault
          /\ Undo(h)
          /\ UNCHANGED <<dsmVars, res>>
       \/ /\ MapLun(v.dsm, v.tgt, v.uuid)             \* mapped, answer lost
          /\ Fault
          /\ Undo(h)
          /\ UNCHANGED res
    /\ UNCHANGED <<dsms, call, lookVars, rest, vol, undoVars, coVars, crashes, ledger>>

-----------------------------------------------------------------------------
(* createRollback.run.  A step that fails is logged and the next one runs. *)

UndoTarget(h) ==
    LET d == vol[h].dsm  t == madeTgt[h] IN
    /\ pc[h] = "undoTarget"
    /\ \/ /\ HasTarget(d, t)
          /\ RemoveTarget(d, t)
          /\ NoFault
          /\ UNCHANGED logged
       \/ /\ IF HasTarget(d, t) THEN Fault ELSE NoFault
          /\ logged' = logged \cup {t}
          /\ UNCHANGED dsmVars
       \/ /\ HasTarget(d, t)                          \* removed, answer lost
          /\ RemoveTarget(d, t)
          /\ Fault
          /\ logged' = logged \cup {t}
    /\ UndoLun(h)
    /\ UNCHANGED <<dsms, call, lookVars, rest, vol, undoVars, res, coVars, crashes,
                   unanswered, abandoned>>

\* The LUN's undo function finds the LUN by name ...
UndoLunGet(h) ==
    LET l == lun[vol[h].dsm][call[h].name] IN
    /\ pc[h] = "undoLunGet"
    /\ \/ /\ l # NoLun
          /\ vol' = [vol EXCEPT ![h] = WithLun(vol[h], l)]
          /\ Goto(h, "undoLunDelete")
          /\ NoFault
          /\ UNCHANGED logged
       \/ /\ IF l = NoLun THEN NoFault ELSE Fault
          /\ Goto(h, "pick")
          /\ logged' = logged \cup {l.uuid}
          /\ UNCHANGED vol
    /\ UNCHANGED <<dsmVars, dsms, call, lookVars, rest, undoVars, res, coVars, crashes,
                   unanswered, abandoned>>

\* ... and deletes it by uuid.
UndoLunDelete(h) ==
    LET d == vol[h].dsm  u == vol[h].uuid IN
    /\ pc[h] = "undoLunDelete"
    /\ \/ /\ HasLun(d, u)
          /\ RemoveLun(d, u)
          /\ NoFault
          /\ UNCHANGED logged
       \/ /\ IF HasLun(d, u) THEN Fault ELSE NoFault
          /\ logged' = logged \cup {u}
          /\ UNCHANGED dsmVars
       \/ /\ HasLun(d, u)                             \* removed, answer lost
          /\ RemoveLun(d, u)
          /\ Fault
          /\ logged' = logged \cup {u}
    /\ Goto(h, "pick")
    /\ UNCHANGED <<dsms, call, lookVars, rest, vol, undoVars, res, coVars, crashes,
                   unanswered, abandoned>>

-----------------------------------------------------------------------------
(* service.DeleteVolume and service.ExpandVolume, after the lookup.        *)

\* A target that maps several LUNs is left alone.
AfterLunDelete(h, v) ==
    IF v.luns = {v.uuid} THEN Goto(h, "targetDelete") /\ UNCHANGED res
                         ELSE Respond(h, "OK", 0)

LunDelete(h) ==
    LET v == vol[h] IN
    /\ pc[h] = "lunDelete"
    /\ \/ /\ HasLun(v.dsm, v.uuid)
          /\ RemoveLun(v.dsm, v.uuid)
          /\ AfterLunDelete(h, v)
          /\ NoFault
       \/ /\ IF HasLun(v.dsm, v.uuid) THEN Fault ELSE NoFault
          /\ Goto(h, "lunCheck")
          /\ UNCHANGED <<dsmVars, res>>
       \/ /\ HasLun(v.dsm, v.uuid)                    \* removed, answer lost
          /\ RemoveLun(v.dsm, v.uuid)
          /\ Fault
          /\ Goto(h, "lunCheck")
          /\ UNCHANGED res
    /\ UNCHANGED <<dsms, call, lookVars, rest, vol, undoVars, coVars, crashes, ledger>>

\* LunDelete failed: only NoSuchLun counts as deleted.  The call ends here
\* either way; once the LUN is gone no later lookup leads to its target.
LunCheck(h) ==
    LET v == vol[h]  gone == ~HasLun(v.dsm, v.uuid) IN
    /\ pc[h] = "lunCheck"
    /\ \/ /\ gone
          /\ Respond(h, "OK", 0)
          /\ NoFault
       \/ /\ IF gone THEN Fault ELSE NoFault
          /\ Respond(h, "error", 0)
    /\ abandoned' = IF gone THEN abandoned \cup {v.tgt} ELSE abandoned
    /\ UNCHANGED <<dsmVars, dsms, call, lookVars, rest, vol, undoVars, coVars, crashes,
                   logged, unanswered>>

TargetDelete(h) ==
    LET v == vol[h] IN
    /\ pc[h] = "targetDelete"
    /\ \/ /\ HasTarget(v.dsm, v.tgt)
          /\ RemoveTarget(v.dsm, v.tgt)
          /\ Respond(h, "OK", 0)
          /\ NoFault
       \/ /\ IF HasTarget(v.dsm, v.tgt) THEN Fault ELSE NoFault
          /\ Goto(h, "targetCheck")
          /\ UNCHANGED <<dsmVars, res>>
       \/ /\ HasTarget(v.dsm, v.tgt)                  \* removed, answer lost
          /\ RemoveTarget(v.dsm, v.tgt)
          /\ Fault
          /\ Goto(h, "targetCheck")
          /\ UNCHANGED res
    /\ UNCHANGED <<dsms, call, lookVars, rest, vol, undoVars, coVars, crashes, ledger>>

\* TargetDelete failed: any error of TargetGet counts as deleted.
TargetCheck(h) ==
    LET v == vol[h] IN
    /\ pc[h] = "targetCheck"
    /\ \/ /\ HasTarget(v.dsm, v.tgt)
          /\ Respond(h, "error", 0)
          /\ logged' = logged \cup {v.tgt}
          /\ NoFault
          /\ UNCHANGED abandoned
       \/ /\ Respond(h, "OK", 0)
          /\ IF HasTarget(v.dsm, v.tgt) THEN Fault ELSE NoFault
          /\ abandoned' = abandoned \cup {v.tgt}
          /\ UNCHANGED logged
    /\ UNCHANGED <<dsmVars, dsms, call, lookVars, rest, vol, undoVars, coVars, crashes,
                   unanswered>>

SetLunSize(d, u, s) ==
    /\ HasLun(d, u)
    /\ lun' = [lun EXCEPT ![d] = [n \in Names |->
                  IF lun[d][n].uuid = u THEN [uuid |-> u, size |-> s]
                                        ELSE lun[d][n]]]
    /\ UNCHANGED <<target, nextId>>

LunUpdate(h) ==
    LET v == vol[h] IN
    /\ pc[h] = "lunUpdate"
    /\ \/ /\ SetLunSize(v.dsm, v.uuid, call[h].size)
          /\ Respond(h, "OK", v.uuid)
          /\ NoFault
       \/ /\ IF HasLun(v.dsm, v.uuid) THEN Fault ELSE NoFault
          /\ Respond(h, "error", 0)
          /\ UNCHANGED dsmVars
       \/ /\ SetLunSize(v.dsm, v.uuid, call[h].size)  \* grown, answer lost
          /\ Respond(h, "error", 0)
          /\ Fault
    /\ UNCHANGED <<dsms, call, lookVars, rest, vol, undoVars, coVars, crashes, ledger>>

-----------------------------------------------------------------------------
(* The CO receives a response, or has stopped waiting for it; the driver   *)
(* dies and starts again.                                                  *)

Deliver(h) ==
    LET n == call[h].name  op == call[h].op  ok == res[h].code = "OK" IN
    /\ pc[h] = "reply"
    /\ Goto(h, "idle")
    /\ call' = [call EXCEPT ![h] = NoCall]
    /\ rest' = [rest EXCEPT ![h] = {}]
    /\ vol' = [vol EXCEPT ![h] = NoVolume]
    /\ madeLun' = [madeLun EXCEPT ![h] = 0]
    /\ madeTgt' = [madeTgt EXCEPT ![h] = 0]
    /\ res' = [res EXCEPT ![h] = NoReply]
    /\ \/ /\ ok /\ op = "create" /\ co[n] = "creating"
          /\ co' = [co EXCEPT ![n] = "bound"]
          /\ pv' = [pv EXCEPT ![n] = res[h].id]
          /\ NoFault
       \/ /\ ok /\ op = "delete" /\ co[n] = "deleting"
          /\ co' = [co EXCEPT ![n] = "deleted"]
          /\ NoFault
          /\ UNCHANGED pv
       \/ /\ IF \/ ~ok \/ op = "expand"
                \/ op = "create" /\ co[n] # "creating"
                \/ op = "delete" /\ co[n] # "deleting"
             THEN NoFault ELSE Fault
          /\ UNCHANGED coVars
    /\ UNCHANGED <<dsmVars, dsms, lookVars, crashes, ledger>>

\* driverStart: AddDsm for every DSM of the configuration.  One that fails is
\* logged and the driver runs without it.
Started(S) == IF StartupFaults THEN S \subseteq Dsms ELSE S = Dsms

InFlight == {n \in Names : Active(n) # {}}

Crash ==
    /\ crashes < MaxCrashes
    /\ crashes' = crashes + 1
    /\ pc' = [h \in Handlers |-> "idle"]
    /\ call' = [h \in Handlers |-> NoCall]
    /\ todo' = [h \in Handlers |-> {}]
    /\ maps' = [h \in Handlers |-> {}]
    /\ found' = [h \in Handlers |-> {}]
    /\ listErr' = [h \in Handlers |-> "nil"]
    /\ rest' = [h \in Handlers |-> {}]
    /\ vol' = [h \in Handlers |-> NoVolume]
    /\ madeLun' = [h \in Handlers |-> 0]
    /\ madeTgt' = [h \in Handlers |-> 0]
    /\ res' = [h \in Handlers |-> NoReply]
    /\ dsms' \in {S \in SUBSET Dsms : Started(S)}
    /\ unanswered' = unanswered \cup {lun[d][n].uuid : d \in Dsms, n \in InFlight}
                                \cup {target[d][n].id : d \in Dsms, n \in InFlight}
    /\ UNCHANGED <<dsmVars, coVars, faults, logged, abandoned>>

-----------------------------------------------------------------------------
Init ==
    /\ lun = [d \in Dsms |-> [n \in Names |-> NoLun]]
    /\ target = [d \in Dsms |-> [n \in Names |-> NoTarget]]
    /\ nextId = 0
    /\ dsms \in {S \in SUBSET Dsms : Started(S)}
    /\ pc = [h \in Handlers |-> "idle"]
    /\ call = [h \in Handlers |-> NoCall]
    /\ todo = [h \in Handlers |-> {}]
    /\ maps = [h \in Handlers |-> {}]
    /\ found = [h \in Handlers |-> {}]
    /\ listErr = [h \in Handlers |-> "nil"]
    /\ rest = [h \in Handlers |-> {}]
    /\ vol = [h \in Handlers |-> NoVolume]
    /\ madeLun = [h \in Handlers |-> 0]
    /\ madeTgt = [h \in Handlers |-> 0]
    /\ res = [h \in Handlers |-> NoReply]
    /\ co = [n \in Names |-> "creating"]
    /\ pv = [n \in Names |-> 0]
    /\ faults = 0 /\ crashes = 0
    /\ logged = {} /\ unanswered = {} /\ abandoned = {}

HandlerStep(h) ==
    \/ ListTargets(h) \/ GetMappedLun(h)
    \/ CreateLookedUp(h) \/ DeleteLookedUp(h) \/ ExpandLookedUp(h)
    \/ PickDsm(h) \/ LunCreate(h) \/ LunGet(h)
    \/ TargetCreate(h) \/ TargetGet(h) \/ LunMapTarget(h)
    \/ UndoTarget(h) \/ UndoLunGet(h) \/ UndoLunDelete(h)
    \/ LunDelete(h) \/ LunCheck(h) \/ TargetDelete(h) \/ TargetCheck(h)
    \/ LunUpdate(h) \/ Deliver(h)

Next ==
    \/ \E h \in Handlers, n \in Names :
         CreateVolume(h, n) \/ ControllerExpandVolume(h, n) \/ DeleteVolume(h, n)
    \/ \E h \in Handlers : HandlerStep(h)
    \/ Crash

Spec == Init /\ [][Next]_vars

\* Fairness: a goroutine whose request is answered or fails goes on, and the
\* CO repeats a call that did not succeed.
FairSpec ==
    /\ Spec
    /\ \A h \in Handlers : WF_vars(HandlerStep(h))
    /\ \A n \in Names : WF_vars(\E h \in Handlers : CreateVolume(h, n))
    /\ \A n \in Names : WF_vars(\E h \in Handlers :
                                  co[n] = "deleting" /\ DeleteVolume(h, n))

-----------------------------------------------------------------------------
(* Properties.                                                             *)

Visible(d, n) == lun[d][n] # NoLun /\ lun[d][n].uuid \in target[d][n].luns
Accounted == logged \cup unanswered

\* A volume the CO was told of and has not asked to delete is on some DSM, and
\* a target maps it: no rollback, retry or failed request has taken it away
\* (rollback.go: a rollback must not "take away a volume that is in use").
RecordedVolumeExists == \A n \in Names :
    co[n] = "bound" => \E d \in Dsms : Visible(d, n) /\ lun[d][n].uuid = pv[n]

\* Once DeleteVolume has reported success the LUN is on no DSM: a DSM that
\* could not be listed is never taken for a volume that is gone (GetVolume).
DeletedVolumeIsGone == \A n \in Names :
    co[n] = "deleted" => \A d \in Dsms : ~HasLun(d, pv[n])

\* The DSMs that hold the volume the CO was handed: those that show it while it
\* is in use, and those that have its LUN once it is to go.
Holders(n) == {d \in Dsms : lun[d][n] # NoLun /\ lun[d][n].uuid = pv[n]
                                /\ (co[n] = "bound" => Visible(d, n))}

Shown(n) == IF co[n] = "creating" \/ Holders(n) = {} THEN 0
            ELSE lun[CHOOSE d \in Holders(n) : TRUE][n].size

Contract(n) == INSTANCE VolumeContract WITH
    asked <- Sizes,
    phase <- co[n],
    size  <- Shown(n)

\* IscsiVolume does what the controller promises of each volume: over all DSMs,
\* no rollback, retry, lost answer or restart takes away, shrinks or brings back
\* what the CO was handed (CreateVolume, ExpandVolume, DeleteVolume of dsm.go).
KeepsContract ==
    /\ \A n \in Names : Contract(n)!Init
    /\ [][\A n \in Names : [Contract(n)!Next]_(Contract(n)!vars)]_vars

\* A LUN no target maps, or a target that maps nothing, is invisible to every
\* later call.  None is left once no call for its name runs, except where a
\* log line reports it or a request that makes it was never answered; and a
\* target also where DeleteVolume returns without a word about it, because
\* LUN.delete failed although the LUN is gone (dsm.go:758-764), or TargetGet
\* failed after a failed Target.delete (dsm.go:772-775).  No LUN stays so.
LeftoversAccounted == \A d \in Dsms, n \in Names :
    Active(n) = {} =>
        /\ lun[d][n] # NoLun /\ ~Visible(d, n) => lun[d][n].uuid \in Accounted
        /\ target[d][n] # NoTarget /\ target[d][n].luns = {} =>
               target[d][n].id \in Accounted \cup abandoned

\* One name has two volumes only if the rollback of one of them was reported
\* to have failed, or a request about it was never answered (CreateVolume:
\* "could produce a second volume for the same PVC").
SecondVolumeAccounted == \A n \in Names, d \in Dsms, e \in Dsms :
    d # e /\ Visible(d, n) /\ Visible(e, n) =>
        {lun[d][n].uuid, target[d][n].id, lun[e][n].uuid, target[e][n].id}
            \cap Accounted # {}

\* ExpandVolume never makes a LUN smaller: what its lookup saw still holds
\* when LunUpdate runs.
LunNeverShrinks == [][\A d \in Dsms, n \in Names :
    lun'[d][n].uuid = lun[d][n].uuid => lun'[d][n].size >= lun[d][n].size]_vars

\* CreateVolume repeated by the CO, with the same capacity, ends with a volume,
\* whatever the failed attempts left behind: creation is idempotent (rollback.go).
CreateSucceeds == \A n \in Names, s \in Sizes :
    [](\A h \in Active(n) : call[h].op = "create" => call[h].size = s)
        => (co[n] = "creating" ~> co[n] = "bound")

\* DeleteVolume repeated by the CO ends with success.
DeleteSucceeds == \A n \in Names : co[n] = "deleting" ~> co[n] = "deleted"
=============================================================================
