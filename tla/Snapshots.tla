----------------------------- MODULE Snapshots -----------------------------
(***************************************************************************)
(* One snapshot of one volume: CreateSnapshot and DeleteSnapshot, one step *)
(* per request, over the session all handlers share (Session).             *)
(*                                                                         *)
(* A DSM does not refuse a second snapshot of the same name.  Names and    *)
(* ids are looked up in listings that drop, and only log, whatever could   *)
(* not be listed; a listing is one request here.                           *)
(*                                                                         *)
(* The CO is external (csi-snapshotter): it repeats CreateSnapshot until   *)
(* the snapshot is ready to use and keeps the id of the first answer.  It  *)
(* gives up on a call at its deadline and makes the next, while the        *)
(* handler of the first goes on.  The volume outlives the snapshot.        *)
(***************************************************************************)
EXTENDS Session

CONSTANTS
    Kinds,       \* what the volume may be: "lun", "namespace", "share"
    MaxObjects   \* bound: snapshot uuids in use at a time

ASSUME SnapshotAssumption ==
    /\ Kinds \subseteq {"lun", "namespace", "share"}
    /\ MaxObjects \in Nat

VARIABLES
    kind,
    snaps,       \* DSM: the snapshots of the name,
    healthy,     \*   and those whose status is Healthy
    pc, call,    \* where each handler is, and what it has gathered
    co, pv,      \* the CO's view of the snapshot, and the id it recorded
    lost,        \* history: snapshots taken by a call that was not answered or did not
                 \*   see what there was, and those DeleteSnapshot did not find because
    overlooked   \*   a listing left them out

dsmVars == <<snaps, healthy>>
coVars  == <<co, pv>>
ledger  == <<lost, overlooked>>
vars == <<sid, sessions, try, leaving, expiries, denials, restarts, faults, kind, snaps, healthy,
          pc, call, co, pv, lost, overlooked>>

\* id: the snapshot the call is about; made: the one it has taken; ready: what
\* it is going to answer; blind: a listing left out what there was.
\* heard: the CO still waits for it.
NoCall == [op |-> "create", id |-> 0, made |-> 0, ready |-> FALSE, blind |-> FALSE,
           heard |-> TRUE]

Call == [op : {"create", "delete"}, id : 0..MaxObjects, made : 0..MaxObjects,
         ready : BOOLEAN, blind : BOOLEAN, heard : BOOLEAN]

Requests == {"findName", "volume", "take", "fetch", "findId", "remove", "check"}

TypeOK ==
    /\ SessionTypeOK
    /\ kind \in Kinds
    /\ snaps \subseteq 1..MaxObjects /\ healthy \subseteq snaps
    /\ pc \in [Handlers -> Requests \cup {"idle", "reply"}]
    /\ call \in [Handlers -> Call]
    /\ co \in {"creating", "pending", "ready", "deleting", "deleted"}
    /\ pv \in 0..MaxObjects
    /\ lost \subseteq 1..MaxObjects /\ overlooked \subseteq 1..MaxObjects

\* The uuids nothing and nobody knows; the bound leaves one.
FreeIds == (1..MaxObjects) \
    (snaps \cup {pv} \cup lost \cup overlooked
        \cup {call[h].id : h \in Handlers} \cup {call[h].made : h \in Handlers})
NewId == CHOOSE i \in FreeIds : TRUE
CanMake == FreeIds # {}

Got(h, l, c) == pc' = [pc EXCEPT ![h] = l] /\ call' = [call EXCEPT ![h] = c]
Goto(h, l) == Got(h, l, call[h])
Fail(h) == Got(h, "idle", NoCall)
\* Mutant: ready to use whatever the status.
ReplyReady(h, i) == Got(h, "reply", [call[h] EXCEPT !.id = i, !.ready = TRUE])

\* A call that has found the snapshot i, has taken it, or is to delete it.
Found(c, i) == [c EXCEPT !.id = i, !.ready = i \in healthy]
Took(c, i)  == [c EXCEPT !.id = i, !.made = i]
DeleteCall(i) == [NoCall EXCEPT !.op = "delete", !.id = i]

Reply(h, i) == Got(h, "reply", Found(call[h], i))

\* The CO makes a call when it waits for no other.
Begin(h, l, c) ==
    /\ pc[h] = "idle"
    /\ \A g \in Handlers : pc[g] # "idle" => ~call[g].heard
    /\ Got(h, l, c)

-----------------------------------------------------------------------------
(* CreateSnapshot.                                                         *)

CreateSnapshot(h) ==
    /\ co \in {"creating", "pending"}
    /\ Begin(h, "findName", NoCall)
    /\ UNCHANGED <<sessionVars, kind, dsmVars, coVars, ledger>>

\* Mutant: only a snapshot that is Healthy counts as there.
FindNameHealthy(h) ==
    /\ pc[h] = "findName"
    /\ Answered(h)
    /\ \/ \E i \in healthy : Reply(h, i)
       \/ healthy = {} /\ Goto(h, "volume")
    /\ UNCHANGED <<kind, dsmVars, coVars, ledger>>

\* Mutant: a snapshot that is there already is an error.
FindNameStrict(h) ==
    /\ pc[h] = "findName"
    /\ Answered(h)
    /\ IF snaps = {} THEN Goto(h, "volume") ELSE Fail(h)
    /\ UNCHANGED <<kind, dsmVars, coVars, ledger>>

\* GetSnapshotByName: the first of that name, in whatever order they are listed.
FindName(h) ==
    /\ pc[h] = "findName"
    /\ \/ Answered(h) /\ \E i \in snaps : Reply(h, i)
       \/ Answered(h) /\ snaps = {} /\ Goto(h, "volume")
       \/ Failed(h) /\ Got(h, "volume", [call[h] EXCEPT !.blind = snaps # {}])
    /\ UNCHANGED <<kind, dsmVars, coVars, ledger>>

GetVolume(h) ==
    /\ pc[h] = "volume"
    /\ \/ Answered(h) /\ Goto(h, "take")
       \/ Failed(h) /\ Fail(h)
    /\ UNCHANGED <<kind, dsmVars, coVars, ledger>>

\* A snapshot of a share is Healthy at once.
AddSnapshot ==
    /\ CanMake
    /\ snaps' = snaps \cup {NewId}
    /\ healthy' = IF kind = "share" THEN healthy \cup {NewId} ELSE healthy

\* SnapshotCreate, ShareSnapshotCreate, NamespaceSnapshotCreate.
Take(h) ==
    /\ pc[h] = "take"
    /\ \/ /\ Answered(h)
          /\ AddSnapshot
          /\ Got(h, "fetch", Took(call[h], NewId))
          /\ lost' = IF call[h].heard /\ ~call[h].blind THEN lost ELSE lost \cup {NewId}
       \/ /\ Failed(h)
          /\ Fail(h)
          /\ UNCHANGED <<dsmVars, lost>>
       \/ /\ Lost(h)
          /\ AddSnapshot
          /\ lost' = lost \cup {NewId}
          /\ Fail(h)
    /\ UNCHANGED <<kind, coVars, overlooked>>

\* The new snapshot is looked up, by another listing or by NamespaceSnapshotGet.
Fetch(h) ==
    /\ pc[h] = "fetch"
    /\ \/ /\ Answered(h)
          /\ IF call[h].id \in snaps THEN Reply(h, call[h].id) ELSE Fail(h)
          /\ UNCHANGED lost
       \/ /\ Failed(h)
          /\ Fail(h)
          /\ lost' = lost \cup {call[h].made}
    /\ UNCHANGED <<kind, dsmVars, coVars, overlooked>>

\* The DSM completes a snapshot in its own time.
Settle ==
    /\ \E i \in snaps \ healthy : healthy' = healthy \cup {i}
    /\ UNCHANGED <<sessionVars, kind, snaps, pc, call, coVars, ledger>>

-----------------------------------------------------------------------------
(* DeleteSnapshot.                                                         *)

DeleteSnapshot(h) ==
    /\ co \in {"pending", "ready", "deleting"}
    /\ Begin(h, "findId", DeleteCall(pv))
    /\ co' = "deleting"
    /\ UNCHANGED <<sessionVars, kind, dsmVars, pv, ledger>>

\* Mutant: a snapshot that is not there cannot be deleted.
FindIdStrict(h) ==
    /\ pc[h] = "findId"
    /\ \/ Answered(h) /\ IF call[h].id \in snaps THEN Goto(h, "remove") ELSE Fail(h)
       \/ Failed(h) /\ Fail(h)
    /\ UNCHANGED <<kind, dsmVars, coVars, ledger>>

\* GetSnapshotByUuid: a snapshot that is not listed counts as deleted.
FindId(h) ==
    LET i == call[h].id IN
    /\ pc[h] = "findId"
    /\ \/ /\ Answered(h)
          /\ Goto(h, IF i \in snaps THEN "remove" ELSE "reply")
          /\ UNCHANGED overlooked
       \/ /\ Failed(h)
          /\ Goto(h, "reply")
          /\ overlooked' = overlooked \cup ({i} \cap snaps)
    /\ UNCHANGED <<kind, dsmVars, coVars, lost>>

\* Mutant: the entry of the snapshot stays.
RemoveSnapshotOnly(i) == snaps' = snaps \ {i} /\ UNCHANGED healthy

RemoveSnapshot(i) == snaps' = snaps \ {i} /\ healthy' = healthy \ {i}

Remove(h) ==
    LET i == call[h].id IN
    /\ pc[h] = "remove"
    /\ \/ Answered(h) /\ i \in snaps /\ RemoveSnapshot(i) /\ Goto(h, "reply")
       \/ Answered(h) /\ i \notin snaps /\ UNCHANGED dsmVars /\ Goto(h, "check")
       \/ Failed(h) /\ UNCHANGED dsmVars /\ Goto(h, "check")
       \/ Lost(h) /\ RemoveSnapshot(i) /\ Goto(h, "check")
    /\ UNCHANGED <<kind, coVars, ledger>>

\* Mutant: any error of the second look counts as deleted.
CheckAnyError(h) ==
    /\ pc[h] = "check"
    /\ \/ Answered(h) /\ IF call[h].id \in snaps THEN Fail(h) ELSE Goto(h, "reply")
       \/ Failed(h) /\ Goto(h, "reply")
    /\ UNCHANGED <<kind, dsmVars, coVars, ledger>>

\* The delete failed: it counts as done if the DSM says that there is no such
\* snapshot or, for a share, if the listing does not show it.
Check(h) ==
    LET i == call[h].id IN
    /\ pc[h] = "check"
    /\ \/ /\ Answered(h)
          /\ IF i \in snaps THEN Fail(h) ELSE Goto(h, "reply")
          /\ UNCHANGED overlooked
       \/ /\ Failed(h) /\ kind # "share"
          /\ Fail(h)
          /\ UNCHANGED overlooked
       \/ /\ Failed(h) /\ kind = "share"
          /\ Goto(h, "reply")
          /\ overlooked' = overlooked \cup ({i} \cap snaps)
    /\ UNCHANGED <<kind, dsmVars, coVars, lost>>

-----------------------------------------------------------------------------
(* The CO and the process.                                                 *)

\* The answer arrives, is lost, or nobody waits for it any more.
Deliver(h) ==
    LET c == call[h]
        news == CASE c.op = "delete" -> "deleted"
                  [] c.op = "create" -> IF c.ready THEN "ready" ELSE "pending" IN
    /\ pc[h] = "reply"
    /\ Fail(h)
    /\ \/ /\ call[h].heard
          /\ co' = news
          /\ pv' = IF co = "creating" THEN c.id ELSE pv
          /\ UNCHANGED lost
          /\ NoFault
       \/ /\ IF call[h].heard THEN Fault ELSE NoFault
          /\ lost' = lost \cup ({c.made} \ {0})
          /\ UNCHANGED coVars
    /\ UNCHANGED <<sid, sessions, try, leaving, expiries, denials, restarts>>
    /\ UNCHANGED <<kind, dsmVars, overlooked>>

\* The deadline of a call: the CO makes the next one.
GiveUp(h) ==
    /\ pc[h] # "idle" /\ call[h].heard
    /\ Got(h, pc[h], [call[h] EXCEPT !.heard = FALSE])
    /\ lost' = lost \cup ({call[h].made} \ {0})
    /\ Fault
    /\ UNCHANGED <<sid, sessions, try, leaving, expiries, denials, restarts>>
    /\ UNCHANGED <<kind, dsmVars, coVars, overlooked>>

RequestRefused(h) ==
    /\ pc[h] \in Requests
    /\ Refused(h) \/ Denied(h)
    /\ UNCHANGED <<kind, dsmVars, pc, call, coVars, ledger>>

Relogin(h) ==
    /\ Login(h)
    /\ UNCHANGED <<kind, dsmVars, pc, call, coVars, ledger>>

SessionEnds ==
    /\ Expire \/ Logout \/ LogoutEnds
    /\ UNCHANGED <<kind, dsmVars, pc, call, coVars, ledger>>

Crash ==
    /\ Restart
    /\ pc' = [h \in Handlers |-> "idle"]
    /\ call' = [h \in Handlers |-> NoCall]
    /\ lost' = lost \cup ({call[h].made : h \in Handlers} \ {0})
    /\ UNCHANGED <<kind, dsmVars, coVars, overlooked>>

Init ==
    /\ SessionInit
    /\ kind \in Kinds
    /\ snaps = {} /\ healthy = {}
    /\ pc = [h \in Handlers |-> "idle"] /\ call = [h \in Handlers |-> NoCall]
    /\ co = "creating" /\ pv = 0
    /\ lost = {} /\ overlooked = {}

HandlerStep(h) ==
    \/ FindName(h) \/ GetVolume(h) \/ Take(h) \/ Fetch(h)
    \/ FindId(h) \/ Remove(h) \/ Check(h)
    \/ Deliver(h) \/ RequestRefused(h) \/ Relogin(h)

Next ==
    \/ \E h \in Handlers :
         CreateSnapshot(h) \/ DeleteSnapshot(h) \/ HandlerStep(h) \/ GiveUp(h)
    \/ Settle \/ SessionEnds \/ Crash

Spec == Init /\ [][Next]_vars

\* A request ends, a snapshot completes, and the CO repeats its calls.
FairSpec ==
    /\ Spec
    /\ \A h \in Handlers : WF_vars(HandlerStep(h))
    /\ WF_vars(Settle)
    /\ WF_vars(\E h \in Handlers : CreateSnapshot(h))
    /\ WF_vars(\E h \in Handlers : co = "deleting" /\ DeleteSnapshot(h))

-----------------------------------------------------------------------------
(* Properties.                                                             *)

\* Beside the one the CO recorded, the name has a snapshot at rest only where an
\* answer was lost, a call outlived its caller or a listing was incomplete
\* (CreateSnapshot: "idempotency"); an expired session alone makes none.
SecondSnapshotAccounted ==
    (\A h \in Handlers : pc[h] = "idle") => snaps \ {pv} \subseteq lost

\* What the CO recorded is there until the CO asks for its deletion, and gone
\* when that has succeeded, unless a listing did not show it (DeleteSnapshot).
RecordedSnapshotKept ==
    /\ co \in {"pending", "ready"} => pv \in snaps
    /\ co = "deleted" => pv \notin snaps \ overlooked

\* The CO takes the recorded snapshot for ready while it is not only because the
\* name has another one that is, and that one is accounted for.
ReadyIsRecorded == co = "ready" => healthy \cap ({pv} \cup lost) # {}

\* CreateSnapshot repeated by the CO ends with a snapshot it can use.
SnapshotSucceeds ==
    co \in {"creating", "pending"} ~> co \in {"ready", "deleting", "deleted"}

\* DeleteSnapshot repeated by the CO ends with success.
DeleteSucceeds == co = "deleting" ~> co = "deleted"
=============================================================================
