----------------------------- MODULE NodeIscsi -----------------------------
(***************************************************************************)
(* The node service for iSCSI volumes: NodeStageVolume, NodePublishVolume, *)
(* NodeUnpublishVolume, NodeUnstageVolume and NodeExpandVolume on one      *)
(* node, over the initiator (iscsiadm), the kernel's disks and the links   *)
(* udev keeps to them.                                                     *)
(*                                                                         *)
(* A disk gets whatever kernel name is free when its session logs in, and  *)
(* udev updates /dev/disk/by-path later, in its own time: until then a     *)
(* link may name a disk that is gone, or that has become another volume's. *)
(* The calls for different volumes interleave, one step per command; the   *)
(* kubelet has one call at a time in flight per volume, and repeats a call *)
(* that did not succeed.                                                   *)
(***************************************************************************)
EXTENDS Naturals, FiniteSets

CONSTANTS
    Volumes,
    Block,       \* the raw block volumes; the others carry a filesystem
    Restored,    \* volumes restored from a smaller source
    Expandable,  \* bound: volumes whose LUN may grow while in use
    Portals,     \* the controllers of the DSM: one, or two under multipath
    DsmPortal,   \* the one the DSM's own address leads to
    Disks,       \* kernel names
    None,        \* no disk, no volume
    MaxFaults,   \* bound: commands and requests that fail, answers lost
    MaxCrashes   \* bound: restarts of the driver

ASSUME ConstantsAssumption ==
    /\ Block \subseteq Volumes /\ Restored \subseteq Volumes
    /\ Expandable \subseteq Volumes
    /\ DsmPortal \in Portals /\ IsFiniteSet(Portals)
    /\ None \notin Disks /\ None \notin Volumes
    /\ MaxFaults \in Nat /\ MaxCrashes \in Nat

VARIABLES
    disk,        \* the kernel: the disk of each volume's session at each portal
    link,        \* udev: the disk each by-path link names
    record,      \* iscsid: the portals with a node record, per volume
    staged,      \* whose data is mounted at each volume's staging path
    published,   \* whose data its pod sees
    small,       \* volumes whose filesystem is smaller than their LUN
    stale,       \* volumes whose disk has not been rescanned since the LUN grew
    dirty,       \* volumes with writes still in this node's page cache
    pc, call,    \* where the call for each volume is, and what it has gathered
    pod,         \* whether a pod wants the volume
    kubelet,     \* how far the kubelet has come
    wanted,      \* volumes the kubelet has still to expand
    unverified,  \* volumes in use whose device could not be verified (logged)
    swallowed,   \* volumes whose last unstage succeeded in spite of a failure
    remade,      \* history: volumes off the node whose record at the DSM's own address
                 \*   a discovery for another volume has made
    faults, crashes

kernel == <<disk, link, record>>
mounts == <<staged, published>>
sizes  == <<small, stale>>
orch   == <<pod, kubelet, wanted>>
ledger == <<unverified, swallowed, remade>>
vars == <<disk, link, record, staged, published, small, stale, dirty, pc, call,
          pod, kubelet, wanted, unverified, swallowed, remade, faults, crashes>>

Ops == {"stage", "publish", "unpublish", "unstage", "expand"}

\* left, legs: the portals still to log in to, and those with a path;
\* mpath: the volume whose multipath device was resolved; flushed: the flush
\* before the logout succeeded.
NewCall(o) == [op |-> o, left |-> {}, legs |-> {}, mpath |-> None, flushed |-> FALSE]
NoCall == NewCall("stage")

Labels == {"idle", "lookup", "login", "wait", "resolve", "verify", "mount", "grow", "bind",
           "flush", "logout", "deleteNode", "rescan", "resize"}
Phases == {"out", "staging", "staged", "publishing", "published"}

TypeOK ==
    /\ disk \in [Volumes -> [Portals -> Disks \cup {None}]]
    /\ link \in [Volumes -> [Portals -> Disks \cup {None}]]
    /\ record \in [Volumes -> SUBSET Portals]
    /\ staged \in [Volumes -> Volumes \cup {None}]
    /\ published \in [Volumes -> Volumes \cup {None}]
    /\ {small, stale, dirty, wanted, unverified, swallowed, remade} \subseteq SUBSET Volumes
    /\ pc \in [Volumes -> Labels]
    /\ call \in [Volumes -> [op : Ops, left : SUBSET Portals, legs : SUBSET Portals,
                             mpath : Volumes \cup {None}, flushed : BOOLEAN]]
    /\ pod \in [Volumes -> BOOLEAN] /\ kubelet \in [Volumes -> Phases]
    /\ faults \in 0..MaxFaults /\ crashes \in 0..MaxCrashes

-----------------------------------------------------------------------------
(* The host.                                                               *)

Fault == faults < MaxFaults /\ faults' = faults + 1
NoFault == UNCHANGED faults

Session(v) == {p \in Portals : disk[v][p] # None}
Free == {d \in Disks : \A v \in Volumes, p \in Portals : disk[v][p] # d}

\* The volume behind a kernel name, if there is such a disk at the moment.
Owner(d) ==
    IF d = None \/ d \in Free THEN None
    ELSE CHOOSE v \in Volumes : \E p \in Portals : disk[v][p] = d

\* mount.PathExists follows the link.
Exists(v, p) == Owner(link[v][p]) # None

\* udev gets round to a link.
UdevSync(v, p) ==
    /\ link[v][p] # disk[v][p]
    /\ link' = [link EXCEPT ![v][p] = disk[v][p]]
    /\ UNCHANGED <<disk, record, mounts, sizes, dirty, pc, call, orch, ledger, faults,
                   crashes>>

\* A pod writes to its raw block volume.
Write(v) ==
    /\ v \in Block /\ published[v] = v /\ v \notin dirty
    /\ dirty' = dirty \cup {v}
    /\ UNCHANGED <<kernel, mounts, sizes, pc, call, orch, ledger, faults, crashes>>

-----------------------------------------------------------------------------
(* The kubelet: brings a volume to a pod, or takes it away, one call at a  *)
(* time, and asks for the filesystem to grow after the LUN did.            *)

PodStart(v) ==
    /\ ~pod[v]
    /\ pod' = [pod EXCEPT ![v] = TRUE]
    /\ UNCHANGED <<kernel, mounts, sizes, dirty, pc, call, kubelet, wanted, ledger, faults,
                   crashes>>

PodStop(v) ==
    /\ pod[v]
    /\ pod' = [pod EXCEPT ![v] = FALSE]
    /\ UNCHANGED <<kernel, mounts, sizes, dirty, pc, call, kubelet, wanted, ledger, faults,
                   crashes>>

\* ControllerExpandVolume has made the LUN larger (NodeExpansionRequired).
LunGrown(v) ==
    /\ v \in Expandable \ wanted /\ kubelet[v] = "published"
    /\ small' = small \cup ({v} \ Block)
    /\ stale' = stale \cup {v}
    /\ wanted' = wanted \cup {v}
    /\ UNCHANGED <<kernel, mounts, dirty, pc, call, pod, kubelet, ledger, faults, crashes>>

Begin(v, o, phase) ==
    /\ pc[v] = "idle"
    /\ pc' = [pc EXCEPT ![v] = "lookup"]
    /\ call' = [call EXCEPT ![v] = NewCall(o)]
    /\ kubelet' = [kubelet EXCEPT ![v] = phase]

Reached(o) == CASE o = "stage" -> "staged"
                [] o = "publish" -> "published"
                [] o = "unpublish" -> "staged"
                [] o = "unstage" -> "out"
                [] o = "expand" -> "published"

\* The call succeeds, and the kubelet learns of it or does not; or it fails.
OK(v, o) ==
    \/ /\ kubelet' = [kubelet EXCEPT ![v] = Reached(o)]
       /\ wanted' = IF o = "expand" THEN wanted \ {v} ELSE wanted
       /\ NoFault
    \/ Fault /\ UNCHANGED <<kubelet, wanted>>
Leave(v) ==
    /\ pc' = [pc EXCEPT ![v] = "idle"]
    /\ call' = [call EXCEPT ![v] = NoCall]
Return(v) == Leave(v) /\ OK(v, call[v].op) /\ UNCHANGED pod
Fail(v) == Leave(v) /\ UNCHANGED orch
\* An unstage that met a failure, and succeeds.
Swallow(v) ==
    /\ Leave(v)
    /\ swallowed' = swallowed \cup {v}
    /\ kubelet' = [kubelet EXCEPT ![v] = "out"]
    /\ UNCHANGED <<pod, wanted>>
GotoWith(v, l, c) ==
    /\ pc' = [pc EXCEPT ![v] = l]
    /\ call' = [call EXCEPT ![v] = c]
    /\ UNCHANGED orch
Goto(v, l) == GotoWith(v, l, call[v])

-----------------------------------------------------------------------------
(* The five calls.                                                         *)

\* A raw block volume has nothing to stage.
NodeStageVolume(v) ==
    /\ pod[v] /\ kubelet[v] \in {"out", "staging"}
    /\ \/ /\ v \notin Block
          /\ Begin(v, "stage", "staging")
          /\ NoFault
          /\ UNCHANGED wanted
       \/ /\ v \in Block
          /\ pc[v] = "idle"
          /\ OK(v, "stage")
          /\ UNCHANGED <<pc, call>>
    /\ remade' = {w \in remade : kubelet'[w] = "out"}
    /\ UNCHANGED <<kernel, mounts, sizes, dirty, pod, unverified, swallowed, crashes>>

NodePublishVolume(v) ==
    /\ pod[v] /\ kubelet[v] \in {"staged", "publishing"}
    /\ \/ /\ published[v] = None
          /\ Begin(v, "publish", "publishing")
          /\ NoFault
          /\ UNCHANGED wanted
       \/ /\ published[v] # None                      \* already mounted
          /\ pc[v] = "idle"
          /\ OK(v, "publish")
          /\ UNCHANGED <<pc, call>>
    /\ UNCHANGED <<kernel, mounts, sizes, dirty, pod, ledger, crashes>>

\* Mutant: a target path that is not mounted is an error.
NodeUnpublishStrict(v) ==
    /\ ~pod[v] /\ kubelet[v] \in {"publishing", "published"}
    /\ pc[v] = "idle"
    /\ published[v] # None
    /\ \/ /\ published' = [published EXCEPT ![v] = None]
          /\ OK(v, "unpublish")
       \/ /\ Fault
          /\ UNCHANGED <<published, kubelet, wanted>>
    /\ UNCHANGED <<kernel, staged, sizes, dirty, pc, call, pod, ledger, crashes>>

NodeUnpublishVolume(v) ==
    /\ ~pod[v] /\ kubelet[v] \in {"publishing", "published"}
    /\ pc[v] = "idle"
    /\ \/ /\ published' = [published EXCEPT ![v] = None]
          /\ OK(v, "unpublish")
       \/ /\ published[v] # None                      \* Unmount fails
          /\ Fault
          /\ UNCHANGED <<published, kubelet, wanted>>
    /\ UNCHANGED <<kernel, staged, sizes, dirty, pc, call, pod, ledger, crashes>>

NodeUnstageVolume(v) ==
    /\ ~pod[v] /\ kubelet[v] \in {"staging", "staged"}
    /\ \/ /\ staged' = [staged EXCEPT ![v] = None]
          /\ Begin(v, "unstage", "staging")
          /\ unverified' = unverified \ {v}
          /\ swallowed' = swallowed \ {v}
          /\ NoFault
          /\ UNCHANGED remade
       \/ /\ staged[v] # None                         \* Unmount fails
          /\ pc[v] = "idle"
          /\ kubelet' = [kubelet EXCEPT ![v] = "staging"]
          /\ Fault
          /\ UNCHANGED <<staged, pc, call, ledger>>
    /\ UNCHANGED <<kernel, published, sizes, dirty, pod, wanted, crashes>>

NodeExpandVolume(v) ==
    /\ pod[v] /\ kubelet[v] = "published" /\ v \in wanted
    /\ Begin(v, "expand", "published")
    /\ UNCHANGED <<kernel, mounts, sizes, dirty, pod, wanted, ledger, faults, crashes>>

\* Mutant: a lookup that failed counts as a volume that is gone.
LookupIgnoringErrors(v) ==
    LET o == call[v].op IN
    /\ pc[v] = "lookup"
    /\ \/ /\ o \in {"stage", "publish"}
          /\ GotoWith(v, "login", [call[v] EXCEPT !.left = Portals])
          /\ NoFault
       \/ /\ o \in {"unstage", "expand"}
          /\ Goto(v, IF o = "unstage" THEN "flush" ELSE "rescan")
          /\ NoFault
       \/ /\ faults < MaxFaults
          /\ Leave(v)
          /\ kubelet' = [kubelet EXCEPT ![v] = IF o = "unstage" THEN "out" ELSE @]
          /\ faults' = faults + 1
          /\ UNCHANGED <<pod, wanted>>
    /\ UNCHANGED <<kernel, mounts, sizes, dirty, ledger, crashes>>

\* dsmService.GetVolume and, in loginTarget, getPortals: the second controller
\* is left out when it cannot be asked or multipathd does not run.
\* (nil, nil) comes from a driver that has restarted without the volume's DSM.
Lookup(v) ==
    LET o == call[v].op IN
    /\ pc[v] = "lookup"
    /\ \/ /\ o \in {"stage", "publish"}
          /\ GotoWith(v, "login", [call[v] EXCEPT !.left = Portals])
          /\ NoFault
          /\ UNCHANGED swallowed
       \/ /\ o \in {"stage", "publish"} /\ Portals # {DsmPortal}
          /\ GotoWith(v, "login", [call[v] EXCEPT !.left = {DsmPortal}])
          /\ Fault
          /\ UNCHANGED swallowed
       \/ /\ o \in {"unstage", "expand"}
          /\ Goto(v, IF o = "unstage" THEN "flush" ELSE "rescan")
          /\ NoFault
          /\ UNCHANGED swallowed
       \/ /\ Fail(v)                                  \* could not tell
          /\ Fault
          /\ UNCHANGED swallowed
       \/ /\ o = "unstage" /\ crashes > 0             \* (nil, nil)
          /\ Swallow(v)
          /\ Fault
    /\ UNCHANGED <<kernel, mounts, sizes, dirty, unverified, remade, crashes>>

-----------------------------------------------------------------------------
(* loginTarget.                                                            *)

\* getPortals puts the DSM's own address first.
NextPortal(S) == IF DsmPortal \in S THEN DsmPortal ELSE CHOOSE p \in S : TRUE

\* Discovery at a portal makes a node record, where there is none, for every
\* target the DSM shows, the unstaged volumes' as well: at that portal, or at all.
Discover(v, p) == \E shown \in {{p}, Portals} :
    /\ record' = [w \in Volumes |-> record[w] \cup shown]
    /\ remade' = remade \cup {w \in Volumes \ {v} :
                            kubelet[w] = "out" /\ DsmPortal \in shown \ record[w]}

\* Mutant: no hasSession; iscsiadm refuses to log in twice.
LoginAlways(v) ==
    LET p == NextPortal(call[v].left) IN
    /\ pc[v] = "login"
    /\ \/ /\ call[v].left = {}
          /\ Goto(v, "resolve")
          /\ UNCHANGED <<disk, record, remade>>
       \/ /\ call[v].left # {} /\ p \notin Session(v)
          /\ \E d \in Free : disk' = [disk EXCEPT ![v][p] = d]
          /\ Discover(v, p)
          /\ Goto(v, "wait")
       \/ /\ call[v].left # {} /\ p \in Session(v)
          /\ Fail(v)
          /\ UNCHANGED <<disk, record, remade>>
    /\ UNCHANGED <<link, mounts, sizes, dirty, unverified, swallowed, faults, crashes>>

\* initiatorDriver.login at the next portal: a session that exists is kept; the
\* login after a discovery makes the disk, with the LUN's size of the moment.
LoginPortal(v) ==
    LET p == NextPortal(call[v].left) IN
    /\ pc[v] = "login"
    /\ \/ /\ call[v].left = {}
          /\ Goto(v, "resolve")
          /\ NoFault
          /\ UNCHANGED <<disk, record, remade, stale>>
       \/ /\ call[v].left # {} /\ p \in Session(v)
          /\ Goto(v, "wait")
          /\ NoFault
          /\ UNCHANGED <<disk, record, remade, stale>>
       \/ /\ call[v].left # {} /\ p \notin Session(v)
          /\ \E d \in Free : disk' = [disk EXCEPT ![v][p] = d]
          /\ Discover(v, p)
          /\ stale' = IF Session(v) = {} THEN stale \ {v} ELSE stale
          /\ Goto(v, "wait")
          /\ NoFault
       \/ /\ call[v].left # {}                        \* session, discovery or login fails
          /\ Discover(v, p) \/ UNCHANGED <<record, remade>>
          /\ Fault
          /\ Fail(v)
          /\ UNCHANGED <<disk, stale>>
    /\ UNCHANGED <<link, mounts, small, dirty, unverified, swallowed, crashes>>

\* Mutant: the disk the link names is gathered, in place of the path.
WaitPathResolved(v) ==
    LET p == NextPortal(call[v].left) IN
    /\ pc[v] = "wait"
    /\ Exists(v, p)
    /\ GotoWith(v, "login", [call[v] EXCEPT !.left = @ \ {p}, !.legs = @ \cup {link[v][p]}])
    /\ UNCHANGED <<kernel, mounts, sizes, dirty, ledger, faults, crashes>>

\* waitForDevicePathToExist; it may time out.
WaitPath(v) ==
    LET p == NextPortal(call[v].left) IN
    /\ pc[v] = "wait"
    /\ \/ /\ Exists(v, p)
          /\ GotoWith(v, "login", [call[v] EXCEPT !.left = @ \ {p}, !.legs = @ \cup {p}])
       \/ /\ ~Exists(v, p)
          /\ Fail(v)
    /\ UNCHANGED <<kernel, mounts, sizes, dirty, ledger, faults, crashes>>

\* getVolumeMountPath: several paths must lead to one multipath device.
Resolve(v) ==
    LET owners == {Owner(link[v][p]) : p \in call[v].legs} IN
    /\ pc[v] = "resolve"
    /\ \/ \E o \in Volumes :
            /\ owners = {o}
            /\ GotoWith(v, "verify", [call[v] EXCEPT !.mpath =
                                        IF Cardinality(call[v].legs) > 1 THEN o ELSE None])
            /\ NoFault
       \/ /\ IF None \in owners \/ Cardinality(owners) > 1 THEN NoFault ELSE Fault
          /\ Fail(v)
    /\ UNCHANGED <<kernel, mounts, sizes, dirty, ledger, crashes>>

\* The volume a call's device path leads to now.
Device(v) ==
    LET m == call[v].mpath IN
    IF m = None THEN Owner(link[v][DsmPortal])
    ELSE IF Session(m) # {} THEN m ELSE None

\* Mutant: the by-path link is trusted.
VerifyNothing(v) ==
    /\ pc[v] = "verify"
    /\ Goto(v, IF call[v].op = "stage" THEN "mount" ELSE "bind")
    /\ UNCHANGED <<kernel, mounts, sizes, dirty, ledger, faults, crashes>>

\* verifyIscsiDevice: a mismatch is an error; not being able to tell is logged.
Verify(v) ==
    /\ pc[v] = "verify"
    /\ \/ /\ Device(v) = v
          /\ Goto(v, IF call[v].op = "stage" THEN "mount" ELSE "bind")
          /\ NoFault
          /\ UNCHANGED unverified
       \/ /\ Device(v) \notin {v, None}
          /\ Fail(v)
          /\ NoFault
          /\ UNCHANGED unverified
       \/ /\ IF Device(v) = None THEN NoFault ELSE Fault
          /\ unverified' = unverified \cup {v}
          /\ Goto(v, IF call[v].op = "stage" THEN "mount" ELSE "bind")
    /\ UNCHANGED <<kernel, mounts, sizes, dirty, swallowed, remade, crashes>>

-----------------------------------------------------------------------------
(* The mounts.                                                             *)

\* A staging path that is mounted already ends the call.
Mount(v) ==
    /\ pc[v] = "mount"
    /\ \/ /\ staged[v] # None
          /\ Return(v)
          /\ UNCHANGED staged
       \/ /\ staged[v] = None /\ Device(v) # None
          /\ staged' = [staged EXCEPT ![v] = Device(v)]
          /\ Goto(v, "grow")
          /\ NoFault
       \/ /\ staged[v] = None
          /\ IF Device(v) = None THEN NoFault ELSE Fault
          /\ Fail(v)
          /\ UNCHANGED staged
    /\ UNCHANGED <<kernel, published, sizes, dirty, ledger, crashes>>

\* growFilesystemIfNeeded.
Grow(v) ==
    /\ pc[v] = "grow"
    /\ \/ /\ small' = small \ ({staged[v]} \ stale)
          /\ Return(v)
       \/ /\ Fault
          /\ Fail(v)
          /\ UNCHANGED small
    /\ UNCHANGED <<kernel, mounts, stale, dirty, ledger, crashes>>

\* NodePublishVolume binds the device, or the staging path, to the pod's path.
Bind(v) ==
    LET source == IF v \in Block THEN Device(v) ELSE staged[v] IN
    /\ pc[v] = "bind"
    /\ \/ /\ source # None
          /\ published' = [published EXCEPT ![v] = source]
          /\ Return(v)
       \/ /\ IF source = None THEN NoFault ELSE Fault
          /\ Fail(v)
          /\ UNCHANGED published
    /\ UNCHANGED <<kernel, staged, sizes, dirty, ledger, crashes>>

-----------------------------------------------------------------------------
(* logoutTarget.  Its failures are logged; the unstage succeeds all the    *)
(* same.                                                                   *)

\* getExistedVolumeMountPath takes the paths of the sessions there are.
Existing(v) ==
    LET owners == {Owner(link[v][p]) : p \in Session(v)} IN
    IF Cardinality(owners) = 1 THEN CHOOSE o \in owners : TRUE ELSE None

\* Mutant: the session goes away without a flush.
NoFlush(v) ==
    /\ pc[v] = "flush"
    /\ GotoWith(v, "logout", [call[v] EXCEPT !.flushed = TRUE])
    /\ UNCHANGED <<kernel, mounts, sizes, dirty, ledger, faults, crashes>>

Flush(v) ==
    /\ pc[v] = "flush"
    /\ \/ /\ Existing(v) # None
          /\ dirty' = dirty \ {Existing(v)}
          /\ GotoWith(v, "logout", [call[v] EXCEPT !.flushed = TRUE])
          /\ NoFault
       \/ /\ IF Existing(v) = None THEN NoFault ELSE Fault
          /\ Goto(v, "logout")
          /\ UNCHANGED dirty
    /\ UNCHANGED <<kernel, mounts, sizes, ledger, crashes>>

\* Mutant: only the session at the DSM's own address is logged out.
LogoutOnePortal(v) ==
    /\ pc[v] = "logout"
    /\ disk' = [disk EXCEPT ![v][DsmPortal] = None]
    /\ Goto(v, "deleteNode")
    /\ dirty' = dirty \ {v}
    /\ UNCHANGED <<link, record, mounts, sizes, ledger, faults, crashes>>

\* Mutant: without a session there is nothing left to do.
LogoutOnlySessions(v) ==
    /\ pc[v] = "logout"
    /\ disk' = [disk EXCEPT ![v] = [p \in Portals |-> None]]
    /\ dirty' = dirty \ {v}
    /\ IF Session(v) = {} THEN Return(v) ELSE Goto(v, "deleteNode") /\ NoFault
    /\ UNCHANGED <<link, record, mounts, sizes, ledger, crashes>>

\* A failing "iscsiadm -m session" looks like having no session.
Logout(v) ==
    /\ pc[v] = "logout"
    /\ \/ /\ disk' = [disk EXCEPT ![v] = [p \in Portals |-> None]]
          /\ dirty' = dirty \ {v}
          /\ Goto(v, "deleteNode")
          /\ NoFault
          /\ UNCHANGED swallowed
       \/ /\ Session(v) # {}
          /\ swallowed' = swallowed \cup {v}
          /\ Goto(v, "deleteNode")
          /\ Fault
          /\ UNCHANGED <<disk, dirty>>
       \/ \E keep \in (SUBSET Session(v)) \ {{}} :     \* the logout fails
            /\ disk' = [disk EXCEPT ![v] = [p \in Portals |->
                            IF p \in keep THEN disk[v][p] ELSE None]]
            /\ Swallow(v)
            /\ Fault
            /\ UNCHANGED dirty
    /\ UNCHANGED <<link, record, mounts, sizes, unverified, remade, crashes>>

\* The record of the DSM's own address; iscsiadm keeps one that is in use.
DeleteNode(v) ==
    /\ pc[v] = "deleteNode"
    /\ \/ /\ DsmPortal \notin Session(v)
          /\ record' = [record EXCEPT ![v] = record[v] \ {DsmPortal}]
          /\ Return(v)
          /\ UNCHANGED <<swallowed, remade>>
       \/ /\ IF DsmPortal \in Session(v) THEN NoFault ELSE Fault
          /\ Swallow(v)
          /\ UNCHANGED <<record, remade>>
    /\ UNCHANGED <<disk, link, mounts, sizes, dirty, unverified, crashes>>

-----------------------------------------------------------------------------
(* NodeExpandVolume.                                                       *)

\* Mutant: the session is not rescanned.
NoRescan(v) ==
    /\ pc[v] = "rescan"
    /\ Goto(v, "resize")
    /\ UNCHANGED <<kernel, mounts, sizes, dirty, ledger, faults, crashes>>

Rescan(v) ==
    /\ pc[v] = "rescan"
    /\ \/ /\ Session(v) # {}
          /\ stale' = stale \ {v}
          /\ Goto(v, "resize")
          /\ NoFault
       \/ /\ IF Session(v) = {} THEN NoFault ELSE Fault
          /\ Fail(v)
          /\ UNCHANGED stale
    /\ UNCHANGED <<kernel, mounts, small, dirty, ledger, crashes>>

Resize(v) ==
    /\ pc[v] = "resize"
    /\ \/ /\ Existing(v) # None
          /\ small' = small \ ({Existing(v)} \ stale)
          /\ Return(v)
       \/ /\ IF Existing(v) = None THEN NoFault ELSE Fault
          /\ Fail(v)
          /\ UNCHANGED small
    /\ UNCHANGED <<kernel, mounts, stale, dirty, ledger, crashes>>

\* The driver restarts; sessions and mounts are the host's and stay.
Crash ==
    /\ crashes < MaxCrashes
    /\ crashes' = crashes + 1
    /\ pc' = [v \in Volumes |-> "idle"]
    /\ call' = [v \in Volumes |-> NoCall]
    /\ UNCHANGED <<kernel, mounts, sizes, dirty, orch, ledger, faults>>

-----------------------------------------------------------------------------
Init ==
    /\ disk = [v \in Volumes |-> [p \in Portals |-> None]]
    /\ link = [v \in Volumes |-> [p \in Portals |-> None]]
    /\ record = [v \in Volumes |-> {}]
    /\ staged = [v \in Volumes |-> None]
    /\ published = [v \in Volumes |-> None]
    /\ small = Restored /\ stale = {}
    /\ dirty = {}
    /\ pc = [v \in Volumes |-> "idle"] /\ call = [v \in Volumes |-> NoCall]
    /\ pod = [v \in Volumes |-> FALSE] /\ kubelet = [v \in Volumes |-> "out"]
    /\ wanted = {} /\ unverified = {} /\ swallowed = {} /\ remade = {}
    /\ faults = 0 /\ crashes = 0

Call(v) ==
    \/ NodeStageVolume(v) \/ NodePublishVolume(v)
    \/ NodeUnpublishVolume(v) \/ NodeUnstageVolume(v) \/ NodeExpandVolume(v)

Step(v) ==
    \/ Lookup(v) \/ LoginPortal(v) \/ WaitPath(v) \/ Resolve(v) \/ Verify(v)
    \/ Mount(v) \/ Grow(v) \/ Bind(v)
    \/ Flush(v) \/ Logout(v) \/ DeleteNode(v) \/ Rescan(v) \/ Resize(v)

Next ==
    \/ \E v \in Volumes :
         Call(v) \/ Step(v) \/ PodStart(v) \/ PodStop(v) \/ LunGrown(v) \/ Write(v)
    \/ \E v \in Volumes, p \in Portals : UdevSync(v, p)
    \/ Crash

Spec == Init /\ [][Next]_vars

\* A command ends, udev catches up, and the kubelet repeats its calls.
FairSpec ==
    /\ Spec
    /\ \A v \in Volumes : WF_vars(Call(v)) /\ WF_vars(Step(v))
    /\ \A v \in Volumes, p \in Portals : WF_vars(UdevSync(v, p))

-----------------------------------------------------------------------------
(* Properties.                                                             *)

\* A pod never gets another volume's data through a stale by-path link, unless
\* the log says the device could not be verified (verifyIscsiDevice: "handing
\* over another volume's disk is never right").
OwnDisk == \A v \in Volumes : v \notin unverified =>
    staged[v] \in {v, None} /\ published[v] \in {v, None}

\* What a pod wrote to a raw block volume reaches the LUN before the session
\* ends, unless the flush failed and the log says so (logoutTarget).
WritesReachLun == [][\A v \in Volumes :
    Session(v) # {} /\ Session(v)' = {} /\ call[v].flushed => v \notin dirty]_vars

\* A session that outlives the volume's stay on the node is one whose last
\* unstage met a failure.
SessionsAccounted == \A v \in Volumes :
    kubelet[v] = "out" /\ pc[v] = "idle" /\ Session(v) # {} => v \in swallowed

\* Once the kubelet knows a volume as staged, and has nothing left to expand,
\* its filesystem fills its LUN (growFilesystemIfNeeded: "the first stage is
\* where it has to happen").
FilesystemGrown == \A v \in Volumes \ (wanted \cup unverified) :
    kubelet[v] \in {"staged", "publishing", "published"} => v \notin small

\* The node record of a volume's stay does not outlive it at the DSM's own address,
\* where iscsid would go on trying, even if the session was gone already (logout:
\* "returning early on "no session" would skip the cleanup precisely when it is
\* needed"): one that is there is of an unstage that met a failure, or has been
\* made since by the discovery for another volume, which nothing deletes.
RecordsAccounted == \A v \in Volumes :
    kubelet[v] = "out" /\ pc[v] = "idle" /\ DsmPortal \in record[v]
        => v \in swallowed \cup remade

\* A pod that goes on wanting a volume gets it, whatever links are stale and
\* whatever an earlier attempt left behind.
PodGetsVolume == \A v \in Volumes : pod[v] ~> (kubelet[v] = "published" \/ ~pod[v])

\* A volume no pod wants leaves the node.
VolumeLeaves == \A v \in Volumes : ~pod[v] ~> (kubelet[v] = "out" \/ pod[v])
=============================================================================
