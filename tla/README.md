# TLA+ models of the Synology CSI driver

The driver lets Kubernetes keep volumes on Synology DSMs: iSCSI LUNs, NVMe/TCP
namespaces, and shared folders over SMB and NFS.  It has one process beside the
CSI sidecars (the *controller*) and one on every node.  No process stores
anything: what exists is on the DSMs, on the host, and in what Kubernetes (the
*CO*) remembers.  Every call therefore starts with a lookup, creation is meant
to be idempotent, and a call that fails undoes what it did, as far as it can.
These modules say what that adds up to when requests fail, answers get lost,
the process restarts and calls overlap.

Paths and line numbers are those of the repository; `pkg/...` is `src/pkg/...`.
`PROJECT.json` ties each definition to the lines it stands for.

## 1. Inventory

| component | source | state | operations |
|---|---|---|---|
| Controller service | `pkg/driver/controllerserver.go` | none | Create/Delete/ControllerExpandVolume, Create/DeleteSnapshot, listings, validation |
| DSM service, iSCSI | `pkg/dsm/service/dsm.go`, `rollback.go` | `service.dsms`, filled once | findVolume, CreateVolume over the DSMs, DeleteVolume, ExpandVolume |
| DSM service, NVMe | `pkg/dsm/service/namespace_volume.go` | none | the same over namespaces and subsystems |
| DSM service, shares | `pkg/dsm/service/share_volume.go` | none | the same over shares and quotas |
| Node service | `pkg/driver/nodeserver.go` | none | stage, publish, unpublish, unstage, expand, statistics |
| iSCSI on the node | `initiator.go`, `multipath.go`, `device_identity.go` | none (iscsid, kernel, udev) | login, logout, finding and verifying the device |
| NVMe on the node | `nvme_connector.go` | none (kernel) | connect, disconnect, waiting for the namespace |
| Snapshots | `dsm.go`, `share_volume.go`, `namespace_volume.go` | none (the DSM's snapshots) | lookup by name and by uuid, taking, deleting |
| Web API | `pkg/dsm/webapi/*.go` | session id `dsm.Sid` | requests, login, re-login, logout, the NFS privilege's retries |
| Start-up, gRPC | `main.go`, `driver.go`, `grpc.go` | the list of DSMs | AddDsm for each DSM, a goroutine per call |
| Host commands | `pkg/utils/hostexec`, `utils.go` | none | commands in the host's namespaces |

How they interact: the CO calls a handler over gRPC; each handler runs in a
goroutine of its own and nothing in the driver locks a volume.  A handler makes
a sequence of blocking HTTP requests to a DSM, or runs commands on the host.
Handlers share `service.dsms`, the session id, and above all the objects on the
DSMs.  Nodes share a DSM's NFS rules and the list of the cluster's nodes.

Where it is hard:

* **Partial failure.** A volume is three or four objects made in sequence, with
  a rollback (`rollback.go`) that is itself made of requests.  A LUN no target
  maps is invisible to every later call.
* **Lost answers and restarts.** The DSM has done what the driver believes
  failed; a driver that dies runs no rollback.
* **Stale lookups.** A DSM that cannot be listed must not count as "the volume
  is not there", neither for creating (a second volume) nor for deleting (a
  volume forgotten).
* **Overlap.** Two calls for one name: the rollback of one may hit what the
  other has handed out.
* **Best-effort listings.** Snapshots are looked up in listings that drop, and
  only log, what could not be listed, and a DSM takes a second snapshot of a name.
* **A shared session.** Every handler reads and replaces `dsm.Sid` without a lock.
* **Asynchronous DSM.** Copies go on after the request has been answered; NFS
  saves rewrite tables of all shares without a lock and report success.
* **Asynchronous host.** The kernel reuses disk names, udev's links lag behind.

What makes each part correct: a volume the CO knows of stays until the CO has
it deleted; a delete that reports success has deleted; what fails leaves
nothing nobody knows of; repeating a call ends in success; a pod sees its own
volume and no other, at its full size; an expired session is not noticed by any
call, and sessions do not pile up on a DSM; no written data is lost at the logout; nodes
that save one share's privilege, or two shares', do not shut one another out.

## 2. Modules

| module | models |
|---|---|
| `VolumeContract` | abstract: what the controller promises the CO of one volume |
| `IscsiVolume` | CreateVolume, DeleteVolume, ControllerExpandVolume of iSCSI volumes over several DSMs, for any number of names and concurrent calls |
| `SanVolume` | one LUN or namespace from nothing, a snapshot or a volume: the DSM's background copy, growing, the group (target or subsystem), deletion |
| `ShareVolume` | one share from nothing, a snapshot or a share: its quota, deletion, expansion |
| `Session` | the session id all handlers share: refused requests, login, expiry, logout, restart |
| `Snapshots` | CreateSnapshot and DeleteSnapshot of a LUN, a namespace or a share, over `Session` |
| `NodeIscsi` | the node service for iSCSI, one or two portals, filesystem and raw block |
| `NfsPrivilege` | granting the cluster's nodes access to shares and mounting them |
| `*Proofs` | the inductive invariants and theorems of the module they are named for; `IscsiContractProofs` and `IscsiLeftoverProofs` extend `IscsiVolumeProofs`, and `SnapshotsProofs` begins with what is proved of `Session` |
| `MC_*` | model values for the runs |

How they compose: `Snapshots` extends `Session` and conjoins each of its own
request steps with one of `Session`'s (`Answered`, `Lost`, `Failed`), so that a
snapshot request is refused, logs in and is sent again where the code does it.
`IscsiVolume`, `SanVolume` and `ShareVolume` each instantiate `VolumeContract` with a
refinement mapping, `KeepsContract`.  In the volume modules a request
succeeds, fails or loses its answer; its second attempt after a login is part of
"succeeds" and "fails".

Conventions common to all: `pc` says which request or command a handler is at,
one action is what happens from one answer to the next, so every order of
requests from different handlers is a behaviour.  `Fault` guards a request that
fails, `MaxFaults` bounds how many do; a lost answer is a fault that takes
effect.  `Crash` (bounded by `MaxCrashes`) empties every handler and leaves the
DSM and the host alone.  `logged` is the set of objects a log line reports
as left behind; `unanswered` (a history variable) those about which some request got no
answer, so that no program could have known; `abandoned` (a history variable) the targets
and subsystems DeleteVolume gave up although its answers told it that their LUN or namespace was
gone (section 3, known behaviour).  Together they are the only
excuses the properties accept for something left over.  Definitions marked
*Mutant* are wrong variants of the next definition, there to show that the
properties notice.

### VolumeContract

`phase` is the CO's view of one volume (creating, bound, deleting, deleted),
`asked` the capacities the CO may ask for, and `size` the capacity of what the CO was handed.
`Create` hands out a volume with a capacity from `asked`; `Expand` lets it only grow;
`Delete` asks for its deletion, after which `Remove` may take it away at any time;
`Forget` tells the CO that it is gone, and needs it to be.  The mapping computes
`size` from the DSM, never from what a handler holds: for `IscsiVolume` the LUN with
the recorded id and for `SanVolume` the unit with that id, which a lookup must be able to
find until its deletion is asked for; for `ShareVolume` the quota of the share with that id.  What is refined is therefore
that no failure, rollback, retry, restart or late answer changes the object
the CO relies on.  `IscsiVolume` implements one contract per name.

### IscsiVolume

`lun[d][n]` and `target[d][n]` are what DSM `d` holds under the name that
volume `n`'s LUN and target get; a DSM holds one object of a name and answers
AlreadyExist to a second.  A target carries the set of LUNs it maps.

| action | code |
|---|---|
| `CreateVolume`, `DeleteVolume`, `ControllerExpandVolume` | the CO's call; the lookup begins over all of `service.dsms` |
| `ListTargets`, `GetMappedLun` | `listISCSIVolumes`: targets of each DSM, `LunGet` for each mapping; a failure makes the listing incomplete, a LUN that vanished does not |
| `CreateLookedUp`, `DeleteLookedUp`, `ExpandLookedUp` | what each handler does with `findVolume`'s answer |
| `PickDsm` | the loop over DSMs of `CreateVolume` (dsm.go) |
| `LunCreate`, `LunGet` | `createVolumeByDsm` |
| `TargetCreate`, `TargetGet`, `LunMapTarget` | `createMappingTarget` |
| `UndoTarget`, `UndoLunGet`, `UndoLunDelete` | the registered rollbacks, in reverse order |
| `LunDelete`, `LunCheck`, `TargetDelete`, `TargetCheck` | `DeleteVolume` with the lookups it makes after a failed delete |
| `LunUpdate` | `ExpandVolume` |
| `Deliver` | the response reaches the CO, or the CO has stopped waiting |
| `Crash` | a restart, with the DSMs `AddDsm` reaches |

The CO is external.  `SerialCalls` says that it has one call in flight per volume,
as the provisioner and the resizer do; the run `IscsiOverlap` drops it.  A
name is not asked for again after its volume was deleted (names carry the
claim's uid).  Left out: which storage pool of a DSM is chosen, `spec.DsmIp` and
`spec.Location`, ids of LUNs that no call of the driver made.

### SanVolume

`unit` is the LUN or namespace, `group` the target or subsystem.  `Clone` starts the copy,
`CopyEnds` is the DSM's own step, `Wait` is `waitCloneFinished`, whose backoff
may give up (counted as a fault, so the runs bound how often: a copy that
always outlasts the wait makes every attempt fail), `Grow` is the update that brings
a copy to its size *before* it is mapped.  The DSM may refuse to delete a unit it is copying.
There is one volume, one DSM and one call at a time; a lookup that fails changes nothing
and is a stuttering step.  No subsystem has the empty uuid.

### ShareVolume

A share is visible by its name from the moment it exists, so an attempt that
ends before the quota is set leaves something a retry meets.  Quotas are in MB;
the permissions and NFS settings requested with the creation, and share names that
are cut to 32 characters, are left out.  `Handlers` and `SerialCalls` allow calls
to overlap.

### Session and Snapshots

`sid` is `dsm.Sid`, `sessions` the ids the DSM accepts, and `try[h]` how far the
request of handler `h` is: its first attempt, the login after codes 105, 106 or 119, the second
attempt, or a login that failed.  `Refused` is what a session that has ended is answered,
`Denied` the 105 (no permission) a valid one may be, after which the code logs in all the same.  `Login` replaces `sid` whatever other handlers did
meanwhile, and the id it overwrites stays valid on the DSM.  `Expire` ends a session;
`Logout` and `LogoutEnds` are `RemoveAllDsms` as the process ends, with handlers
still running; `Restart` is the login of the next process.

| action of `Snapshots` | code |
|---|---|
| `CreateSnapshot`, `FindName`, `GetVolume` | controllerserver.go:457, `GetSnapshotByName`: the first of the name in a listing; a failed listing counts as "none" |
| `Take`, `Fetch` | `SnapshotCreate`, `ShareSnapshotCreate`, `NamespaceSnapshotCreate`, and the lookup of the new snapshot |
| `DeleteSnapshot`, `FindId`, `Remove`, `Check` | dsm.go:1073: a snapshot that is not listed counts as deleted; a failed delete is checked |
| `Deliver`, `GiveUp` | the answer, or the deadline after which the CO makes the next call while the handler goes on |
| `Settle` | the DSM completes a snapshot |

`lost` (history) are the snapshots taken by a call that was not answered, had outlived its
caller, died, or had seen an incomplete listing; `overlooked` (history) those a deletion did
not find for that reason.  They are the only excuses the properties accept.
The listing of all DSMs is one request, and the snapshot's volume outlives it.  Left out are
the errors of CreateSnapshot for a snapshot of the name that is another volume's or has no
creation time (controllerserver.go:460-465): there is one volume.

### NodeIscsi

`disk[v][p]` is the disk name of `v`'s session at portal `p`, `link[v][p]` the
disk udev's by-path link names, which `UdevSync` corrects some time later;
`record` is iscsid's node records.  A link whose disk was reused leads to another
volume's data: `Verify` (`verifyIscsiDevice`) is what stands between that and the
pod.  `staged[v]` and `published[v]` say whose data is mounted.  `small` and
`stale` track filesystem and disk against the LUN's size, `dirty` a raw block
volume's unwritten pages.  The kubelet has one call in flight per volume, repeats
what failed, and may change its mind between calls (`PodStart`, `PodStop`).
`Discover` is the discovery of a stage: sent to one
portal, it makes the records of every target the DSM shows, at that portal or at all of them, those of
unstaged volumes included, which `remade` (history) notes.  Modelled from the outside: a multipath device is identified by its volume; a filesystem is flushed when it is
unmounted; the network does not drop sessions.

### NfsPrivilege

A mount is a share on a node.  `Load`, `Save`, `Verify` are `setNFSVolumePrivilege` and
`ShareNfsPrivilegeSave`: the shortcut when all nodes are allowed already, the
save, and the read-back with its retries.  `SaveEnds` is the DSM, external: it
writes its rules and its exports on top of either what is there now or what it
read at the beginning.  `Mount` repairs a missing export once, with `force`; a server that has the
share but not for this node denies the mount, and no call saves the privilege again.  The model
begins with shares that were never mounted or were and kept their privilege, and nodes join
at any time, during a save as well.

## 3. What the runs check

| run | instance | shows |
|---|---|---|
| `IscsiFaults` | 2 DSMs, 1 volume, 1 call at a time, 2 sizes, 3 faults, 1 restart | `KeepsContract`, `RecordedVolumeExists`, `DeletedVolumeIsGone`, `LeftoversAccounted`, `SecondVolumeAccounted`, `LunNeverShrinks`; repeated creates and deletes succeed |
| `IscsiOverlap` | 1 DSM, 2 overlapping creates, 1 fault | *violation* of `RecordedVolumeExists` |
| `IscsiStartup` | 2 DSMs, one may be missed at a start | *violation* of `DeletedVolumeIsGone` |
| `SanVolumes` | LUN or namespace, 3 sources, 2 sizes, 3 faults, 1 restart | `KeepsContract`, `VisibleIsComplete`, `LeftoversAccounted`; creating a LUN and deleting succeed when repeated |
| `NvmeRetry` | a namespace | *violation* of `CreateSucceeds` |
| `ShareVolumes` | a share, 3 kinds of origin, 2 sizes, 3 faults, 1 restart | `KeepsContract`, `ObstaclesAccounted`; creating a plain share and deleting succeed when repeated |
| `ShareRetry` | a copied share | *violation* of `CreateSucceeds` |
| `Snapshots` | a LUN's or a share's snapshot, 2 handlers, 1 fault, 2 ends of a session or denials in a valid one, 1 restart | `SecondSnapshotAccounted`, `RecordedSnapshotKept`, `ReadyIsRecorded`, `OneExpiryIsHidden`, `SessionsBounded`; repeated calls succeed |
| `NodeDisks` | 2 volumes (1 raw block), 1 portal, 2 disk names, 1 fault | `OwnDisk`, `WritesReachLun`, `RecordsAccounted`; each pod gets its volume |
| `NodeMultipath` | 1 volume, 2 portals, its LUN grows, 2 faults, 1 restart | `FilesystemGrown`, `SessionsAccounted`; pods get their volume, volumes leave |
| `NodeRestored` | 1 volume restored from a smaller source | *violation* of `FilesystemGrown` |
| `NfsNodes` | 2 nodes, one joins at any time, 2 shares, mounted before or never, any two mounts wanted, 2 faults, 1 restart | `FoundersAdmitted`, `MountSucceeds`, through the forced save as well |

The runs that may stop for good say so (`CHECK_DEADLOCK FALSE`): a deleted
volume is not asked for again.

**Why the bounds are enough.**  Two DSMs are what the lookup and the loop of
`CreateVolume` distinguish: one that has the volume or failed, and another.  Two sizes make
a call smaller or larger than what exists.  Three faults let a request, its
rollback and the retry's request fail, in one attempt or over several; the restart can
come between any two steps.  `MaxObjects`
is 10 in `IscsiFaults`, which is exactly what three faults and a restart can
make there (11 or 12 give the same states), so it cuts nothing short; it is 8 where a
short counterexample is looked for.  In `SanVolume`, `ShareVolume`, `Snapshots` and `Session` an
id that nothing knows any more is used again (`FreeIds`, `FreeSids`), so that the bound
on ids is one on how many are known at a time; 10, and 8 for sessions, are never reached.
In `Snapshots` two handlers are a call and the one that outlived its caller; one fault makes an answer
late or lost, a listing incomplete or a call outlive its deadline; two ends of a session or
denials (`MaxRefusals`) are what it takes for a request to be refused twice.  It has about 1.5
million states.  Two disk
names for two volumes make reuse happen; two portals are the two
controllers of a DSM.  `RecordsAccounted` is checked with two volumes, so that one's discovery
meets the other's absence.  Two mounts of two nodes and two shares are two nodes' saves of
one share, two shares' of one node, and both at once; together with entries from an earlier mount they
suffice for a save to put back an export from before a node joined.  In `IscsiVolume` there is one name per run, because different
names never touch the same object, and that is what the theorems of section 5
show for any number of them.

**Fairness.**  A handler's step is weakly fair: an HTTP request ends, by its
answer or an error (the client of dsmwebapi.go:59 sets no timeout: a connection that neither answers nor
breaks would hold its handler for ever, and is assumed not to happen), and a command on the host ends.
So are the DSM's copy, save and completion of a snapshot, and udev.  The CO repeats a create or a delete that
did not succeed, as Kubernetes does (for a snapshot, until it is ready to use), and the kubelet its calls for a pod.
Nothing forces the CO to delete or a pod to come or go.  `CreateSucceeds` of `IscsiVolume`
assumes that the CO repeats the call with one capacity, as it does; with another
one the code is right to answer AlreadyExists.  Liveness is about what
happens after finitely many faults: a DSM that always fails serves nobody.

### What the violations show

* **Overlapping creates lose a volume** (`IscsiOverlap`; dsm.go:279,
  rollback.go:28-31).  Call 1 creates the LUN; call 2 meets AlreadyExist, takes the
  LUN and the target over, maps it and succeeds; call 1's mapping fails, and its
  rollback deletes what call 2 has handed out.
* **A DSM missed at the start is missed for good** (`IscsiStartup`; main.go:75-80,
  dsm.go:838-841).  `findVolume` searches `service.dsms` only and reports a complete
  listing without the DSM, so `DeleteVolume` succeeds for a volume that stays.
* **A subsystem left behind blocks its name** (`NvmeRetry`; namespace_volume.go:57).
  After AlreadyExist the subsystem is looked up by an empty uuid.
* **A cloned share without its quota blocks its name** (`ShareRetry`;
  share_volume.go:56, 93): the retry finds another capacity (controllerserver.go:257).
* **A restored volume may stay small** (`NodeRestored`; nodeserver.go:608): growing
  fails, the repeated stage finds the mount and returns before it.

### Known behaviour the passing properties do not exclude

* A failed logout leaves a session although NodeUnstageVolume succeeds
  (nodeserver.go:350, against the comment at 803-804).  `SessionsAccounted` says
  that there is no other way for one to stay.
* Node records outlive a volume's stay, with automatic login at the next boot.  The
  second portal's stays whenever a discovery has shown it:
  initiator.go:277 deletes the one at the DSM's own address only.  That one comes back when
  another volume of the DSM is staged, since `sendtargets --op new` (initiator.go:112-118) makes the records of every
  target the DSM shows, and nothing deletes it until the volume is staged and unstaged there once
  more.  `RecordsAccounted` says that a record at the DSM's own address which is not of such a
  discovery (`remade`) is of an unstage that met a failure.
* A stage that could not verify a device and mounted another volume's (the log says so,
  device_identity.go) can hide an expansion: NodeExpandVolume resizes what the link
  leads to and succeeds, and if the first attempt to grow the filesystem after the next
  stage fails, the repeated one finds the mount and returns before it, as in
  `NodeRestored`.  It takes two volumes and three failures; `FilesystemsGrown` therefore assumes `OwnMounts`.
* Under multipath, a raw block volume whose flush failed and whose logout then ended only the
  session at the DSM's own address keeps its pages in the cache of the other path's disk.  If
  that path's link still names another volume's disk, the flush of a later unstage
  is of that one, counts as done, and the logout drops the pages.  It takes two volumes and two
  failures, the first of which is logged as a failed flush; `WritesKept` therefore assumes `OwnLinks`.
* A save puts back what it read before a node joined, or asked for (nodeserver.go:436,
  470-471), in the share's own entry or in another share's.  The node that joined then loses
  access it was granted already, and if its stage is over the denial is for good: "access
  denied" is not the "No such file or directory" that makes nodeserver.go:879 save again, and a stage that
  succeeded is not repeated.  It lasts until another node's stage or a repair saves that share.
  `MountSucceeds` says that a mount which does not succeed ends in exactly this, and
  `FoundersAdmitted` that it happens only to nodes that were not in the cluster before those
  saves: a missing export is all the others ever meet.
* Two nodes that stage one share at once both write its rules, so "at most one
  writer per share" (nodeserver.go:479-480) does not hold.  Each asks for all nodes it knew of, so
  the nodes that were there before both keep their access (`FoundersAdmitted`).
* Three mounts at once can starve: their saves overwrite one another's tables for
  ever, each being answered with success, so `MountSucceeds` is checked with two mounts
  wanted at a time (`Pods = 2`).
* A snapshot that a listing left out survives a DeleteSnapshot that succeeds
  (dsm.go:1073); for a share's snapshot so it does when the second look fails.
  `RecordedSnapshotKept` says that there is no other way.
* A request that is denied for want of a permission (code 105) on a valid session logs in again
  and is sent once more (dsmwebapi.go:95), and the session it had stays on the DSM until it times
  out: one for each denial, however many there are.  `SessionsBounded` counts them.
* A name gets a second snapshot after a lost answer or an incomplete listing
  (controllerserver.go:457), and the CO that polls the one it recorded is answered for
  whichever of them is listed first (controllerserver.go:472): `SecondSnapshotAccounted`, `ReadyIsRecorded`.
* Handlers that were refused at once each log in, and all sessions but the last stay on
  the DSM until they time out (dsmwebapi.go:235); so does one made while the process logs
  out.  `SessionsBounded` says how many.
* Overlapping expansions of different sizes shrink a LUN (dsm.go:962): the size is compared
  with what the lookup saw.
* DeleteVolume may give up a target or subsystem without a word.  If the deletion of the LUN or namespace
  fails, or only its answer does, and the lookup that follows finds it gone, the code returns success before
  it comes to the target or the subsystem (dsm.go:742-743, 759-761).  If that lookup fails too, the repeated
  call does not find the volume any more and succeeds.  Any error of `TargetGet`
  after a failed `TargetDelete` counts as a target that is gone (dsm.go:773).  The target stays, no log line names it,
  and nothing looks for it again.  These are `abandoned`, and a restart between the two
  deletions counts as `unanswered`; `LeftoversAccounted` says that
  a target or subsystem that is in no log is left behind in no other way.

## 4. How each property is shown to bite

Every property of a passing run has a mutant: a definition of the model replaced by
the way a plausible slip in the code would read, under which TLC finds the property
violated.  Examples: an incomplete listing counted as "absent" (a second volume,
a volume forgotten), a mapping whose error is ignored, a rollback that skips the
target, a name looked up among healthy snapshots only, a new session id that is not stored,
a device that is not verified, a flush left out, a logout from one
portal, a node that asks for access for itself only.  `PROJECT.json` lists them.

## 5. What is proved

The theorems are stated for every value of the constants that meets the named
assumption of the module (`ConstantsAssumption`, `SessionAssumption`,
`SnapshotAssumption`: finitely many handlers, bounds that are numbers, capacities that are not 0).
Each rests on an inductive invariant `IInv`, because the properties
speak of the DSM or the host while a handler acts on what it read some steps ago.

| module | theorems | further assumption |
|---|---|---|
| `IscsiVolumeProofs` | `TypeCorrect` | |
| | `RecordedVolumesSafe`, `DeletedVolumesGone` | `Supported == SerialCalls /\ ~StartupFaults` |
| `IscsiContractProofs` | `ContractKept` (implements `VolumeContract` for each name), `LunsNeverShrink` | `Supported` |
| `IscsiLeftoverProofs` | `NothingForgotten`, `SecondVolumeKnown` | `Supported` |
| `SanVolumeProofs` | `TypeCorrect`, `CompleteOnly`, `NothingForgotten`, `ContractKept` | |
| `ShareVolumeProofs` | `TypeCorrect` | |
| | `NothingInTheWay`, `ContractKept` | `SerialCalls` |
| `SnapshotsProofs` | `TypeCorrect`, `SecondSnapshots`, `RecordedKept`, `ReadyKept`, `ExpiryHidden`, `SessionsFew` | |
| `NodeIscsiProofs` | `TypeCorrect`, `OwnDisks`, `NoSessionLeft`, `NoRecordLeft` | |
| | `FilesystemsGrown` | `Restored = {}`, `[]OwnMounts` |
| | `WritesKept` | `[]OwnLinks` |
| `NfsPrivilegeProofs` | `TypeCorrect`, `NoFounderDenied` | |

The further assumptions cannot be dropped: `IscsiOverlap` and `IscsiStartup` are the
counterexamples without either half of `Supported`, `NodeRestored` is the one without
`Restored = {}`, and section 3 names those for overlapping expansions, for a mounted disk that is another volume's, and for writes under multipath.
`OwnMounts` (no volume has another's data at its staging path) is no
assumption on a node with one volume, and `VerifiedMounts` proves it where every device could be
verified.  `OwnLinks` (no session's link leads to another volume's disk) is none with one
portal, nor with one volume.

**IscsiVolume.**

* `DsmInv`: ids are unique, and a target maps no LUN but that of its own name;
* `SerialInv`: two calls at work are for different names;
* `CoInv(n)`: what the CO recorded is a LUN of that name and, until it is deleted,
  on a DSM and mapped (a volume being deleted: mapped as long as it exists);
* `HandlerInv(h)`: a call agrees with the CO's view of its volume (`CallInv`); what
  it may undo or delete is of its own name (`OwnInv`); the lookup's gathered mappings and volumes are still
  true (`MapsInv`, `FoundInv`); a complete lookup that has not found the
  volume has yet to visit the DSM that has it (`SeenInv`, the heart of
  `DeletedVolumesGone`: nothing found and nothing left to visit
  means that no DSM has it); and how far the creation or deletion has come (`WorkInv`).

The argument has three layers.  Lemmas about single requests (`AddLunKeeps`,
`RemoveLunKeeps`, ...) say that one changes nothing of another name and keeps `DsmInv`.
`OthersKeep` and `OtherVolumesKeep` turn that into: the step of one handler keeps the
invariants of every other handler and volume.  What is left, one lemma per
action, is that a handler keeps its own.  `IInvNext` collects them.
`IscsiContractProofs` adds sizes: `LunStep` lists what a step may do to a LUN,
`SizesInv` keeps the size a call read true until it is used, and
`ContractNext` maps each step to one of `VolumeContract` or a stutter.

`IscsiLeftoverProofs` keeps the books for `NothingForgotten` and `SecondVolumeKnown`.  Neither
property is inductive: in the middle of a call there are LUNs nothing maps and
targets that map nothing, and only what the handler is still going to do makes
that right.  `LInv` says so by place.  On a DSM a name is *settled* if its target
maps a LUN, and *reported* if what is there is accounted for.
`NameInv(n)`: at most one DSM has a mapped LUN that is not reported, and once no call
for the name runs, every DSM is settled.  `PlaceInv(h)`: during a lookup or a reply all
DSMs are settled; before a LUN is created all are reported; from then until
the mapping or the end of the rollback the other DSMs are reported and this one holds only what the
call has made (`OwnMade`), which is just what its rollback deletes; a deletion has under
its hands the one mapped LUN it found.  `LookInv(h)`: a lookup of a creation that has found nothing, and met
no error, has yet to visit any DSM that shows the volume, so that "absent" is true when it is concluded.
`FrameStep` shows that a step of one handler keeps the books of all other names, one lemma per request
what the request does to them, and one lemma per action (`...Leaves`) that the handler arrives at
a place whose conditions hold.

**SanVolume.** `PhaseInv` ties how far the call is to the CO's view, `CallInv` says that
what it gathered is still true, and `RollbackInv` that what exists
and is not accounted for yet is what the call will undo.  The last makes
`LeftoversAccounted` inductive.

**ShareVolume.** One invariant per kind of call (`Creates`, `Expands`, `Deletes`).
`ShareInv` limits the quotas a share of the name can have before the CO has it, and
a share with another quota than the one asked for is accounted for or is the
one the call has made and will remove.

**Snapshots.** `SessionInv` bounds the sessions nobody will log out of by those that
ended and the denials, and says that no handler logs in before a session has ended or a valid one was denied.  It is
proved for every step of `Session` and carried over to `Snapshots`, whose steps are
steps of `Session` or leave it alone.  `SnapsInv` says that each snapshot is recorded,
lost or in the hands of a call; `OneHeard` that the CO waits for one call
at most, so that only that one's findings bind it.

**NodeIscsi.** `DisksDistinct`: a disk is one session's.  `LocalInv(v)`: the kubelet's view
agrees with the call at work, a device that was resolved and verified is the volume's own or gone, and
what an unstage leaves behind had its failure swallowed.  A record that another volume's discovery has
made of a volume off the node is kept apart (`Leftover`): it is in `remade`, which no step but the
volume's own next stage clears.

Two properties need to know more about the links, because expansion and flush
follow them again, long after the stage verified them (`Existing`).
`PathInv(v)`: while a volume's own data is mounted, `SoundPath(v)` holds: the session at the
DSM's own address lasts and the link to it names one of the volume's own disks.  The stage
found it so, udev can only put a link right (`PathStays`), and the session ends after the unmount.
Then `ExistingIs`: what the sessions' links lead to is the volume itself or nothing.
`GrownInv(v)` adds that a filesystem smaller than its LUN is on the kubelet's
list until a rescanned disk of the volume's own is resized, and `DirtyInv(v)` that
with one portal a dirty volume has a sound path, so that a flush that counts as done was of
that volume (`FlushesOwn`).

**NfsPrivilege.** Every save asks for the nodes the cluster began with and perhaps others, and so
does every entry of a table that is not empty: of those saved, of those served, and of those a save read
when it began, which is what it may write back.  Since the cluster may begin in any way, this says of any moment
at which no save is at work that later saves shut out nobody whom all entries let in by then.

**Only model-checked.**  Liveness: that repeated calls succeed, that pods get their
volumes and volumes leave the nodes.  It rests on fairness and `ENABLED`, which are beyond the prover.
Every invariant and every action property of the runs is proved.

## 6. What is not modelled

* **NVMe/TCP and SMB on the node.**  One connect and one mount without state of the driver's own;
  what fails in them fails the call.
* **The kubelet giving up on a stage** at its deadline and unstaging while it runs
  (nodeserver.go:746).  A second call per volume squares the control state of
  `NodeIscsi`, which has more than ten million states with two volumes and two portals as it is.
* **Placement and request checks**: share names cut to 32 characters
  (models/dsm.go:46) and paging of listings compute an answer and change no state, and
  names are atomic here.  `spec.Location`, carried to the next DSM (dsm.go:235), is not told apart
  from other reasons a DSM has to refuse a request: a volume of a DSM has no place.
* **Session ids inside the volume modules**: a refused request that logs in is one that is
  answered or fails.  `Snapshots` has the detail.
* **synocli** (`src/synocli`), a command-line tool that calls the web API and the DSM service by
  hand and is no part of the driver's processes.
* **Command lines and parsing** in `pkg/utils/hostexec`, statistics, capabilities,
  identity, system information, configuration files, logging, deployment: they keep no
  state, or are pure input and output.

## 7. Plan

Done, in this order: `IscsiVolume` and its proofs, since losing or duplicating volumes
is the worst the driver can do; the other kinds of volume; the nodes;
`VolumeContract` and its three refinements; `Session` and `Snapshots`; the proofs of all modules.
What is left:

1. `NodeNvme`: connect, the 10 s wait for the namespace, disconnect.
2. `Requests`: getSizeByCapacityRange, getFirstAvailableVolume, paging and
   GenShareName as operators against reference definitions; placement over
   several DSMs.
3. Stages the kubelet has given up on, as a module of one volume of its own.
