---------------------------- MODULE NfsPrivilege ----------------------------
(***************************************************************************)
(* NFS volumes on the nodes: NodeStageVolume grants every node of the      *)
(* cluster access to the share, NodePublishVolume mounts it and, where the *)
(* server has no export, saves the privilege again and mounts once more.   *)
(*                                                                         *)
(* The DSM's save is external and modelled from what share.go and          *)
(* nodeserver.go rely on: it rewrites the tables of all shares without a   *)
(* lock, so a save may put back what another one has changed meanwhile,    *)
(* in the saved rules, in the exports, in both or in neither; it answers   *)
(* success all the same.                                                   *)
(***************************************************************************)
EXTENDS Naturals, FiniteSets

CONSTANTS
    Nodes, Shares,
    FirstNodes,  \* the nodes of the cluster at the start; the others may join
    MaxFaults,   \* bound: requests that fail, and answers given up on
    MaxCrashes,  \* bound: restarts of a node's driver
    Pods         \* how many mounts pods want

ASSUME ConstantsAssumption ==
    /\ FirstNodes \subseteq Nodes
    /\ MaxFaults \in Nat /\ MaxCrashes \in Nat /\ Pods \in Nat

VARIABLES
    cluster,     \* the nodes Kubernetes lists
    rules,       \* DSM: the nodes each share's saved rules allow,
    exports,     \*   and those the NFS server lets in; {}: no export
    saving,      \* DSM: the clients of the save it is at for each mount,
    seen,        \*   and the tables that save has read
    pc,          \* where the kubelet and the call for each mount are
    want,        \* the clients that call asks for
    force,       \* whether it skips the shortcut
    faults, crashes

dsmVars == <<rules, exports, saving, seen>>
vars == <<cluster, rules, exports, saving, seen, pc, want, force, faults, crashes>>

\* A mount is a share on a node.
Mounts == Nodes \X Shares
NodeOf(m) == m[1]
ShareOf(m) == m[2]

Tables == [rules : [Shares -> SUBSET Nodes], exports : [Shares -> SUBSET Nodes]]
NoTables == [rules |-> [s \in Shares |-> {}], exports |-> [s \in Shares |-> {}]]

Labels == {"unwanted", "out", "load", "save", "answer", "verify", "staged", "mount", "remount",
           "published"}

TypeOK ==
    /\ cluster \subseteq Nodes
    /\ [rules |-> rules, exports |-> exports] \in Tables
    /\ saving \in [Mounts -> SUBSET Nodes] /\ seen \in [Mounts -> Tables]
    /\ pc \in [Mounts -> Labels]
    /\ want \in [Mounts -> SUBSET Nodes]
    /\ force \in [Mounts -> BOOLEAN]
    /\ faults \in 0..MaxFaults /\ crashes \in 0..MaxCrashes

-----------------------------------------------------------------------------
Fault == faults < MaxFaults /\ faults' = faults + 1
NoFault == UNCHANGED faults

Goto(m, l) == pc' = [pc EXCEPT ![m] = l]

Leave(m, l) ==
    /\ Goto(m, l)
    /\ force' = [force EXCEPT ![m] = FALSE]
    /\ want' = [want EXCEPT ![m] = {}]

\* A call that fails leaves the kubelet where it was, to call again.
Before(m) == IF force[m] \/ pc[m] = "mount" THEN "staged" ELSE "out"
Fail(m) == Leave(m, Before(m))

\* Mutants: a node asks for itself only; for a mount in place of an address.
OwnAddress(m) == {NodeOf(m)}
MountAddress(m) == {m}

\* getNodeAddress: every node of the cluster at that moment.
NodeAddress(m) == cluster

-----------------------------------------------------------------------------
(* setNFSVolumePrivilege and ShareNfsPrivilegeSave.                        *)

NodeStageVolume(m) ==
    /\ pc[m] = "out" /\ NodeOf(m) \in cluster
    /\ Goto(m, "load")
    /\ want' = [want EXCEPT ![m] = NodeAddress(m)]
    /\ UNCHANGED <<cluster, dsmVars, force, faults, crashes>>

\* The shortcut; rules that cannot be read are saved anyway.
Load(m) ==
    /\ pc[m] = "load"
    /\ \/ /\ want[m] \subseteq rules[ShareOf(m)]
          /\ Leave(m, "staged")
          /\ NoFault
       \/ /\ IF want[m] \subseteq rules[ShareOf(m)] THEN Fault ELSE NoFault
          /\ Goto(m, "save")
          /\ UNCHANGED <<want, force>>
    /\ UNCHANGED <<cluster, dsmVars, crashes>>

\* The request reaches the DSM, which reads its tables, or it fails.
Save(m) ==
    /\ pc[m] = "save"
    /\ \/ /\ saving[m] = {}
          /\ saving' = [saving EXCEPT ![m] = want[m]]
          /\ seen' = [seen EXCEPT ![m] = [rules |-> rules, exports |-> exports]]
          /\ Goto(m, "answer")
          /\ NoFault
          /\ UNCHANGED <<want, force>>
       \/ /\ Fail(m)
          /\ Fault
          /\ UNCHANGED <<saving, seen>>
    /\ UNCHANGED <<cluster, rules, exports, crashes>>

\* The DSM writes each of its tables, on top of what is there now or of what it
\* read when the save began, and answers; or the caller has given up.
SaveEnds(m) ==
    LET written(t) == [t EXCEPT ![ShareOf(m)] = saving[m]] IN
    /\ saving[m] # {}
    /\ rules' \in {written(rules), written(seen[m].rules)}
    /\ exports' \in {written(exports), written(seen[m].exports)}
    /\ saving' = [saving EXCEPT ![m] = {}]
    /\ seen' = [seen EXCEPT ![m] = NoTables]
    /\ IF pc[m] = "answer" THEN Goto(m, "verify") ELSE UNCHANGED pc
    /\ UNCHANGED <<cluster, want, force, faults, crashes>>

\* The answer is lost, or comes too late.
SaveUnanswered(m) ==
    /\ pc[m] = "answer"
    /\ Fail(m)
    /\ Fault
    /\ UNCHANGED <<cluster, dsmVars, crashes>>

\* The rules are read back: they are there, or the save is tried again until
\* nfsPrivilegeVerifyTimeout.
Verify(m) ==
    /\ pc[m] = "verify"
    /\ \/ /\ want[m] \subseteq rules[ShareOf(m)]
          /\ IF force[m] THEN Goto(m, "remount") /\ UNCHANGED <<want, force>>
                         ELSE Leave(m, "staged")
          /\ NoFault
       \/ /\ IF want[m] \subseteq rules[ShareOf(m)] THEN Fault ELSE NoFault
          /\ \/ Goto(m, "save") /\ UNCHANGED <<want, force>>
             \/ Fail(m)
    /\ UNCHANGED <<cluster, dsmVars, crashes>>

-----------------------------------------------------------------------------
(* NodePublishVolume.                                                      *)

NodePublishVolume(m) ==
    /\ pc[m] = "staged"
    /\ Goto(m, "mount")
    /\ UNCHANGED <<cluster, dsmVars, want, force, faults, crashes>>

\* Mutant: a missing export is not restored.
MountOnce(m) ==
    /\ pc[m] = "mount"
    /\ IF NodeOf(m) \in exports[ShareOf(m)] THEN Leave(m, "published") ELSE Fail(m)
    /\ UNCHANGED <<cluster, dsmVars, faults, crashes>>

\* A server that has the share, but not for this node, denies access.
Mount(m) ==
    LET clients == exports[ShareOf(m)]
        gone == pc[m] = "mount" /\ clients = {} IN
    /\ pc[m] \in {"mount", "remount"}
    /\ \/ /\ NodeOf(m) \in clients
          /\ Leave(m, "published")
          /\ NoFault
       \/ /\ gone                                    \* No such file or directory
          /\ Goto(m, "save")
          /\ force' = [force EXCEPT ![m] = TRUE]
          /\ want' = [want EXCEPT ![m] = NodeAddress(m)]
          /\ NoFault
       \/ /\ IF gone \/ NodeOf(m) \in clients THEN Fault ELSE NoFault
          /\ Fail(m)
    /\ UNCHANGED <<cluster, dsmVars, crashes>>

\* NodeUnpublishVolume and NodeUnstageVolume leave the privilege alone.
Unmount(m) ==
    /\ pc[m] = "published"
    /\ Goto(m, "out")
    /\ UNCHANGED <<cluster, dsmVars, want, force, faults, crashes>>

-----------------------------------------------------------------------------
NodeJoins(n) ==
    /\ n \notin cluster
    /\ cluster' = cluster \cup {n}
    /\ UNCHANGED <<dsmVars, pc, want, force, faults, crashes>>

\* A node's driver restarts: its calls fail.  A save the DSM is at goes on.
Crash(n) ==
    LET failed(m) == NodeOf(m) = n /\ pc[m] \notin {"unwanted", "out", "staged", "published"} IN
    /\ crashes < MaxCrashes
    /\ crashes' = crashes + 1
    /\ pc' = [m \in Mounts |->
                IF failed(m) THEN Before(m) ELSE pc[m]]
    /\ force' = [m \in Mounts |-> force[m] /\ ~failed(m)]
    /\ want' = [m \in Mounts |-> IF failed(m) THEN {} ELSE want[m]]
    /\ UNCHANGED <<cluster, dsmVars, faults>>

\* Some shares were mounted before, and kept their privilege.
Init ==
    /\ cluster = FirstNodes
    /\ \E known \in SUBSET Shares :
          rules = [s \in Shares |-> IF s \in known THEN FirstNodes ELSE {}]
    /\ exports = rules
    /\ saving = [m \in Mounts |-> {}] /\ seen = [m \in Mounts |-> NoTables]
    /\ pc \in [Mounts -> {"out", "unwanted"}]
    /\ Cardinality({m \in Mounts : pc[m] = "out"}) = Pods
    /\ want = [m \in Mounts |-> {}]
    /\ force = [m \in Mounts |-> FALSE]
    /\ faults = 0 /\ crashes = 0

Step(m) ==
    \/ NodeStageVolume(m) \/ Load(m) \/ Save(m) \/ SaveUnanswered(m) \/ Verify(m)
    \/ NodePublishVolume(m) \/ Mount(m)

Next ==
    \/ \E m \in Mounts : Step(m) \/ SaveEnds(m) \/ Unmount(m)
    \/ \E n \in Nodes : NodeJoins(n) \/ Crash(n)

Spec == Init /\ [][Next]_vars

\* A request ends, and the kubelet repeats a call that failed.
FairSpec == Spec /\ \A m \in Mounts : WF_vars(Step(m)) /\ WF_vars(SaveEnds(m))

-----------------------------------------------------------------------------
(* Properties.                                                             *)

\* A node that was in the cluster before any of the saves began is let in by
\* every server that has the share, and by its saved rules, whatever those saves
\* write back of other shares and in whatever order, and whoever joins
\* meanwhile (setNFSVolumePrivilege: "every node stages with the same rule
\* set"): it may have to repair an export, and is not denied.
FoundersAdmitted == \A s \in Shares :
    /\ rules[s] # {} => FirstNodes \subseteq rules[s]
    /\ exports[s] # {} => FirstNodes \subseteq exports[s]

\* The server has the share, and not for this node.  That is no missing export,
\* so that the privilege is not saved again (nodeserver.go:879), nor is a stage
\* that succeeded repeated.
Denied(m) ==
    /\ pc[m] \in {"staged", "mount"}
    /\ exports[ShareOf(m)] # {} /\ NodeOf(m) \notin exports[ShareOf(m)]

\* A pod on a node of the cluster gets its share mounted in the end, whatever
\* concurrent saves have done to the rules and the exports, unless one of them
\* has put back an export from before the node joined, and for good.
MountSucceeds == \A m \in Mounts :
    pc[m] = "load" ~> (pc[m] = "published" \/ []Denied(m))
=============================================================================
