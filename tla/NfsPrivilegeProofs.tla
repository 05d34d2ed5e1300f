------------------------- MODULE NfsPrivilegeProofs -------------------------
(***************************************************************************)
(* Safety of NfsPrivilege, for any nodes, shares and bounds, nodes that    *)
(* join during a save included.  No table, nor any that a save has read,   *)
(* lets in some node without all nodes the cluster began with, and no save *)
(* at work asks for less.                                                  *)
(***************************************************************************)
EXTENDS NfsPrivilege, TLAPS

\* No clients, or all those nodes and perhaps others.
Founders(clients) == clients # {} => FirstNodes \subseteq clients

\* What is asked for.
FoundersAsked ==
    /\ FirstNodes \subseteq cluster
    /\ \A m \in Mounts : Founders(want[m]) /\ Founders(saving[m])

\* Who was let in when a save read the tables.
FoundersSeen == \A m \in Mounts, s \in Shares :
    Founders(seen[m].rules[s]) /\ Founders(seen[m].exports[s])

IInv == TypeOK /\ FoundersAsked /\ FoundersSeen /\ FoundersAdmitted

-----------------------------------------------------------------------------
LEMMA Types ==
    ASSUME TypeOK, NEW m \in Mounts
    PROVE  /\ NodeOf(m) \in Nodes /\ ShareOf(m) \in Shares
           /\ rules \in [Shares -> SUBSET Nodes] /\ exports \in [Shares -> SUBSET Nodes]
           /\ seen[m].rules \in [Shares -> SUBSET Nodes]
           /\ seen[m].exports \in [Shares -> SUBSET Nodes]
           /\ cluster \subseteq Nodes /\ want[m] \subseteq Nodes /\ saving[m] \subseteq Nodes
           /\ pc[m] \in Labels /\ force[m] \in BOOLEAN
<1>1. /\ rules \in [Shares -> SUBSET Nodes] /\ exports \in [Shares -> SUBSET Nodes]
  BY DEF TypeOK, Tables
<1>2. seen[m] \in Tables
  BY DEF TypeOK
<1> QED
  BY <1>1, <1>2 DEF TypeOK, Tables, Mounts, NodeOf, ShareOf

LEMMA FaultIs ==
    ASSUME TypeOK, Fault \/ NoFault
    PROVE  faults' \in 0..MaxFaults
  BY ConstantsAssumption DEF TypeOK, Fault, NoFault

LEMMA NoTablesIs ==
    /\ NoTables \in Tables
    /\ \A s \in Shares : NoTables.rules[s] = {} /\ NoTables.exports[s] = {}
  BY DEF NoTables, Tables

\* A step of the driver: it asks for the whole cluster, or for nothing more.
Asks(m) ==
    /\ UNCHANGED <<cluster, rules, exports, crashes>>
    /\ faults' \in 0..MaxFaults
    /\ pc' \in [Mounts -> Labels] /\ force' \in [Mounts -> BOOLEAN]
    /\ \/ want' = want \/ want' = [want EXCEPT ![m] = {}] \/ want' = [want EXCEPT ![m] = cluster]
    /\ \/ UNCHANGED <<saving, seen>>
       \/ /\ saving' = [saving EXCEPT ![m] = want[m]]
          /\ seen' = [seen EXCEPT ![m] = [rules |-> rules, exports |-> exports]]

LEMMA LeaveIs ==
    ASSUME TypeOK, NEW m \in Mounts, NEW l \in Labels
    PROVE  /\ Goto(m, l) => pc' \in [Mounts -> Labels]
           /\ Leave(m, l) => /\ pc' \in [Mounts -> Labels] /\ force' \in [Mounts -> BOOLEAN]
                             /\ want' = [want EXCEPT ![m] = {}]
           /\ Before(m) \in Labels
           /\ Fail(m) => /\ pc' \in [Mounts -> Labels] /\ force' \in [Mounts -> BOOLEAN]
                         /\ want' = [want EXCEPT ![m] = {}]
<1>1. /\ Goto(m, l) => pc' \in [Mounts -> Labels]
      /\ Leave(m, l) => /\ pc' \in [Mounts -> Labels] /\ force' \in [Mounts -> BOOLEAN]
                        /\ want' = [want EXCEPT ![m] = {}]
  BY DEF TypeOK, Goto, Leave
<1>2. Before(m) \in Labels
  BY DEF Before, Labels
<1>3. Fail(m) => /\ pc' \in [Mounts -> Labels] /\ force' \in [Mounts -> BOOLEAN]
                 /\ want' = [want EXCEPT ![m] = {}]
  BY <1>2 DEF TypeOK, Fail, Goto, Leave
<1> QED
  BY <1>1, <1>2, <1>3

LEMMA StepAsks ==
    ASSUME TypeOK, NEW m \in Mounts, Step(m) \/ Unmount(m)
    PROVE  Asks(m)
<1> USE DEF dsmVars
<1>0. /\ {"out", "load", "save", "answer", "verify", "staged", "mount", "remount",
           "published"} \subseteq Labels
      /\ faults \in 0..MaxFaults /\ pc \in [Mounts -> Labels]
      /\ force \in [Mounts -> BOOLEAN]
  BY DEF Labels, TypeOK
<1>1. CASE NodeStageVolume(m) \/ NodePublishVolume(m) \/ Unmount(m)
  BY <1>0, <1>1, LeaveIs
     DEF NodeStageVolume, NodePublishVolume, Unmount, NodeAddress, Asks
<1>2. CASE Load(m)
  BY <1>0, <1>2, LeaveIs, FaultIs DEF Load, Asks
<1>3. CASE Save(m)
  BY <1>0, <1>3, LeaveIs, FaultIs DEF Save, Asks
<1>4. CASE SaveUnanswered(m)
  BY <1>0, <1>4, LeaveIs, FaultIs DEF SaveUnanswered, Asks
<1>5. CASE Verify(m)
  BY <1>0, <1>5, LeaveIs, FaultIs DEF Verify, Asks
<1>6. CASE Mount(m)
  <2>1. [force EXCEPT ![m] = TRUE] \in [Mounts -> BOOLEAN]
    BY <1>0
  <2> QED
    BY <1>0, <1>6, <2>1, LeaveIs, FaultIs DEF Mount, NodeAddress, Asks
<1> QED
  BY <1>1, <1>2, <1>3, <1>4, <1>5, <1>6 DEF Step

\* A table a save writes is one of those it may write on top of.
LEMMA SaveEndsIs ==
    ASSUME TypeOK, NEW m \in Mounts, SaveEnds(m)
    PROVE  /\ exports' \in [Shares -> SUBSET Nodes] /\ rules' \in [Shares -> SUBSET Nodes]
           /\ \A s \in Shares : /\ rules'[s] \in {saving[m], rules[s], seen[m].rules[s]}
                               /\ exports'[s] \in {saving[m], exports[s], seen[m].exports[s]}
<1>1. PICK t \in {rules, seen[m].rules} : rules' = [t EXCEPT ![ShareOf(m)] = saving[m]]
  BY DEF SaveEnds
<1>2. PICK e \in {exports, seen[m].exports} : exports' = [e EXCEPT ![ShareOf(m)] = saving[m]]
  BY DEF SaveEnds
<1>3. /\ t \in [Shares -> SUBSET Nodes] /\ e \in [Shares -> SUBSET Nodes]
      /\ ShareOf(m) \in Shares /\ saving[m] \subseteq Nodes
  BY <1>1, <1>2, Types
<1>4. rules' \in [Shares -> SUBSET Nodes] /\ exports' \in [Shares -> SUBSET Nodes]
  BY <1>1, <1>2, <1>3
<1>5. \A s \in Shares : rules'[s] \in {saving[m], rules[s], seen[m].rules[s]}
  BY <1>1, <1>3
<1>6. \A s \in Shares : exports'[s] \in {saving[m], exports[s], seen[m].exports[s]}
  BY <1>2, <1>3
<1> QED
  BY <1>4, <1>5, <1>6

LEMMA TypeNext ==
    ASSUME TypeOK, [Next]_vars
    PROVE  TypeOK'
<1>1. ASSUME NEW m \in Mounts, Step(m) \/ Unmount(m) PROVE TypeOK'
  <2>1. Asks(m)
    BY <1>1, StepAsks
  <2>2. [rules |-> rules, exports |-> exports] \in Tables
    BY DEF TypeOK
  <2>3. want' \in [Mounts -> SUBSET Nodes]
    BY <2>1 DEF TypeOK, Asks
  <2>4. saving' \in [Mounts -> SUBSET Nodes]
    BY <2>1 DEF TypeOK, Asks
  <2>5. seen' \in [Mounts -> Tables]
    BY <2>1, <2>2 DEF TypeOK, Asks
  <2> QED
    BY <2>1, <2>3, <2>4, <2>5 DEF TypeOK, Asks
<1>2. ASSUME NEW m \in Mounts, SaveEnds(m) PROVE TypeOK'
  <2>1. pc' \in [Mounts -> Labels]
    BY <1>2 DEF SaveEnds, Goto, TypeOK, Labels
  <2>2. saving' \in [Mounts -> SUBSET Nodes] /\ seen' \in [Mounts -> Tables]
    BY <1>2, NoTablesIs DEF SaveEnds, TypeOK
  <2>3. [rules |-> rules', exports |-> exports'] \in Tables
    BY <1>2, SaveEndsIs DEF Tables
  <2> QED
    BY <1>2, <2>1, <2>2, <2>3 DEF SaveEnds, TypeOK
<1>3. ASSUME NEW n \in Nodes, NodeJoins(n) PROVE TypeOK'
  BY <1>3 DEF NodeJoins, dsmVars, TypeOK
<1>4. ASSUME NEW n \in Nodes, Crash(n) PROVE TypeOK'
  <2>1. want' \in [Mounts -> SUBSET Nodes]
    BY <1>4, Types DEF Crash
  <2>2. pc' \in [Mounts -> Labels] /\ force' \in [Mounts -> BOOLEAN]
    BY <1>4, Types DEF Crash, Before, Labels
  <2>3. crashes' \in 0..MaxCrashes
    BY <1>4, ConstantsAssumption DEF Crash, TypeOK
  <2> QED
    BY <1>4, <2>1, <2>2, <2>3 DEF Crash, dsmVars, TypeOK
<1>5. CASE UNCHANGED vars
  BY <1>5 DEF TypeOK, vars
<1> QED
  BY <1>1, <1>2, <1>3, <1>4, <1>5 DEF Next

-----------------------------------------------------------------------------
(* The nodes the cluster began with are asked for and let in.              *)

LEMMA AsksKeeps ==
    ASSUME IInv, NEW m \in Mounts, Asks(m)
    PROVE  FoundersAsked' /\ FoundersSeen' /\ FoundersAdmitted'
<1>1. TypeOK /\ FoundersAsked /\ FoundersSeen /\ FoundersAdmitted
  BY DEF IInv
<1>2. FoundersAsked'
  <2>1. FirstNodes \subseteq cluster'
    BY <1>1 DEF FoundersAsked, Asks
  <2>2. ASSUME NEW n \in Mounts PROVE Founders(want'[n])
    <3>1. want'[n] \in {want[n], {}, cluster}
      BY <1>1 DEF TypeOK, Asks
    <3> QED
      BY <1>1, <3>1 DEF FoundersAsked, Founders
  <2>3. ASSUME NEW n \in Mounts PROVE Founders(saving'[n])
    <3>1. saving'[n] \in {saving[n], want[n]}
      BY <1>1 DEF TypeOK, Asks
    <3> QED
      BY <1>1, <3>1 DEF FoundersAsked, Founders
  <2> QED
    BY <2>1, <2>2, <2>3 DEF FoundersAsked, Founders
<1>3. FoundersSeen'
  <2> SUFFICES ASSUME NEW n \in Mounts, NEW s \in Shares
               PROVE  Founders(seen'[n].rules[s]) /\ Founders(seen'[n].exports[s])
    BY DEF FoundersSeen, Founders
  <2>1. seen'[n] = seen[n] \/ seen'[n] = [rules |-> rules, exports |-> exports]
    BY <1>1 DEF TypeOK, Asks
  <2> QED
    BY <1>1, <2>1 DEF FoundersSeen, FoundersAdmitted, Founders
<1>4. FoundersAdmitted'
  BY <1>1 DEF FoundersAdmitted, Asks
<1> QED
  BY <1>2, <1>3, <1>4

LEMMA SaveEndsKeeps ==
    ASSUME IInv, NEW m \in Mounts, SaveEnds(m)
    PROVE  FoundersAsked' /\ FoundersSeen' /\ FoundersAdmitted'
<1>1. TypeOK /\ FoundersAsked /\ FoundersSeen /\ FoundersAdmitted
  BY DEF IInv
<1>2. /\ UNCHANGED <<cluster, want>>
      /\ saving' = [saving EXCEPT ![m] = {}] /\ seen' = [seen EXCEPT ![m] = NoTables]
  BY DEF SaveEnds
<1>3. FoundersAsked'
  BY <1>1, <1>2 DEF TypeOK, FoundersAsked, Founders
<1>4. FoundersSeen'
  <2> SUFFICES ASSUME NEW n \in Mounts, NEW s \in Shares
               PROVE  Founders(seen'[n].rules[s]) /\ Founders(seen'[n].exports[s])
    BY DEF FoundersSeen, Founders
  <2>1. seen'[n] = seen[n] \/ seen'[n] = NoTables
    BY <1>1, <1>2 DEF TypeOK
  <2> QED
    BY <1>1, <2>1, NoTablesIs DEF FoundersSeen, Founders
<1>5. ASSUME NEW s \in Shares PROVE Founders(rules'[s]) /\ Founders(exports'[s])
  <2>1. /\ rules'[s] \in {saving[m], rules[s], seen[m].rules[s]}
        /\ exports'[s] \in {saving[m], exports[s], seen[m].exports[s]}
    BY <1>1, SaveEndsIs
  <2> QED
    BY <1>1, <2>1 DEF FoundersAsked, FoundersSeen, FoundersAdmitted, Founders
<1> QED
  BY <1>3, <1>4, <1>5 DEF FoundersAdmitted, Founders

LEMMA ClusterStepKeeps ==
    ASSUME IInv, NEW n \in Nodes, NodeJoins(n) \/ Crash(n)
    PROVE  FoundersAsked' /\ FoundersSeen' /\ FoundersAdmitted'
<1>1. FoundersAsked /\ FoundersSeen /\ FoundersAdmitted
  BY DEF IInv
<1>2. cluster \subseteq cluster' /\ UNCHANGED <<rules, exports, saving, seen>>
  BY DEF NodeJoins, Crash, dsmVars
<1>3. \A m \in Mounts : want'[m] \in {want[m], {}}
  BY DEF NodeJoins, Crash
<1> QED
  BY <1>1, <1>2, <1>3 DEF FoundersAsked, FoundersSeen, FoundersAdmitted, Founders

LEMMA TypeInit == Init => TypeOK
<1> SUFFICES ASSUME Init PROVE TypeOK
  OBVIOUS
<1>1. pc \in [Mounts -> Labels]
  BY DEF Init, Labels
<1>2. rules \in [Shares -> SUBSET Nodes] /\ exports = rules
  BY ConstantsAssumption DEF Init
<1>3. [rules |-> rules, exports |-> exports] \in Tables
  BY <1>2 DEF Tables
<1> QED
  BY <1>1, <1>3, NoTablesIs, ConstantsAssumption DEF Init, TypeOK

LEMMA IInvInit == Init => IInv
<1> SUFFICES ASSUME Init PROVE IInv
  OBVIOUS
<1>1. FoundersAsked
  BY DEF Init, FoundersAsked, Founders
<1>2. FoundersSeen
  BY NoTablesIs DEF Init, FoundersSeen, Founders
<1>3. FoundersAdmitted
  BY DEF Init, FoundersAdmitted
<1> QED
  BY <1>1, <1>2, <1>3, TypeInit DEF IInv

LEMMA IInvNext ==
    ASSUME IInv, [Next]_vars
    PROVE  IInv'
<1> DEFINE Kept == FoundersAsked' /\ FoundersSeen' /\ FoundersAdmitted'
<1>1. TypeOK /\ TypeOK'
  BY TypeNext DEF IInv
<1>2. ASSUME NEW m \in Mounts, Step(m) \/ Unmount(m) PROVE Kept
  BY <1>1, <1>2, StepAsks, AsksKeeps
<1>3. ASSUME NEW m \in Mounts, SaveEnds(m) PROVE Kept
  BY <1>3, SaveEndsKeeps
<1>4. ASSUME NEW n \in Nodes, NodeJoins(n) \/ Crash(n) PROVE Kept
  BY <1>4, ClusterStepKeeps
<1>5. CASE UNCHANGED vars
  <2>1. FoundersAsked /\ FoundersSeen /\ FoundersAdmitted
    BY DEF IInv
  <2>2. UNCHANGED <<cluster, rules, exports, saving, seen, want>>
    BY <1>5 DEF vars, dsmVars
  <2> QED
    BY <1>1, <2>1, <2>2 DEF IInv, FoundersAsked, FoundersSeen, FoundersAdmitted, Founders
<1> QED
  BY <1>1, <1>2, <1>3, <1>4, <1>5 DEF Next, IInv

-----------------------------------------------------------------------------
(* What it shows.                                                          *)

\* Every variable keeps its type, nodes that join during a save included
\* (setNFSVolumePrivilege, NodePublishVolume).
THEOREM TypeCorrect == Spec => []TypeOK
<1>1. TypeOK /\ [Next]_vars => TypeOK'
  BY TypeNext
<1> QED
  BY <1>1, TypeInit, PTL DEF Spec

\* Whatever the saves of all nodes and shares write back, in whatever order and
\* however late, no saved rule and no export shuts out a node that was in the
\* cluster before they began, nodes that join during them included
\* (setNFSVolumePrivilege: "every node stages with the same rule set").
THEOREM NoFounderDenied == Spec => []FoundersAdmitted
<1>1. IInv /\ [Next]_vars => IInv'
  BY IInvNext
<1>2. IInv => FoundersAdmitted
  BY DEF IInv
<1> QED
  BY <1>1, <1>2, IInvInit, PTL DEF Spec
=============================================================================
