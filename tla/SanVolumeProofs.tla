-------------------------- MODULE SanVolumeProofs --------------------------
(* SanVolume keeps VolumeContract, hands out complete copies only and      *)
(* accounts for what it leaves behind, for every set of sizes and sources  *)
(* and every bound.                                                        *)
EXTENDS SanVolume, TLAPS

\* The steps of a creation, and of a deletion.
Creating == {"clone", "wait", "grow", "group", "groupGet", "map", "undoGroup", "undoUnit"}
Deleting == {"unitDelete", "unitCheck", "groupDelete", "groupCheck"}

\* What an id of 0 means, and that a group maps nothing but the unit.
IdInv ==
    /\ unit.id = 0 => unit = NoUnit
    /\ group.id = 0 => group = NoGroup
    /\ group.units \subseteq {unit.id} \ {0}

\* How far a call is agrees with the CO's view of the volume.
CreatingInv == co = "creating" =>
    pc \in Creating \cup {"idle", "reply"} /\ call.op = "create"
BoundInv == co = "bound" => pc = "idle" /\ Visible /\ unit.id = pv
DeletingInv == co = "deleting" =>
    /\ pc \in Deleting \cup {"idle", "reply"}
    /\ unit = NoUnit \/ (Visible /\ unit.id = pv)
    /\ pc # "idle" => call.op = "delete"
DeletedInv == co = "deleted" => pc = "idle" /\ unit = NoUnit
PhaseInv ==
    /\ CreatingInv /\ BoundInv /\ DeletingInv /\ DeletedInv
    /\ co # "creating" => pv # 0
    /\ pc = "idle" => call = NoCall

\* What a call has gathered is still true of the DSM.
CallInv ==
    /\ pc \in {"clone", "wait", "grow", "group", "groupGet", "map"} => ~Visible
    /\ pc = "clone" => call.madeUnit = 0 /\ call.madeGroup = 0
    /\ pc \in {"wait", "grow", "group", "groupGet", "map"} => unit # NoUnit
    /\ pc \in {"grow", "group", "groupGet", "map"} =>
         ~unit.copying /\ call.id = unit.id /\ call.size = unit.size
    /\ pc \in {"group", "groupGet", "map"} => unit.size >= request.size
    /\ pc \in {"groupGet", "map"} => group # NoGroup
    /\ pc = "reply" /\ call.op = "create" =>
         Visible /\ call.id = unit.id /\ unit.size = request.size
    /\ pc = "reply" /\ call.op = "delete" => unit = NoUnit
    /\ pc = "unitDelete" => Visible
    /\ pc \in {"groupDelete", "groupCheck"} => unit = NoUnit

\* What a call is going to undo is all that nobody has accounted for yet.
RollbackInv ==
    /\ pc \in Creating /\ unit # NoUnit => unit.id \in Accounted \cup {call.madeUnit}
    /\ pc \in Creating /\ group # NoGroup =>
         group.id \in Accounted \cup abandoned \cup {call.madeGroup}
    /\ pc = "undoUnit" /\ group # NoGroup => group.id \in Accounted \cup abandoned
    /\ pc = "reply" /\ unit = NoUnit /\ group # NoGroup =>
         group.id \in Accounted \cup abandoned

IInv ==
    /\ TypeOK /\ IdInv /\ PhaseInv /\ CallInv /\ RollbackInv
    /\ VisibleIsComplete /\ LeftoversAccounted

-----------------------------------------------------------------------------
(* What the steps are made of.                                             *)

\* A new uuid is one nothing and nobody knows.
LEMMA NewIdFree ==
    ASSUME TypeOK, CanMake
    PROVE  /\ NewId \in Ids /\ NewId # 0
           /\ NewId # unit.id /\ NewId # group.id /\ NewId # pv
           /\ NewId \notin group.units /\ NewId \notin Accounted
<1>1. NewId \in FreeIds
  BY DEF CanMake, NewId
<1>2. FreeIds \subseteq 1..MaxObjects
  BY DEF FreeIds
<1>3. NewId \in Ids /\ NewId # 0
  BY <1>1, <1>2, ConstantsAssumption DEF Ids
<1> QED
  BY <1>1, <1>3, Zenon DEF FreeIds, Accounted

\* The types of the parts.
LEMMA FieldTypes ==
    ASSUME TypeOK
    PROVE  /\ request.size \in Sizes /\ request.size \in Nat /\ request.size # 0
           /\ request.source \in Sources /\ request.source \in Nat
           /\ request.protocol \in Protocols
           /\ unit.id \in Ids /\ unit.size \in Amounts /\ unit.size \in Nat
           /\ unit.copying \in BOOLEAN
           /\ group.id \in Ids /\ group.units \subseteq Ids
           /\ call.op \in {"create", "delete"} /\ call.id \in Ids
           /\ call.size \in Amounts /\ call.group \in Ids
           /\ call.madeUnit \in Ids /\ call.madeGroup \in Ids
<1>1. /\ request.size \in Sizes /\ request.source \in Sources
      /\ request.protocol \in Protocols
  BY DEF TypeOK
<1>2. /\ unit.id \in Ids /\ unit.size \in Amounts /\ unit.copying \in BOOLEAN
      /\ group.id \in Ids /\ group.units \subseteq Ids
  BY DEF TypeOK, Unit, Group
<1>3. /\ call.op \in {"create", "delete"} /\ call.id \in Ids
      /\ call.size \in Amounts /\ call.group \in Ids
      /\ call.madeUnit \in Ids /\ call.madeGroup \in Ids
  BY DEF TypeOK, Call
<1>4. /\ request.size \in Nat /\ request.size # 0
      /\ request.source \in Nat
  BY <1>1, ConstantsAssumption
<1>5. Amounts \subseteq Nat
  BY ConstantsAssumption DEF Amounts
<1> QED
  BY <1>1, <1>2, <1>3, <1>4, <1>5

\* The records a step builds.
LEMMA RecordTypes ==
    /\ 0 \in Ids /\ 0 \in Amounts /\ Sizes \subseteq Amounts /\ Sources \subseteq Amounts
    /\ NoUnit \in Unit /\ NoGroup \in Group /\ NoCall \in Call
    /\ \A i \in Ids, s \in Amounts, b \in BOOLEAN :
         [id |-> i, size |-> s, copying |-> b] \in Unit
    /\ \A i \in Ids, u \in SUBSET Ids : [id |-> i, units |-> u] \in Group
<1>1. 0 \in Ids
  BY ConstantsAssumption DEF Ids
<1> QED
  BY <1>1 DEF Unit, Group, Call, NoUnit, NoGroup, NoCall, Amounts

\* What the changes to what a call has gathered are.
LEMMA CallChanges ==
    ASSUME TypeOK, NEW i \in Ids, NEW s \in Amounts
    PROVE  /\ LET c == WithUnit(i, s) IN
              /\ c \in Call /\ c.op = call.op /\ c.id = i /\ c.size = s
              /\ c.madeUnit = call.madeUnit /\ c.madeGroup = call.madeGroup
           /\ LET c == [call EXCEPT !.size = s] IN
              /\ c \in Call /\ c.op = call.op /\ c.id = call.id /\ c.size = s
              /\ c.madeUnit = call.madeUnit /\ c.madeGroup = call.madeGroup
           /\ LET c == [call EXCEPT !.madeUnit = i] IN
              /\ c \in Call /\ c.op = call.op
              /\ c.madeUnit = i /\ c.madeGroup = call.madeGroup
           /\ LET c == WithGroup(i) IN
              /\ c \in Call /\ c.op = call.op /\ c.id = call.id /\ c.size = call.size
              /\ c.madeUnit = call.madeUnit /\ c.madeGroup = i
           /\ LET c == [call EXCEPT !.group = i] IN
              /\ c \in Call /\ c.op = call.op /\ c.id = call.id /\ c.size = call.size
              /\ c.madeUnit = call.madeUnit /\ c.madeGroup = call.madeGroup
<1>1. call \in Call
  BY DEF TypeOK
<1> QED
  BY <1>1 DEF Call, WithUnit, WithGroup

\* What the changes to the unit and the group are.
LEMMA DsmChanges ==
    ASSUME TypeOK
    PROVE  /\ \A s \in Amounts :
                LET u == [unit EXCEPT !.size = s] IN
                /\ u \in Unit /\ u.id = unit.id /\ u.size = s /\ u.copying = unit.copying
           /\ LET u == [unit EXCEPT !.copying = FALSE] IN
              /\ u \in Unit /\ u.id = unit.id /\ u.size = unit.size /\ u.copying = FALSE
           /\ \A U \in SUBSET Ids :
                LET g == [group EXCEPT !.units = U] IN
                /\ g \in Group /\ g.id = group.id /\ g.units = U
<1>1. unit \in Unit /\ group \in Group
  BY DEF TypeOK
<1> QED
  BY <1>1 DEF Unit, Group

\* The records a step makes.
LEMMA NewRecords ==
    ASSUME TypeOK, CanMake
    PROVE  /\ NewUnit \in Unit /\ NewUnit.id = NewId
           /\ NewUnit.size = (IF request.source = 0 THEN request.size ELSE request.source)
           /\ LET g == [id |-> NewId, units |-> {}] IN
              g \in Group /\ g.id = NewId /\ g.units = {}
<1>1. NewId \in Ids
  BY NewIdFree
<1> QED
  BY <1>1, FieldTypes, RecordTypes DEF NewUnit, Unit, Group

\* The fields of what stands for nothing.
LEMMA NothingFields ==
    /\ NoUnit.id = 0 /\ NoUnit.size = 0 /\ NoUnit.copying = FALSE
    /\ NoGroup.id = 0 /\ NoGroup.units = {}
    /\ NoCall.op = "create" /\ NoCall.id = 0 /\ NoCall.size = 0
    /\ NoCall.madeUnit = 0 /\ NoCall.madeGroup = 0
    /\ LET c == [NoCall EXCEPT !.op = "delete"] IN c \in Call /\ c.op = "delete"
  BY RecordTypes DEF NoUnit, NoGroup, NoCall, Call


-----------------------------------------------------------------------------
(* The steps, field by field: what a step makes of a part of the state.    *)

CallStep(p, i, s, u, g) ==
    /\ pc' = p /\ call' \in Call /\ call'.op = call.op /\ call'.id = i /\ call'.size = s
    /\ call'.madeUnit = u /\ call'.madeGroup = g

UnitStep(i, s, c) ==
    unit' \in Unit /\ unit'.id = i /\ unit'.size = s /\ unit'.copying = c

GroupStep(i, U) ==
    group' \in Group /\ group'.id = i /\ group'.units = U

UndoStep ==
    \/ pc' = "undoGroup" /\ call' = call /\ call.madeGroup # 0
    \/ pc' = "undoUnit" /\ call' = call /\ call.madeGroup = 0 /\ call.madeUnit # 0
    \/ pc' = "idle" /\ call' = NoCall /\ call.madeGroup = 0 /\ call.madeUnit = 0

\* A failed creation undoes what it has made, or just ends.
LEMMA UndoIs == Undo => UndoStep
  BY DEF Undo, UndoCaller, Goto, Fail, UndoStep

\* A request that fails is counted.
LEMMA FaultIs == TypeOK /\ (Fault \/ NoFault) => faults' \in 0..MaxFaults
  BY ConstantsAssumption DEF TypeOK, Fault, NoFault

\* CreateVolume answers with the unit, or fails.
LEMMA RespondIs ==
    ASSUME TypeOK, NEW i \in Ids, NEW s \in Amounts, RespondVolume(i, s)
    PROVE  \/ s = request.size /\ CallStep("reply", i, s, call.madeUnit, call.madeGroup)
           \/ s # request.size /\ pc' = "idle" /\ call' = NoCall
<1>1. CASE s = request.size
  <2>1. pc' = "reply" /\ call' = WithUnit(i, s)
    BY <1>1 DEF RespondVolume, Got
  <2> QED
    BY <1>1, <2>1, CallChanges DEF CallStep
<1>2. CASE s # request.size
  BY <1>2 DEF RespondVolume, Fail
<1> QED
  BY <1>1, <1>2

\* A unit that is deleted leaves its group with nothing.
LEMMA RemoveUnitIs ==
    ASSUME TypeOK, IdInv, RemoveUnit
    PROVE  /\ unit' = NoUnit
           /\ GroupStep(group.id, {})
           /\ group = NoGroup => group' = NoGroup
<1>1. group.units \ {unit.id} = {} /\ {} \in SUBSET Ids
  BY DEF IdInv
<1>2. group' = [group EXCEPT !.units = {}]
  BY <1>1 DEF RemoveUnit
<1>3. [NoGroup EXCEPT !.units = {}] = NoGroup
  BY DEF NoGroup
<1> QED
  BY <1>1, <1>2, <1>3, DsmChanges DEF RemoveUnit, GroupStep

\* CreateVolume finds the volume, whose capacity fits or not, or starts to make it.
LEMMA CreateVolumeIs ==
    ASSUME TypeOK, CreateVolume
    PROVE  /\ pc = "idle" /\ co = "creating"
           /\ UNCHANGED <<request, unit, group, co, pv, faults, crashes, logged, unanswered, abandoned>>
           /\ \/ /\ Visible /\ unit.size = request.size
                 /\ CallStep("reply", unit.id, unit.size, call.madeUnit, call.madeGroup)
              \/ Visible /\ unit.size # request.size /\ pc' = "idle" /\ call' = NoCall
              \/ ~Visible /\ pc' = "clone" /\ call' = call
<1>1. unit.id \in Ids /\ unit.size \in Amounts
  BY FieldTypes
<1> QED
  BY <1>1, RespondIs DEF CreateVolume, Goto, dsmVars, coVars, ledger

\* A unit is made, its answer arriving or not, or is there already, or the request fails.
LEMMA CloneIs ==
    ASSUME TypeOK, Clone
    PROVE  /\ pc = "clone"
           /\ UNCHANGED <<request, group, co, pv, crashes, logged, abandoned>>
           /\ faults' \in 0..MaxFaults
           /\ \/ /\ unit = NoUnit /\ CanMake /\ unit' = NewUnit
                 /\ CallStep("wait", call.id, call.size, NewId, call.madeGroup)
                 /\ UNCHANGED unanswered
              \/ /\ unit # NoUnit /\ pc' = "wait"
                 /\ UNCHANGED <<unit, call, unanswered>>
              \/ /\ pc' = "idle" /\ call' = NoCall
                 /\ UNCHANGED <<unit, unanswered>>
              \/ /\ unit = NoUnit /\ CanMake /\ unit' = NewUnit
                 /\ unanswered' = unanswered \cup {NewId}
                 /\ pc' = "idle" /\ call' = NoCall
<1>1. CASE AddUnit /\ Got("wait", [call EXCEPT !.madeUnit = NewId])
            /\ NoFault /\ UNCHANGED unanswered
  <2>1. CanMake /\ NewId \in Ids /\ 0 \in Amounts
    BY <1>1, NewIdFree, RecordTypes DEF AddUnit
  <2>2. call \in Call
    BY DEF TypeOK
  <2>3. CallStep("wait", call.id, call.size, NewId, call.madeGroup)
    BY <1>1, <2>1, <2>2 DEF Got, CallStep, Call
  <2> QED
    BY <1>1, <2>3, FaultIs DEF Clone, AddUnit, coVars
<1>2. CASE ~(AddUnit /\ Got("wait", [call EXCEPT !.madeUnit = NewId])
            /\ NoFault /\ UNCHANGED unanswered)
  BY <1>2, FaultIs DEF Clone, AddUnit, Goto, Fail, dsmVars, coVars
<1> QED
  BY <1>1, <1>2

\* The copy has ended and the call knows the unit, or the wait failed.
LEMMA WaitIs ==
    ASSUME TypeOK, Wait
    PROVE  /\ pc = "wait"
           /\ UNCHANGED <<request, unit, group, co, pv, crashes, logged, unanswered, abandoned>>
           /\ faults' \in 0..MaxFaults
           /\ \/ /\ ~unit.copying
                 /\ CallStep(IF request.size > unit.size THEN "grow" ELSE "group",
                             unit.id, unit.size, call.madeUnit, call.madeGroup)
              \/ UndoStep
<1>1. unit.id \in Ids /\ unit.size \in Amounts
  BY FieldTypes
<1>2. CASE ~unit.copying /\ Got(IF request.size > unit.size THEN "grow" ELSE "group",
                                WithUnit(unit.id, unit.size)) /\ NoFault
  BY <1>1, <1>2, CallChanges, FaultIs DEF Wait, Got, CallStep, dsmVars, coVars,
     ledger
<1>3. CASE Undo /\ Fault
  BY <1>3, UndoIs, FaultIs DEF Wait, dsmVars, coVars, ledger
<1> QED
  BY <1>2, <1>3 DEF Wait

\* The unit is as large as asked for, or the call undoes what it made, or both.
LEMMA GrowIs ==
    ASSUME TypeOK, Grow
    PROVE  /\ pc = "grow"
           /\ UNCHANGED <<request, group, co, pv, crashes, logged, unanswered, abandoned>>
           /\ faults' \in 0..MaxFaults
           /\ \/ /\ UnitStep(unit.id, request.size, unit.copying)
                 /\ CallStep("group", call.id, request.size, call.madeUnit, call.madeGroup)
              \/ UndoStep /\ UNCHANGED unit
              \/ UndoStep /\ UnitStep(unit.id, request.size, unit.copying)
<1>1. request.size \in Amounts /\ 0 \in Ids
  BY FieldTypes, RecordTypes
<1>2. unit' = [unit EXCEPT !.size = request.size] =>
         UnitStep(unit.id, request.size, unit.copying)
  BY <1>1, DsmChanges DEF UnitStep
<1>3. Got("group", [call EXCEPT !.size = request.size]) =>
         CallStep("group", call.id, request.size, call.madeUnit, call.madeGroup)
  <2>1. call \in Call
    BY DEF TypeOK
  <2> QED
    BY <1>1, <2>1 DEF Got, CallStep, Call
<1> QED
  BY <1>2, <1>3, UndoIs, FaultIs DEF Grow, coVars, ledger

\* A group is made, its answer arriving or not, or is there already, or the request fails.
LEMMA GroupCreateIs ==
    ASSUME TypeOK, GroupCreate
    PROVE  /\ pc = "group"
           /\ UNCHANGED <<request, unit, co, pv, crashes, logged, abandoned>>
           /\ faults' \in 0..MaxFaults
           /\ \/ /\ group = NoGroup /\ CanMake /\ GroupStep(NewId, {})
                 /\ CallStep("groupGet", call.id, call.size, call.madeUnit, NewId)
                 /\ UNCHANGED unanswered
              \/ /\ group # NoGroup
                 /\ CallStep("groupGet", call.id, call.size, call.madeUnit, call.madeGroup)
                 /\ UNCHANGED <<group, unanswered>>
              \/ UndoStep /\ UNCHANGED <<group, unanswered>>
              \/ /\ group = NoGroup /\ CanMake /\ GroupStep(NewId, {})
                 /\ unanswered' = unanswered \cup {NewId}
                 /\ UndoStep
<1>1. group.id \in Ids /\ 0 \in Ids /\ 0 \in Amounts
  BY FieldTypes, RecordTypes
<1>2. AddGroup => group = NoGroup /\ CanMake /\ GroupStep(NewId, {}) /\ UNCHANGED unit
  BY NewRecords DEF AddGroup, GroupStep
<1>3. AddGroup /\ Got("groupGet", WithGroup(NewId)) =>
         CallStep("groupGet", call.id, call.size, call.madeUnit, NewId)
  <2> SUFFICES ASSUME AddGroup, Got("groupGet", WithGroup(NewId))
               PROVE  CallStep("groupGet", call.id, call.size, call.madeUnit, NewId)
    OBVIOUS
  <2>1. NewId \in Ids
    BY <1>2, NewIdFree
  <2>2. LET c == WithGroup(NewId) IN
        /\ c \in Call /\ c.op = call.op /\ c.id = call.id /\ c.size = call.size
        /\ c.madeUnit = call.madeUnit /\ c.madeGroup = NewId
    BY <1>1, <2>1, CallChanges, Zenon
  <2>3. pc' = "groupGet" /\ call' = WithGroup(NewId)
    BY DEF Got
  <2> QED
    BY <2>2, <2>3, Zenon DEF CallStep
<1>4. ASSUME NEW i \in Ids, Got("groupGet", [call EXCEPT !.group = i])
      PROVE  CallStep("groupGet", call.id, call.size, call.madeUnit, call.madeGroup)
  BY <1>1, <1>4, CallChanges DEF Got, CallStep
<1>5. (IF request.protocol = "iscsi" THEN group.id ELSE 0) \in Ids
  BY <1>1
<1> QED
  BY <1>2, <1>3, <1>4, <1>5, UndoIs, FaultIs DEF GroupCreate, dsmVars, coVars

\* The group maps the unit and the call answers, or it undoes what it made, or both.
LEMMA MapUnitIs ==
    ASSUME TypeOK, IdInv, MapUnit, call.id = unit.id
    PROVE  /\ pc = "map"
           /\ UNCHANGED <<request, unit, co, pv, crashes, logged, unanswered, abandoned>>
           /\ faults' \in 0..MaxFaults
           /\ \/ /\ GroupStep(group.id, {unit.id})
                 /\ \/ /\ call.size = request.size
                       /\ CallStep("reply", call.id, call.size, call.madeUnit, call.madeGroup)
                    \/ call.size # request.size /\ pc' = "idle" /\ call' = NoCall
              \/ UndoStep /\ UNCHANGED group
              \/ GroupStep(group.id, {unit.id}) /\ UndoStep
<1>1. call.id \in Ids /\ call.size \in Amounts
  BY FieldTypes
<1>2. AddMapping => GroupStep(group.id, {unit.id}) /\ UNCHANGED unit
  <2>1. (IF request.protocol = "iscsi" THEN group.units \cup {call.id} ELSE {call.id}) = {unit.id}
    BY DEF IdInv
  <2>2. {unit.id} \in SUBSET Ids
    BY FieldTypes
  <2>3. AddMapping => group' = [group EXCEPT !.units = {unit.id}] /\ UNCHANGED unit
    BY <2>1 DEF AddMapping
  <2> QED
    BY <2>2, <2>3, DsmChanges DEF GroupStep
<1>3. RespondVolume(call.id, call.size) =>
         \/ /\ call.size = request.size
            /\ CallStep("reply", call.id, call.size, call.madeUnit, call.madeGroup)
         \/ call.size # request.size /\ pc' = "idle" /\ call' = NoCall
  BY <1>1, RespondIs
<1> QED
  BY <1>2, <1>3, UndoIs, FaultIs DEF MapUnit, dsmVars, coVars, ledger

\* The unit is deleted, or a log line names it, or both.
LEMMA UndoUnitIs ==
    ASSUME TypeOK, IdInv, UndoUnit
    PROVE  /\ pc = "undoUnit" /\ pc' = "idle" /\ call' = NoCall
           /\ UNCHANGED <<request, co, pv, crashes, unanswered, abandoned>>
           /\ faults' \in 0..MaxFaults
           /\ \/ /\ UNCHANGED <<unit, group>>
                 /\ logged' = logged \cup {call.madeUnit}
              \/ /\ unit' = NoUnit /\ GroupStep(group.id, {})
                 /\ group = NoGroup => group' = NoGroup
                 /\ logged' = logged \/ logged' = logged \cup {call.madeUnit}
  BY RemoveUnitIs, FaultIs DEF UndoUnit, Fail, dsmVars, coVars

\* The unit is deleted and the answer arrives or not, or it is not deleted.
LEMMA UnitDeleteIs ==
    ASSUME TypeOK, IdInv, UnitDelete
    PROVE  /\ pc = "unitDelete"
           /\ UNCHANGED <<request, call, co, pv, crashes, logged, unanswered, abandoned>>
           /\ faults' \in 0..MaxFaults
           /\ \/ pc' = "unitCheck" /\ UNCHANGED <<unit, group>>
              \/ /\ unit' = NoUnit /\ GroupStep(group.id, {})
                 /\ group = NoGroup => group' = NoGroup
                 /\ pc' \in {"groupDelete", "unitCheck"}
  BY RemoveUnitIs, FaultIs DEF UnitDelete, Goto, dsmVars, coVars, ledger

-----------------------------------------------------------------------------
(* Every step keeps the invariant.                                         *)

LEMMA CreateVolumeKeeps == IInv /\ CreateVolume => IInv'
<1> SUFFICES ASSUME IInv, CreateVolume PROVE IInv'
  OBVIOUS
<1>0. TypeOK
  BY DEF IInv
<1>1. TypeOK'
  BY <1>0, CreateVolumeIs, RecordTypes, FieldTypes DEF TypeOK, Labels, CallStep
<1> USE FieldTypes, NothingFields DEF IInv, CallInv, CallStep
<1>2. IdInv'
  BY <1>0, CreateVolumeIs, RecordTypes DEF IdInv, Visible
<1>3. PhaseInv'
  BY <1>0, CreateVolumeIs, RecordTypes DEF IdInv, PhaseInv, CreatingInv,
     BoundInv, DeletingInv, DeletedInv, Visible, Creating, Deleting
<1>4. CallInv'
  BY <1>0, CreateVolumeIs, RecordTypes DEF IdInv, PhaseInv, CreatingInv,
     BoundInv, DeletingInv, DeletedInv, Visible, Creating, Deleting
<1>5. RollbackInv'
  BY <1>0, CreateVolumeIs, RecordTypes DEF IdInv, PhaseInv, CreatingInv,
     DeletingInv, RollbackInv, LeftoversAccounted, Accounted, Visible, Creating,
     Deleting
<1>6. VisibleIsComplete'
  BY <1>0, CreateVolumeIs, RecordTypes DEF IdInv, VisibleIsComplete, Visible
<1>7. LeftoversAccounted'
  BY <1>0, CreateVolumeIs, RecordTypes DEF IdInv, PhaseInv, CreatingInv,
     DeletingInv, DeletedInv, BoundInv, RollbackInv, LeftoversAccounted,
     Accounted, Visible, Creating, Deleting
<1> QED
  BY <1>1, <1>2, <1>3, <1>4, <1>5, <1>6, <1>7

LEMMA CloneKeeps == IInv /\ Clone => IInv'
<1> SUFFICES ASSUME IInv, Clone PROVE IInv'
  OBVIOUS
<1>0. TypeOK
  BY DEF IInv
<1>1. TypeOK'
  BY <1>0, CloneIs, NewIdFree, NewRecords, RecordTypes, FieldTypes DEF TypeOK,
     Labels, CallStep
<1> USE FieldTypes, NothingFields DEF IInv, CallInv, CallStep
<1>2. IdInv'
  BY <1>0, CloneIs, NewIdFree, NewRecords, RecordTypes DEF IdInv, Visible
<1>3. PhaseInv'
  BY <1>0, CloneIs, NewIdFree, NewRecords, RecordTypes DEF IdInv, PhaseInv,
     CreatingInv, BoundInv, DeletingInv, DeletedInv, Visible, Creating, Deleting
<1>4. CallInv'
  BY <1>0, CloneIs, NewIdFree, NewRecords, RecordTypes DEF IdInv, PhaseInv,
     CreatingInv, BoundInv, DeletingInv, DeletedInv, Visible, Creating, Deleting
<1>5. RollbackInv'
  BY <1>0, CloneIs, NewIdFree, NewRecords, RecordTypes DEF IdInv, PhaseInv,
     CreatingInv, DeletingInv, RollbackInv, LeftoversAccounted, Accounted,
     Visible, Creating, Deleting
<1>6. VisibleIsComplete'
  BY <1>0, CloneIs, NewIdFree, NewRecords, RecordTypes DEF IdInv,
     VisibleIsComplete, Visible
<1>7. LeftoversAccounted'
  BY <1>0, CloneIs, NewIdFree, NewRecords, RecordTypes DEF IdInv, PhaseInv,
     CreatingInv, DeletingInv, DeletedInv, BoundInv, RollbackInv,
     LeftoversAccounted, Accounted, Visible, Creating, Deleting
<1> QED
  BY <1>1, <1>2, <1>3, <1>4, <1>5, <1>6, <1>7

LEMMA CopyEndsKeeps == IInv /\ CopyEnds => IInv'
<1> SUFFICES ASSUME IInv, CopyEnds PROVE IInv'
  OBVIOUS
<1> USE DsmChanges, FieldTypes, RecordTypes, NothingFields DEF IInv, CopyEnds,
   coVars, ledger, CallInv
<1>1. TypeOK'
  BY ConstantsAssumption DEF TypeOK, Labels
<1>2. IdInv'
  BY DEF TypeOK, IdInv, Visible
<1>3. PhaseInv'
  BY DEF TypeOK, IdInv, PhaseInv, CreatingInv, BoundInv, DeletingInv,
     DeletedInv, Visible, Creating, Deleting
<1>4. CallInv'
  BY DEF TypeOK, IdInv, PhaseInv, CreatingInv, BoundInv, DeletingInv,
     DeletedInv, Visible, Creating, Deleting
<1>5. RollbackInv'
  BY DEF TypeOK, IdInv, PhaseInv, CreatingInv, DeletingInv, RollbackInv,
     LeftoversAccounted, Accounted, Visible, Creating, Deleting
<1>6. VisibleIsComplete'
  BY DEF TypeOK, IdInv, VisibleIsComplete, Visible
<1>7. LeftoversAccounted'
  BY DEF TypeOK, IdInv, PhaseInv, CreatingInv, DeletingInv, DeletedInv,
     BoundInv, RollbackInv, LeftoversAccounted, Accounted, Visible, Creating,
     Deleting
<1> QED
  BY <1>1, <1>2, <1>3, <1>4, <1>5, <1>6, <1>7


LEMMA WaitKeeps == IInv /\ Wait => IInv'
<1> SUFFICES ASSUME IInv, Wait PROVE IInv'
  OBVIOUS
<1>0. TypeOK
  BY DEF IInv
<1>1. TypeOK'
  BY <1>0, WaitIs, RecordTypes, FieldTypes DEF TypeOK, Labels, CallStep, UndoStep
<1> USE FieldTypes, NothingFields DEF IInv, CallInv, CallStep, UndoStep
<1>2. IdInv'
  BY <1>0, WaitIs, RecordTypes DEF IdInv, Visible
<1>3. PhaseInv'
  BY <1>0, WaitIs, RecordTypes DEF IdInv, PhaseInv, CreatingInv, BoundInv,
     DeletingInv, DeletedInv, Visible, Creating, Deleting
<1>4. CallInv'
  BY <1>0, WaitIs, RecordTypes DEF IdInv, PhaseInv, CreatingInv, BoundInv,
     DeletingInv, DeletedInv, Visible, Creating, Deleting
<1>5. RollbackInv'
  BY <1>0, WaitIs, RecordTypes DEF IdInv, PhaseInv, CreatingInv, DeletingInv,
     RollbackInv, LeftoversAccounted, Accounted, Visible, Creating, Deleting
<1>6. VisibleIsComplete'
  BY <1>0, WaitIs, RecordTypes DEF IdInv, VisibleIsComplete, Visible
<1>7. LeftoversAccounted'
  BY <1>0, WaitIs, RecordTypes DEF IdInv, PhaseInv, CreatingInv, DeletingInv,
     DeletedInv, BoundInv, RollbackInv, LeftoversAccounted, Accounted, Visible,
     Creating, Deleting
<1> QED
  BY <1>1, <1>2, <1>3, <1>4, <1>5, <1>6, <1>7

LEMMA GrowKeeps == IInv /\ Grow => IInv'
<1> SUFFICES ASSUME IInv, Grow PROVE IInv'
  OBVIOUS
<1>0. TypeOK
  BY DEF IInv
<1>1. TypeOK'
  BY <1>0, GrowIs, RecordTypes, FieldTypes DEF TypeOK, Labels, CallStep,
     UndoStep, UnitStep
<1> USE FieldTypes, NothingFields DEF IInv, CallInv, CallStep, UndoStep
<1>2. IdInv'
  BY <1>0, GrowIs, RecordTypes DEF IdInv, Visible, UnitStep
<1>3. PhaseInv'
  BY <1>0, GrowIs, RecordTypes DEF IdInv, PhaseInv, CreatingInv, BoundInv,
     DeletingInv, DeletedInv, Visible, Creating, Deleting, UnitStep
<1>4. CallInv'
  BY <1>0, GrowIs, RecordTypes DEF IdInv, PhaseInv, CreatingInv, BoundInv,
     DeletingInv, DeletedInv, Visible, Creating, Deleting, UnitStep
<1>5. RollbackInv'
  BY <1>0, GrowIs, RecordTypes DEF IdInv, PhaseInv, CreatingInv, DeletingInv,
     RollbackInv, LeftoversAccounted, Accounted, Visible, Creating, Deleting,
     UnitStep
<1>6. VisibleIsComplete'
  BY <1>0, GrowIs, RecordTypes DEF IdInv, VisibleIsComplete, Visible, UnitStep
<1>7. LeftoversAccounted'
  BY <1>0, GrowIs, RecordTypes DEF IdInv, PhaseInv, CreatingInv, DeletingInv,
     DeletedInv, BoundInv, RollbackInv, LeftoversAccounted, Accounted, Visible,
     Creating, Deleting, UnitStep
<1> QED
  BY <1>1, <1>2, <1>3, <1>4, <1>5, <1>6, <1>7

LEMMA GroupCreateKeeps == IInv /\ GroupCreate => IInv'
<1> SUFFICES ASSUME IInv, GroupCreate PROVE IInv'
  OBVIOUS
<1>0. TypeOK
  BY DEF IInv
<1>1. TypeOK'
  BY <1>0, GroupCreateIs, NewIdFree, RecordTypes, FieldTypes DEF TypeOK, Labels,
     CallStep, UndoStep, GroupStep
<1> USE FieldTypes, NothingFields DEF IInv, CallInv, CallStep, UndoStep
<1>2. IdInv'
  BY <1>0, GroupCreateIs, NewIdFree, RecordTypes DEF IdInv, Visible, GroupStep
<1>3. PhaseInv'
  BY <1>0, GroupCreateIs, NewIdFree, RecordTypes DEF IdInv, PhaseInv,
     CreatingInv, BoundInv, DeletingInv, DeletedInv, Visible, Creating,
     Deleting, GroupStep
<1>4. CallInv'
  BY <1>0, GroupCreateIs, NewIdFree, RecordTypes DEF IdInv, PhaseInv,
     CreatingInv, BoundInv, DeletingInv, DeletedInv, Visible, Creating,
     Deleting, GroupStep
<1>5. RollbackInv'
  BY <1>0, GroupCreateIs, NewIdFree, RecordTypes DEF IdInv, PhaseInv,
     CreatingInv, DeletingInv, RollbackInv, LeftoversAccounted, Accounted,
     Visible, Creating, Deleting, GroupStep
<1>6. VisibleIsComplete'
  BY <1>0, GroupCreateIs, NewIdFree, RecordTypes DEF IdInv, VisibleIsComplete,
     Visible, GroupStep
<1>7. LeftoversAccounted'
  BY <1>0, GroupCreateIs, NewIdFree, RecordTypes DEF IdInv, PhaseInv,
     CreatingInv, DeletingInv, DeletedInv, BoundInv, RollbackInv,
     LeftoversAccounted, Accounted, Visible, Creating, Deleting, GroupStep
<1> QED
  BY <1>1, <1>2, <1>3, <1>4, <1>5, <1>6, <1>7

LEMMA GroupGetKeeps == IInv /\ GroupGet => IInv'
<1> SUFFICES ASSUME IInv, GroupGet PROVE IInv'
  OBVIOUS
<1> USE FieldTypes, RecordTypes, NothingFields DEF IInv, GroupGet, Undo,
   UndoCaller, Goto, Fail, Fault, NoFault, dsmVars, coVars, ledger, CallInv
<1>1. TypeOK'
  BY ConstantsAssumption DEF TypeOK, Labels
<1>2. IdInv'
  BY DEF TypeOK, IdInv, Visible
<1>3. PhaseInv'
  BY DEF TypeOK, IdInv, PhaseInv, CreatingInv, BoundInv, DeletingInv,
     DeletedInv, Visible, Creating, Deleting
<1>4. CallInv'
  BY DEF TypeOK, IdInv, PhaseInv, CreatingInv, BoundInv, DeletingInv,
     DeletedInv, Visible, Creating, Deleting
<1>5. RollbackInv'
  BY DEF TypeOK, IdInv, PhaseInv, CreatingInv, DeletingInv, RollbackInv,
     LeftoversAccounted, Accounted, Visible, Creating, Deleting
<1>6. VisibleIsComplete'
  BY DEF TypeOK, IdInv, VisibleIsComplete, Visible
<1>7. LeftoversAccounted'
  BY DEF TypeOK, IdInv, PhaseInv, CreatingInv, DeletingInv, DeletedInv,
     BoundInv, RollbackInv, LeftoversAccounted, Accounted, Visible, Creating,
     Deleting
<1> QED
  BY <1>1, <1>2, <1>3, <1>4, <1>5, <1>6, <1>7


LEMMA MapUnitKeeps == IInv /\ MapUnit => IInv'
<1> SUFFICES ASSUME IInv, MapUnit PROVE IInv'
  OBVIOUS
<1>0. TypeOK
  BY DEF IInv
<1>s. IdInv /\ call.id = unit.id /\ call.size = unit.size /\ unit # NoUnit
  BY DEF IInv, CallInv, MapUnit
<1>1. TypeOK'
  BY <1>0, <1>s, MapUnitIs, RecordTypes, FieldTypes DEF TypeOK, Labels,
     CallStep, UndoStep, GroupStep
<1> USE FieldTypes, NothingFields DEF IInv, CallInv, CallStep, UndoStep
<1>2. IdInv'
  BY <1>0, <1>s, MapUnitIs, RecordTypes DEF IdInv, Visible, GroupStep
<1>3. PhaseInv'
  BY <1>0, <1>s, MapUnitIs, RecordTypes DEF IdInv, PhaseInv, CreatingInv,
     BoundInv, DeletingInv, DeletedInv, Visible, Creating, Deleting, GroupStep
<1>4. CallInv'
  <2>1. call.op = "create"
    BY <1>0, MapUnitIs, <1>s DEF PhaseInv, CreatingInv, BoundInv, DeletingInv,
       DeletedInv, TypeOK, Deleting
  <2>2. CASE UndoStep
    BY <1>s, MapUnitIs, <2>2
  <2>3. CASE ~UndoStep
    BY <1>0, <1>s, MapUnitIs, <2>1, <2>3 DEF Visible, GroupStep
  <2> QED
    BY <2>2, <2>3
\*  UnitStep, GroupStep
<1>5. RollbackInv'
  BY <1>0, <1>s, MapUnitIs, RecordTypes DEF IdInv, PhaseInv, CreatingInv,
     DeletingInv, RollbackInv, LeftoversAccounted, Accounted, Visible, Creating,
     Deleting, GroupStep
<1>6. VisibleIsComplete'
  BY <1>0, <1>s, MapUnitIs, RecordTypes DEF IdInv, VisibleIsComplete, Visible,
     GroupStep
<1>7. LeftoversAccounted'
  BY <1>0, <1>s, MapUnitIs, RecordTypes DEF IdInv, PhaseInv, CreatingInv,
     DeletingInv, DeletedInv, BoundInv, RollbackInv, LeftoversAccounted,
     Accounted, Visible, Creating, Deleting, GroupStep
<1> QED
  BY <1>1, <1>2, <1>3, <1>4, <1>5, <1>6, <1>7

LEMMA UndoGroupKeeps == IInv /\ UndoGroup => IInv'
<1> SUFFICES ASSUME IInv, UndoGroup PROVE IInv'
  OBVIOUS
<1> USE FieldTypes, RecordTypes, NothingFields DEF IInv, UndoGroup, RemoveGroup,
   UndoCaller, Goto, Fail, Fault, NoFault, dsmVars, coVars, CallInv
<1>1. TypeOK'
  BY ConstantsAssumption DEF TypeOK, Labels
<1>2. IdInv'
  BY DEF TypeOK, IdInv, Visible
<1>3. PhaseInv'
  BY DEF TypeOK, IdInv, PhaseInv, CreatingInv, BoundInv, DeletingInv,
     DeletedInv, Visible, Creating, Deleting
<1>4. CallInv'
  BY DEF TypeOK, IdInv, PhaseInv, CreatingInv, BoundInv, DeletingInv,
     DeletedInv, Visible, Creating, Deleting
<1>5. RollbackInv'
  BY DEF TypeOK, IdInv, PhaseInv, CreatingInv, DeletingInv, RollbackInv,
     LeftoversAccounted, Accounted, Visible, Creating, Deleting
<1>6. VisibleIsComplete'
  BY DEF TypeOK, IdInv, VisibleIsComplete, Visible
<1>7. LeftoversAccounted'
  BY DEF TypeOK, IdInv, PhaseInv, CreatingInv, DeletingInv, DeletedInv,
     BoundInv, RollbackInv, LeftoversAccounted, Accounted, Visible, Creating,
     Deleting
<1> QED
  BY <1>1, <1>2, <1>3, <1>4, <1>5, <1>6, <1>7


LEMMA UndoUnitKeeps == IInv /\ UndoUnit => IInv'
<1> SUFFICES ASSUME IInv, UndoUnit PROVE IInv'
  OBVIOUS
<1>0. TypeOK
  BY DEF IInv
<1>s. IdInv
  BY DEF IInv
<1>1. TypeOK'
  <2>1. unit' \in Unit /\ group' \in Group
    BY <1>0, <1>s, UndoUnitIs, RecordTypes DEF TypeOK, GroupStep
  <2>2. logged' \subseteq Ids /\ unanswered' \subseteq Ids /\ abandoned' \subseteq Ids
    BY <1>0, <1>s, UndoUnitIs, FieldTypes DEF TypeOK
  <2>3. pc' \in Labels /\ call' \in Call
    BY <1>0, <1>s, UndoUnitIs, RecordTypes DEF TypeOK, Labels
  <2> QED
    BY <1>0, <1>s, UndoUnitIs, <2>1, <2>2, <2>3 DEF TypeOK
<1> USE FieldTypes, NothingFields DEF IInv, CallInv
<1>2. IdInv'
  BY <1>0, <1>s, UndoUnitIs, RecordTypes DEF IdInv, Visible, GroupStep
<1>3. PhaseInv'
  BY <1>0, <1>s, UndoUnitIs, RecordTypes DEF IdInv, PhaseInv, CreatingInv,
     BoundInv, DeletingInv, DeletedInv, Visible, Creating, Deleting, GroupStep
<1>4. CallInv'
  BY <1>0, <1>s, UndoUnitIs, RecordTypes DEF IdInv, PhaseInv, CreatingInv,
     BoundInv, DeletingInv, DeletedInv, Visible, Creating, Deleting, GroupStep
<1>5. RollbackInv'
  BY <1>0, <1>s, UndoUnitIs, RecordTypes DEF IdInv, PhaseInv, CreatingInv,
     DeletingInv, RollbackInv, LeftoversAccounted, Accounted, Visible, Creating,
     Deleting, GroupStep
<1>6. VisibleIsComplete'
  BY <1>0, <1>s, UndoUnitIs, RecordTypes DEF IdInv, VisibleIsComplete, Visible,
     GroupStep
<1>7. LeftoversAccounted'
  BY <1>0, <1>s, UndoUnitIs, RecordTypes DEF IdInv, PhaseInv, CreatingInv,
     DeletingInv, DeletedInv, BoundInv, RollbackInv, LeftoversAccounted,
     Accounted, Visible, Creating, Deleting, GroupStep
<1> QED
  BY <1>1, <1>2, <1>3, <1>4, <1>5, <1>6, <1>7

LEMMA DeleteVolumeKeeps == IInv /\ DeleteVolume => IInv'
<1> SUFFICES ASSUME IInv, DeleteVolume PROVE IInv'
  OBVIOUS
<1> USE FieldTypes, RecordTypes, NothingFields DEF IInv, DeleteVolume, Got,
   dsmVars, ledger, CallInv
<1>1. TypeOK'
  BY ConstantsAssumption DEF TypeOK, Labels
<1>2. IdInv'
  BY DEF TypeOK, IdInv, Visible
<1>3. PhaseInv'
  BY DEF TypeOK, IdInv, PhaseInv, CreatingInv, BoundInv, DeletingInv,
     DeletedInv, Visible, Creating, Deleting
<1>4. CallInv'
  BY DEF TypeOK, IdInv, PhaseInv, CreatingInv, BoundInv, DeletingInv,
     DeletedInv, Visible, Creating, Deleting
<1>5. RollbackInv'
  BY DEF TypeOK, IdInv, PhaseInv, CreatingInv, DeletingInv, RollbackInv,
     LeftoversAccounted, Accounted, Visible, Creating, Deleting
<1>6. VisibleIsComplete'
  BY DEF TypeOK, IdInv, VisibleIsComplete, Visible
<1>7. LeftoversAccounted'
  BY DEF TypeOK, IdInv, PhaseInv, CreatingInv, DeletingInv, DeletedInv,
     BoundInv, RollbackInv, LeftoversAccounted, Accounted, Visible, Creating,
     Deleting
<1> QED
  BY <1>1, <1>2, <1>3, <1>4, <1>5, <1>6, <1>7


LEMMA UnitDeleteKeeps == IInv /\ UnitDelete => IInv'
<1> SUFFICES ASSUME IInv, UnitDelete PROVE IInv'
  OBVIOUS
<1>0. TypeOK
  BY DEF IInv
<1>s. IdInv
  BY DEF IInv
<1>1. TypeOK'
  <2>1. unit' \in Unit /\ group' \in Group
    BY <1>0, <1>s, UnitDeleteIs, RecordTypes DEF TypeOK, GroupStep
  <2>2. logged' \subseteq Ids /\ unanswered' \subseteq Ids /\ abandoned' \subseteq Ids
    BY <1>0, <1>s, UnitDeleteIs, FieldTypes DEF TypeOK
  <2>3. pc' \in Labels /\ call' \in Call
    BY <1>0, <1>s, UnitDeleteIs, RecordTypes DEF TypeOK, Labels
  <2> QED
    BY <1>0, <1>s, UnitDeleteIs, <2>1, <2>2, <2>3 DEF TypeOK
<1> USE FieldTypes, NothingFields DEF IInv, CallInv
<1>2. IdInv'
  BY <1>0, <1>s, UnitDeleteIs, RecordTypes DEF IdInv, Visible, GroupStep
<1>3. PhaseInv'
  BY <1>0, <1>s, UnitDeleteIs, RecordTypes DEF IdInv, PhaseInv, CreatingInv,
     BoundInv, DeletingInv, DeletedInv, Visible, Creating, Deleting, GroupStep
<1>4. CallInv'
  BY <1>0, <1>s, UnitDeleteIs, RecordTypes DEF IdInv, PhaseInv, CreatingInv,
     BoundInv, DeletingInv, DeletedInv, Visible, Creating, Deleting, GroupStep
<1>5. RollbackInv'
  BY <1>0, <1>s, UnitDeleteIs, RecordTypes DEF IdInv, PhaseInv, CreatingInv,
     DeletingInv, RollbackInv, LeftoversAccounted, Accounted, Visible, Creating,
     Deleting, GroupStep
<1>6. VisibleIsComplete'
  BY <1>0, <1>s, UnitDeleteIs, RecordTypes DEF IdInv, VisibleIsComplete,
     Visible, GroupStep
<1>7. LeftoversAccounted'
  BY <1>0, <1>s, UnitDeleteIs, RecordTypes DEF IdInv, PhaseInv, CreatingInv,
     DeletingInv, DeletedInv, BoundInv, RollbackInv, LeftoversAccounted,
     Accounted, Visible, Creating, Deleting, GroupStep
<1> QED
  BY <1>1, <1>2, <1>3, <1>4, <1>5, <1>6, <1>7

LEMMA UnitCheckKeeps == IInv /\ UnitCheck => IInv'
<1> SUFFICES ASSUME IInv, UnitCheck PROVE IInv'
  OBVIOUS
<1> USE FieldTypes, RecordTypes, NothingFields DEF IInv, UnitCheck, Goto, Fail,
   Fault, NoFault, dsmVars, coVars, ledger, CallInv
<1>1. TypeOK'
  BY ConstantsAssumption DEF TypeOK, Labels
<1>2. IdInv'
  BY DEF TypeOK, IdInv, Visible
<1>3. PhaseInv'
  BY DEF TypeOK, IdInv, PhaseInv, CreatingInv, BoundInv, DeletingInv,
     DeletedInv, Visible, Creating, Deleting
<1>4. CallInv'
  BY DEF TypeOK, IdInv, PhaseInv, CreatingInv, BoundInv, DeletingInv,
     DeletedInv, Visible, Creating, Deleting
<1>5. RollbackInv'
  BY DEF TypeOK, IdInv, PhaseInv, CreatingInv, DeletingInv, RollbackInv,
     LeftoversAccounted, Accounted, Visible, Creating, Deleting
<1>6. VisibleIsComplete'
  BY DEF TypeOK, IdInv, VisibleIsComplete, Visible
<1>7. LeftoversAccounted'
  BY DEF TypeOK, IdInv, PhaseInv, CreatingInv, DeletingInv, DeletedInv,
     BoundInv, RollbackInv, LeftoversAccounted, Accounted, Visible, Creating,
     Deleting
<1> QED
  BY <1>1, <1>2, <1>3, <1>4, <1>5, <1>6, <1>7


LEMMA GroupDeleteKeeps == IInv /\ GroupDelete => IInv'
<1> SUFFICES ASSUME IInv, GroupDelete PROVE IInv'
  OBVIOUS
<1> USE FieldTypes, RecordTypes, NothingFields DEF IInv, GroupDelete,
   RemoveGroup, Goto, Fault, NoFault, dsmVars, coVars, ledger, CallInv
<1>1. TypeOK'
  BY ConstantsAssumption DEF TypeOK, Labels
<1>2. IdInv'
  BY DEF TypeOK, IdInv, Visible
<1>3. PhaseInv'
  BY DEF TypeOK, IdInv, PhaseInv, CreatingInv, BoundInv, DeletingInv,
     DeletedInv, Visible, Creating, Deleting
<1>4. CallInv'
  BY DEF TypeOK, IdInv, PhaseInv, CreatingInv, BoundInv, DeletingInv,
     DeletedInv, Visible, Creating, Deleting
<1>5. RollbackInv'
  BY DEF TypeOK, IdInv, PhaseInv, CreatingInv, DeletingInv, RollbackInv,
     LeftoversAccounted, Accounted, Visible, Creating, Deleting
<1>6. VisibleIsComplete'
  BY DEF TypeOK, IdInv, VisibleIsComplete, Visible
<1>7. LeftoversAccounted'
  BY DEF TypeOK, IdInv, PhaseInv, CreatingInv, DeletingInv, DeletedInv,
     BoundInv, RollbackInv, LeftoversAccounted, Accounted, Visible, Creating,
     Deleting
<1> QED
  BY <1>1, <1>2, <1>3, <1>4, <1>5, <1>6, <1>7


LEMMA GroupCheckKeeps == IInv /\ GroupCheck => IInv'
<1> SUFFICES ASSUME IInv, GroupCheck PROVE IInv'
  OBVIOUS
<1> USE FieldTypes, RecordTypes, NothingFields DEF IInv, GroupCheck, Goto, Fail,
   Fault, NoFault, dsmVars, coVars, ledger, CallInv
<1>1. TypeOK'
  BY ConstantsAssumption DEF TypeOK, Labels
<1>2. IdInv'
  BY DEF TypeOK, IdInv, Visible
<1>3. PhaseInv'
  BY DEF TypeOK, IdInv, PhaseInv, CreatingInv, BoundInv, DeletingInv,
     DeletedInv, Visible, Creating, Deleting
<1>4. CallInv'
  BY DEF TypeOK, IdInv, PhaseInv, CreatingInv, BoundInv, DeletingInv,
     DeletedInv, Visible, Creating, Deleting
<1>5. RollbackInv'
  BY DEF TypeOK, IdInv, PhaseInv, CreatingInv, DeletingInv, RollbackInv,
     LeftoversAccounted, Accounted, Visible, Creating, Deleting
<1>6. VisibleIsComplete'
  BY DEF TypeOK, IdInv, VisibleIsComplete, Visible
<1>7. LeftoversAccounted'
  BY DEF TypeOK, IdInv, PhaseInv, CreatingInv, DeletingInv, DeletedInv,
     BoundInv, RollbackInv, LeftoversAccounted, Accounted, Visible, Creating,
     Deleting
<1> QED
  BY <1>1, <1>2, <1>3, <1>4, <1>5, <1>6, <1>7


LEMMA DeliverKeeps == IInv /\ Deliver => IInv'
<1> SUFFICES ASSUME IInv, Deliver PROVE IInv'
  OBVIOUS
<1> USE FieldTypes, RecordTypes, NothingFields DEF IInv, Deliver, Fail, Fault,
   NoFault, dsmVars, coVars, ledger, CallInv
<1>1. TypeOK'
  BY ConstantsAssumption DEF TypeOK, Labels
<1>2. IdInv'
  BY DEF TypeOK, IdInv, Visible
<1>3. PhaseInv'
  BY DEF TypeOK, IdInv, PhaseInv, CreatingInv, BoundInv, DeletingInv,
     DeletedInv, Visible, Creating, Deleting
<1>4. CallInv'
  BY DEF TypeOK, IdInv, PhaseInv, CreatingInv, BoundInv, DeletingInv,
     DeletedInv, Visible, Creating, Deleting
<1>5. RollbackInv'
  BY DEF TypeOK, IdInv, PhaseInv, CreatingInv, DeletingInv, RollbackInv,
     LeftoversAccounted, Accounted, Visible, Creating, Deleting
<1>6. VisibleIsComplete'
  BY DEF TypeOK, IdInv, VisibleIsComplete, Visible
<1>7. LeftoversAccounted'
  BY DEF TypeOK, IdInv, PhaseInv, CreatingInv, DeletingInv, DeletedInv,
     BoundInv, RollbackInv, LeftoversAccounted, Accounted, Visible, Creating,
     Deleting
<1> QED
  BY <1>1, <1>2, <1>3, <1>4, <1>5, <1>6, <1>7


LEMMA CrashKeeps == IInv /\ Crash => IInv'
<1> SUFFICES ASSUME IInv, Crash PROVE IInv'
  OBVIOUS
<1> USE FieldTypes, RecordTypes, NothingFields DEF IInv, Crash, Fail, dsmVars,
   coVars, CallInv
<1>1. TypeOK'
  BY ConstantsAssumption DEF TypeOK, Labels
<1>2. IdInv'
  BY DEF TypeOK, IdInv, Visible
<1>3. PhaseInv'
  BY DEF TypeOK, IdInv, PhaseInv, CreatingInv, BoundInv, DeletingInv,
     DeletedInv, Visible, Creating, Deleting
<1>4. CallInv'
  BY DEF TypeOK, IdInv, PhaseInv, CreatingInv, BoundInv, DeletingInv,
     DeletedInv, Visible, Creating, Deleting
<1>5. RollbackInv'
  BY DEF TypeOK, IdInv, PhaseInv, CreatingInv, DeletingInv, RollbackInv,
     LeftoversAccounted, Accounted, Visible, Creating, Deleting
<1>6. VisibleIsComplete'
  BY DEF TypeOK, IdInv, VisibleIsComplete, Visible
<1>7. LeftoversAccounted'
  BY DEF TypeOK, IdInv, PhaseInv, CreatingInv, DeletingInv, DeletedInv,
     BoundInv, RollbackInv, LeftoversAccounted, Accounted, Visible, Creating,
     Deleting
<1> QED
  BY <1>1, <1>2, <1>3, <1>4, <1>5, <1>6, <1>7

\* The invariant holds at first.
LEMMA InitInv == Init => IInv
<1> SUFFICES ASSUME Init PROVE IInv
  OBVIOUS
<1> USE NothingFields, RecordTypes DEF Init
<1>1. TypeOK
  BY ConstantsAssumption DEF TypeOK, Labels
<1>2. IdInv /\ CallInv
  BY DEF IdInv, CallInv
<1>3. PhaseInv /\ RollbackInv
  BY DEF PhaseInv, CreatingInv, BoundInv, DeletingInv, DeletedInv, RollbackInv,
     Creating
<1>4. VisibleIsComplete /\ LeftoversAccounted
  BY DEF VisibleIsComplete, LeftoversAccounted, Visible
<1> QED
  BY <1>1, <1>2, <1>3, <1>4 DEF IInv

\* Every step keeps the invariant.
LEMMA NextInv == IInv /\ [Next]_vars => IInv'
<1> SUFFICES ASSUME IInv, [Next]_vars PROVE IInv'
  OBVIOUS
<1>1. CASE HandlerStep
  BY <1>1, CloneKeeps, WaitKeeps, GrowKeeps, GroupCreateKeeps, GroupGetKeeps,
     MapUnitKeeps, UndoGroupKeeps, UndoUnitKeeps, UnitDeleteKeeps, UnitCheckKeeps,
     GroupDeleteKeeps, GroupCheckKeeps, DeliverKeeps DEF HandlerStep
<1>2. CASE CreateVolume \/ DeleteVolume \/ CopyEnds \/ Crash
  BY <1>2, CreateVolumeKeeps, DeleteVolumeKeeps, CopyEndsKeeps, CrashKeeps
<1>3. CASE UNCHANGED vars
  BY <1>3 DEF vars, IInv, TypeOK, IdInv, PhaseInv, CreatingInv, BoundInv,
     DeletingInv,
     DeletedInv, CallInv, RollbackInv, VisibleIsComplete, LeftoversAccounted, Accounted,
     Visible
<1> QED
  BY <1>1, <1>2, <1>3 DEF Next

\* The invariant holds in every reachable state.
LEMMA InvAlways == Spec => []IInv
  BY InitInv, NextInv, PTL DEF Spec

\* Every variable has its type.
THEOREM TypeCorrect == Spec => []TypeOK
  BY InvAlways, PTL DEF IInv

\* What a lookup can find is complete, whatever attempt made it and wherever
\* it failed (createVolumeBySnapshot, createVolumeByVolume).
THEOREM CompleteOnly == Spec => []VisibleIsComplete
  BY InvAlways, PTL DEF IInv

\* What stays behind is in the log, or a request about it went unanswered, for
\* iSCSI and NVMe volumes alike and wherever an attempt failed; but for a group
\* that DeleteVolume gave up (dsm.go:741-746, 758-764, 772-775).
THEOREM NothingForgotten == Spec => []LeftoversAccounted
  BY InvAlways, PTL DEF IInv

-----------------------------------------------------------------------------
(* SanVolume implements VolumeContract.                                    *)

\* The contract's initial states are those of SanVolume, seen through the mapping.
LEMMA ContractInit == Init => Contract!Init
<1> SUFFICES ASSUME Init PROVE Contract!Init
  OBVIOUS
<1>1. request.size \in Nat /\ request.size # 0
  BY InitInv, FieldTypes DEF IInv
<1>2. co = "creating" /\ Shown = 0
  BY DEF Init, Shown
<1> QED
  BY <1>1, <1>2 DEF Contract!Init

\* Before the CO has the volume the contract sees nothing.
LEMMA CreatingStutters ==
    ASSUME co = "creating", co' = "creating", request' = request
    PROVE  UNCHANGED Contract!vars
  BY DEF Contract!vars, Shown

\* What changes neither the unit nor what the CO knows is not seen after that.
LEMMA QuietStutters ==
    ASSUME UNCHANGED <<request, co, pv, unit>>, co # "bound" \/ UNCHANGED group
    PROVE  UNCHANGED Contract!vars
  BY DEF Contract!vars, Shown, Held, Visible

\* The steps of a creation are taken before the CO has the volume.
LEMMA StillCreating == IInv /\ pc \in Creating => co = "creating"
  BY DEF IInv, TypeOK, PhaseInv, BoundInv, DeletingInv, DeletedInv, Creating,
     Deleting

\* No step of a creation is seen.
LEMMA CreationIsQuiet ==
    ASSUME IInv,
           Clone \/ Wait \/ Grow \/ GroupCreate \/ GroupGet \/ MapUnit \/ UndoGroup \/ UndoUnit
    PROVE  UNCHANGED Contract!vars
<1>1. pc \in Creating /\ UNCHANGED <<request, co>>
  BY DEF Clone, Wait, Grow, GroupCreate, GroupGet, MapUnit, UndoGroup, UndoUnit,
     Creating, coVars
<1> QED
  BY <1>1, StillCreating, CreatingStutters

\* A success the CO learns of is the contract's Create or Forget.
LEMMA DeliverKeepsContract ==
    ASSUME IInv, Deliver PROVE [Contract!Next]_(Contract!vars)
<1>1. UNCHANGED <<request, unit, group>>
  BY DEF Deliver, dsmVars
<1>2. CASE UNCHANGED coVars
  BY <1>1, <1>2, QuietStutters DEF coVars
<1>3. CASE co' = (IF call.op = "create" THEN "bound" ELSE "deleted")
           /\ pv' = (IF call.op = "create" THEN call.id ELSE pv)
  <2>1. pc = "reply" /\ call.op \in {"create", "delete"}
    BY FieldTypes DEF Deliver, IInv
  <2>2. CASE call.op = "create"
    <3>1. Visible /\ unit.id = call.id /\ unit.size = request.size /\ co = "creating"
      BY <2>1, <2>2 DEF IInv, CallInv, PhaseInv, DeletingInv, BoundInv,
         DeletedInv, TypeOK
    <3>2. Shown' = request.size
      BY <1>1, <1>3, <2>2, <3>1 DEF Shown, Held, Visible
    <3> QED
      BY <1>1, <1>3, <2>2, <3>1, <3>2 DEF Contract!Next, Contract!Create
  <2>3. CASE call.op = "delete"
    <3>1. unit = NoUnit /\ co = "deleting"
      BY <2>1, <2>3 DEF IInv, CallInv, PhaseInv, CreatingInv, BoundInv,
         DeletedInv, TypeOK
    <3>2. unit.size = 0
      BY <3>1, NothingFields
    <3>3. Shown = 0 /\ Shown' = 0
      BY <1>1, <3>2 DEF Shown
    <3> QED
      BY <1>1, <1>3, <2>3, <3>1, <3>3 DEF Contract!Next, Contract!Forget
  <2> QED
    BY <2>1, <2>2, <2>3
<1> QED
  BY <1>2, <1>3 DEF Deliver

\* A deletion is called, and takes the unit away, as the contract says.
LEMMA DeletionKeepsContract ==
    ASSUME IInv, DeleteVolume \/ UnitDelete \/ UnitCheck \/ GroupDelete \/ GroupCheck
    PROVE  [Contract!Next]_(Contract!vars)
<1>1. CASE DeleteVolume
  <2>1. /\ UNCHANGED <<request, unit, group, pv>>
        /\ co \in {"bound", "deleting"} /\ co' = "deleting"
    BY <1>1 DEF DeleteVolume, dsmVars
  <2>2. CASE co = "deleting"
    BY <2>1, <2>2, QuietStutters
  <2>3. CASE co = "bound"
    <3>1. Held
      BY <2>3 DEF IInv, PhaseInv, BoundInv, Held
    <3>2. Shown' = Shown
      BY <2>1, <2>3, <3>1 DEF Shown, Held
    <3> QED
      BY <2>1, <2>3, <3>2 DEF Contract!Next, Contract!Delete
  <2> QED
    BY <2>1, <2>2, <2>3
<1>2. CASE UnitDelete
  <2>1. co = "deleting" /\ UNCHANGED <<request, co, pv>> /\ pv # 0
    BY <1>2 DEF IInv, PhaseInv, CreatingInv, BoundInv, DeletedInv, TypeOK,
       UnitDelete,
       Creating, coVars
  <2>2. unit' = NoUnit \/ UNCHANGED unit
    BY <1>2 DEF UnitDelete, RemoveUnit, dsmVars
  <2>3. CASE unit' = NoUnit
    <3>1. unit'.id = 0 /\ unit'.size = 0
      BY <2>3, NothingFields
    <3>2. Shown' = 0
      BY <3>1 DEF Shown
    <3> QED
      BY <2>1, <3>2 DEF Contract!Next, Contract!Remove
  <2> QED
    BY <2>1, <2>2, <2>3, QuietStutters
<1>3. CASE UnitCheck \/ GroupDelete \/ GroupCheck
  <2>1. co # "bound" /\ UNCHANGED <<request, co, pv>>
    BY <1>3 DEF IInv, PhaseInv, BoundInv, UnitCheck, GroupDelete, GroupCheck, coVars
  <2>2. UNCHANGED unit
    BY <1>3 DEF UnitCheck, GroupDelete, GroupCheck, RemoveGroup, dsmVars
  <2> QED
    BY <2>1, <2>2, QuietStutters
<1> QED
  BY <1>1, <1>2, <1>3

\* The remaining steps are not seen.
LEMMA OthersKeepContract ==
    ASSUME IInv, CreateVolume \/ CopyEnds \/ Crash \/ UNCHANGED vars
    PROVE  UNCHANGED Contract!vars
<1>1. CASE CopyEnds
  <2>1. UNCHANGED <<request, group, co, pv>> /\ unit.copying
    BY <1>1 DEF CopyEnds, coVars
  <2>2. unit'.id = unit.id /\ unit'.size = unit.size
    BY <1>1, DsmChanges DEF CopyEnds, IInv
  <2>3. co # "bound"
    BY <2>1 DEF IInv, PhaseInv, BoundInv, VisibleIsComplete
  <2> QED
    BY <2>1, <2>2, <2>3 DEF Contract!vars, Shown, Held
<1>2. CASE CreateVolume \/ Crash \/ UNCHANGED vars
  BY <1>2, QuietStutters DEF CreateVolume, Crash, vars, coVars, dsmVars
<1> QED
  BY <1>1, <1>2

\* Every step is a step of the contract, or is not seen.
LEMMA ContractNext ==
    IInv /\ [Next]_vars => [Contract!Next]_(Contract!vars)
  BY CreationIsQuiet, DeliverKeepsContract, DeletionKeepsContract,
     OthersKeepContract
     DEF Next, HandlerStep

\* What the CO was handed stays, does not shrink and does not come back
\* (CreateVolume, DeleteVolume): SanVolume implements VolumeContract.
THEOREM ContractKept == Spec => KeepsContract
<1>1. Spec => Init /\ [][Next]_vars /\ []IInv
  BY InvAlways DEF Spec
<1> QED
  BY <1>1, ContractInit, ContractNext, PTL DEF KeepsContract, Contract!Spec
=============================================================================
