------------------------ MODULE IscsiVolumeProofs ---------------------------
(***************************************************************************)
(* Safety of IscsiVolume, for every set of DSMs, names, sizes and handlers *)
(* and every bound, while the CO has one call at a time in flight per      *)
(* volume and the driver knows every DSM.  The inductive invariant ties    *)
(* what each handler holds to what is on the DSMs.                         *)
(***************************************************************************)
EXTENDS IscsiVolume, TLAPS

-----------------------------------------------------------------------------
(* Type correctness, for every set of DSMs, names, sizes and handlers and  *)
(* every bound.                                                           *)

\* What a handler holds between calls has the type of what it holds in one.
LEMMA IdleTypes ==
    /\ NoCall \in Call /\ NoVolume \in Volume /\ NoReply \in Reply
    /\ NoLun \in Lun /\ NoTarget \in Target
<1>1. (CHOOSE n \in Names : TRUE) \in Names
  BY ConstantsAssumption
<1>2. (CHOOSE d \in Dsms : TRUE) \in Dsms
  BY ConstantsAssumption
<1> QED
  BY <1>1, <1>2 DEF NoCall, NoVolume, NoLun, NoTarget, NoReply, Call, Volume, Lun, Target, Reply

\* The requests keep a DSM's tables well typed.
LEMMA RequestTypes ==
    ASSUME TypeOK, NEW d \in Dsms, NEW n \in Names, NEW s \in Nat, NEW u \in Nat,
           NEW t \in Nat,
           \/ AddLun(d, n, s) \/ AddTarget(d, n) \/ RemoveLun(d, u)
           \/ RemoveTarget(d, t) \/ MapLun(d, t, u) \/ SetLunSize(d, u, s)
           \/ UNCHANGED dsmVars
    PROVE  /\ lun' \in [Dsms -> [Names -> Lun]]
           /\ target' \in [Dsms -> [Names -> Target]]
           /\ nextId' \in Nat
<1> USE IdleTypes DEF TypeOK, Lun, Target
<1>1. CASE AddLun(d, n, s)
  BY <1>1 DEF AddLun
<1>2. CASE AddTarget(d, n)
  BY <1>2 DEF AddTarget
<1>3. CASE RemoveLun(d, u)
  BY <1>3 DEF RemoveLun
<1>4. CASE RemoveTarget(d, t)
  BY <1>4 DEF RemoveTarget
<1>5. CASE MapLun(d, t, u)
  BY <1>5 DEF MapLun
<1>6. CASE SetLunSize(d, u, s)
  BY <1>6 DEF SetLunSize
<1>7. CASE UNCHANGED dsmVars
  BY <1>7 DEF dsmVars
<1> QED
  BY <1>1, <1>2, <1>3, <1>4, <1>5, <1>6, <1>7

\* The parts of what a handler holds that name a DSM, a volume or an object.
LEMMA FieldTypes ==
    ASSUME TypeOK, NEW h \in Handlers
    PROVE  /\ call[h].name \in Names /\ call[h].size \in Nat /\ call[h].id \in Nat
           /\ call[h].op \in {"create", "delete", "expand"}
           /\ vol[h].dsm \in Dsms /\ vol[h].uuid \in Nat /\ vol[h].size \in Nat
           /\ vol[h].tgt \in Nat /\ vol[h].luns \subseteq Nat
           /\ madeLun[h] \in Nat /\ madeTgt[h] \in Nat
           /\ res[h].id \in Nat
  BY DEF TypeOK, Call, Volume, Reply

\* The records a step builds have the types of the variables they go to.
LEMMA RecordTypes ==
    /\ \A i \in Nat, c \in {"OK", "error"} : [code |-> c, id |-> i] \in Reply
    /\ \A v \in Volume, l \in Lun : WithLun(v, l) \in Volume
    /\ \A v \in Volume, t \in Target : WithTarget(v, t) \in Volume
    /\ \A d \in Dsms : NewVolume(d) \in Volume
    /\ \A v \in Volume : v.uuid \in Nat
<1>1. \A i \in Nat, c \in {"OK", "error"} : [code |-> c, id |-> i] \in Reply
  BY DEF Reply
<1>2. \A v \in Volume, l \in Lun : WithLun(v, l) \in Volume
  BY DEF Volume, Lun, WithLun
<1>3. \A v \in Volume, t \in Target : WithTarget(v, t) \in Volume
  BY DEF Volume, Target, WithTarget
<1>4. \A d \in Dsms : NewVolume(d) \in Volume
  BY DEF Volume, NewVolume
<1>5. \A v \in Volume : v.uuid \in Nat
  BY DEF Volume
<1> QED
  BY <1>1, <1>2, <1>3, <1>4, <1>5

\* Respond sends a reply.
LEMMA RespondType ==
    ASSUME TypeOK, NEW h \in Handlers, NEW c \in {"OK", "error"}, NEW i \in Nat,
           Respond(h, c, i)
    PROVE  res' \in [Handlers -> Reply]
  BY RecordTypes DEF TypeOK, Respond

\* What a lookup reads from a DSM is well typed.
LEMMA TableTypes ==
    ASSUME TypeOK
    PROVE  /\ \A d \in Dsms, n \in Names : lun[d][n] \in Lun /\ lun[d][n].uuid \in Nat
           /\ \A d \in Dsms, n \in Names : target[d][n] \in Target
           /\ \A d \in Dsms : Mappings(d) \in SUBSET Mapping
           /\ \A m \in Mapping, n \in Names : VolumeOf(m, n) \in Volume
<1>1. \A d \in Dsms, n \in Names : lun[d][n] \in Lun /\ lun[d][n].uuid \in Nat /\ lun[d][n].size \in Nat
  BY DEF TypeOK, Lun
<1>2. \A d \in Dsms, n \in Names : target[d][n] \in Target
  BY DEF TypeOK
<1>3. ASSUME NEW d \in Dsms, NEW n \in Names, NEW u \in target[d][n].luns
      PROVE  [dsm |-> d, uuid |-> u, tgt |-> target[d][n].id, luns |-> target[d][n].luns] \in Mapping
  <2>1. target[d][n].id \in Nat /\ target[d][n].luns \in SUBSET Nat /\ u \in Nat
    BY <1>2, <1>3 DEF Target
  <2> QED
    BY <2>1 DEF Mapping
<1>4. \A d \in Dsms : Mappings(d) \in SUBSET Mapping
  <2> SUFFICES ASSUME NEW d \in Dsms, NEW m \in Mappings(d)
               PROVE  m \in Mapping
    OBVIOUS
  <2>1. PICK n \in Names : m \in {[dsm |-> d, uuid |-> u, tgt |-> target[d][n].id,
                                   luns |-> target[d][n].luns] : u \in target[d][n].luns}
    BY DEF Mappings
  <2> QED
    BY <1>3, <2>1
<1>5. \A m \in Mapping, n \in Names : VolumeOf(m, n) \in Volume
  BY <1>1 DEF Mapping, Volume, VolumeOf
<1> QED
  BY <1>1, <1>2, <1>4, <1>5

\* ListTargets keeps every variable's type.
LEMMA ListTargetsType ==
    ASSUME TypeOK, NEW h \in Handlers, ListTargets(h)
    PROVE  TypeOK'
<1>1. /\ todo \in [Handlers -> SUBSET Dsms]
      /\ maps \in [Handlers -> SUBSET Mapping]
      /\ listErr \in [Handlers -> {"nil", "incomplete"}]
      /\ faults \in Nat
  BY FieldTypes, TableTypes DEF TypeOK
<1>2. todo' \in [Handlers -> SUBSET Dsms]
  BY <1>1 DEF ListTargets
<1>3. maps' \in [Handlers -> SUBSET Mapping]
  BY <1>1, TableTypes DEF ListTargets
<1>4. listErr' \in [Handlers -> {"nil", "incomplete"}]
  BY <1>1 DEF ListTargets
<1>5. faults' \in Nat
  BY <1>1 DEF ListTargets, Fault, NoFault
<1> QED
  BY <1>2, <1>3, <1>4, <1>5 DEF ListTargets, TypeOK, dsmVars, undoVars, coVars, ledger

\* GetMappedLun keeps every variable's type.
LEMMA GetMappedLunType ==
    ASSUME TypeOK, NEW h \in Handlers, GetMappedLun(h)
    PROVE  TypeOK'
<1>1. /\ maps \in [Handlers -> SUBSET Mapping]
      /\ found \in [Handlers -> SUBSET Volume]
      /\ listErr \in [Handlers -> {"nil", "incomplete"}]
      /\ faults \in Nat
  BY FieldTypes, TableTypes DEF TypeOK
<1>2. maps' \in [Handlers -> SUBSET Mapping]
  BY <1>1 DEF GetMappedLun
<1>3. found' \in [Handlers -> SUBSET Volume]
  BY <1>1, TableTypes DEF GetMappedLun
<1>4. listErr' \in [Handlers -> {"nil", "incomplete"}]
  BY <1>1 DEF GetMappedLun
<1>5. faults' \in Nat
  BY <1>1 DEF GetMappedLun, Fault, NoFault
<1> QED
  BY <1>2, <1>3, <1>4, <1>5 DEF GetMappedLun, TypeOK, dsmVars, undoVars, coVars, ledger

\* CreateLookedUp keeps every variable's type.
LEMMA CreateLookedUpType ==
    ASSUME TypeOK, NEW h \in Handlers, CreateLookedUp(h)
    PROVE  TypeOK'
<1>1. /\ pc \in [Handlers -> Labels]
      /\ found \in [Handlers -> SUBSET Volume]
      /\ listErr \in [Handlers -> {"nil", "incomplete"}]
      /\ rest \in [Handlers -> SUBSET Dsms]
      /\ res \in [Handlers -> Reply]
      /\ dsms \subseteq Dsms
  BY FieldTypes, TableTypes DEF TypeOK
<1>2. pc' \in [Handlers -> Labels]
  BY <1>1 DEF CreateLookedUp, Respond, RespondVolume, LookedUp, Goto, Labels
<1>3. found' \in [Handlers -> SUBSET Volume]
  BY <1>1 DEF CreateLookedUp, LookedUp
<1>4. listErr' \in [Handlers -> {"nil", "incomplete"}]
  BY <1>1 DEF CreateLookedUp, LookedUp
<1>5. rest' \in [Handlers -> SUBSET Dsms]
  BY <1>1 DEF CreateLookedUp
<1>6. res' \in [Handlers -> Reply]
  BY <1>1, RespondType, RecordTypes DEF CreateLookedUp, RespondVolume
<1> QED
  BY <1>2, <1>3, <1>4, <1>5, <1>6 DEF CreateLookedUp, TypeOK, LookedUp, dsmVars, undoVars, coVars, ledger

\* DeleteLookedUp keeps every variable's type.
LEMMA DeleteLookedUpType ==
    ASSUME TypeOK, NEW h \in Handlers, DeleteLookedUp(h)
    PROVE  TypeOK'
<1>1. /\ pc \in [Handlers -> Labels]
      /\ found \in [Handlers -> SUBSET Volume]
      /\ listErr \in [Handlers -> {"nil", "incomplete"}]
      /\ vol \in [Handlers -> Volume]
      /\ res \in [Handlers -> Reply]
      /\ dsms \subseteq Dsms
  BY FieldTypes, TableTypes DEF TypeOK
<1>2. pc' \in [Handlers -> Labels]
  BY <1>1 DEF DeleteLookedUp, Respond, LookedUp, Goto, Labels
<1>3. found' \in [Handlers -> SUBSET Volume]
  BY <1>1 DEF DeleteLookedUp, LookedUp
<1>4. listErr' \in [Handlers -> {"nil", "incomplete"}]
  BY <1>1 DEF DeleteLookedUp, LookedUp
<1>5. vol' \in [Handlers -> Volume]
  BY <1>1, FieldTypes, RecordTypes, TableTypes DEF DeleteLookedUp
<1>6. res' \in [Handlers -> Reply]
  BY <1>1, RespondType DEF DeleteLookedUp
<1> QED
  BY <1>2, <1>3, <1>4, <1>5, <1>6 DEF DeleteLookedUp, TypeOK, LookedUp, dsmVars, undoVars, coVars, ledger

\* ExpandLookedUp keeps every variable's type.
LEMMA ExpandLookedUpType ==
    ASSUME TypeOK, NEW h \in Handlers, ExpandLookedUp(h)
    PROVE  TypeOK'
<1>1. /\ pc \in [Handlers -> Labels]
      /\ found \in [Handlers -> SUBSET Volume]
      /\ listErr \in [Handlers -> {"nil", "incomplete"}]
      /\ vol \in [Handlers -> Volume]
      /\ res \in [Handlers -> Reply]
      /\ dsms \subseteq Dsms
  BY FieldTypes, TableTypes DEF TypeOK
<1>2. pc' \in [Handlers -> Labels]
  BY <1>1 DEF ExpandLookedUp, Respond, LookedUp, Goto, Labels
<1>3. found' \in [Handlers -> SUBSET Volume]
  BY <1>1 DEF ExpandLookedUp, LookedUp
<1>4. listErr' \in [Handlers -> {"nil", "incomplete"}]
  BY <1>1 DEF ExpandLookedUp, LookedUp
<1>5. vol' \in [Handlers -> Volume]
  BY <1>1, FieldTypes, RecordTypes, TableTypes DEF ExpandLookedUp
<1>6. res' \in [Handlers -> Reply]
  BY <1>1, RespondType DEF ExpandLookedUp
<1> QED
  BY <1>2, <1>3, <1>4, <1>5, <1>6 DEF ExpandLookedUp, TypeOK, LookedUp, dsmVars, undoVars, coVars, ledger

\* PickDsm keeps every variable's type.
LEMMA PickDsmType ==
    ASSUME TypeOK, NEW h \in Handlers, PickDsm(h)
    PROVE  TypeOK'
<1>1. /\ pc \in [Handlers -> Labels]
      /\ rest \in [Handlers -> SUBSET Dsms]
      /\ vol \in [Handlers -> Volume]
      /\ madeLun \in [Handlers -> Nat]
      /\ madeTgt \in [Handlers -> Nat]
      /\ res \in [Handlers -> Reply]
  BY FieldTypes, TableTypes DEF TypeOK
<1>2. pc' \in [Handlers -> Labels]
  BY <1>1 DEF PickDsm, Respond, Goto, Labels
<1>3. rest' \in [Handlers -> SUBSET Dsms]
  BY <1>1 DEF PickDsm
<1>4. vol' \in [Handlers -> Volume]
  BY <1>1, FieldTypes, RecordTypes, TableTypes DEF PickDsm
<1>5. madeLun' \in [Handlers -> Nat]
  BY <1>1 DEF PickDsm, undoVars
<1>6. madeTgt' \in [Handlers -> Nat]
  BY <1>1 DEF PickDsm, undoVars
<1>7. res' \in [Handlers -> Reply]
  BY <1>1, RespondType DEF PickDsm
<1> QED
  BY <1>2, <1>3, <1>4, <1>5, <1>6, <1>7 DEF PickDsm, TypeOK, dsmVars, lookVars, undoVars, coVars, ledger

\* LunCreate keeps every variable's type.
LEMMA LunCreateType ==
    ASSUME TypeOK, NEW h \in Handlers, LunCreate(h)
    PROVE  TypeOK'
<1>1. /\ pc \in [Handlers -> Labels]
      /\ madeLun \in [Handlers -> Nat]
      /\ madeTgt \in [Handlers -> Nat]
      /\ faults \in Nat
      /\ unanswered \subseteq Nat
      /\ nextId \in Nat
      /\ unanswered \cup {nextId + 1} \subseteq Nat
  BY FieldTypes, TableTypes DEF TypeOK
<1>2. lun' \in [Dsms -> [Names -> Lun]] /\ target' \in [Dsms -> [Names -> Target]] /\ nextId' \in Nat
  BY FieldTypes, RequestTypes DEF LunCreate
<1>3. pc' \in [Handlers -> Labels]
  BY <1>1 DEF LunCreate, Goto, Labels
<1>4. madeLun' \in [Handlers -> Nat]
  BY <1>1 DEF LunCreate, undoVars
<1>5. madeTgt' \in [Handlers -> Nat]
  BY <1>1 DEF LunCreate, undoVars
<1>6. faults' \in Nat
  BY <1>1 DEF LunCreate, Fault, NoFault
<1>7. unanswered' \subseteq Nat
  BY <1>1 DEF LunCreate, ledger
<1> QED
  BY <1>2, <1>3, <1>4, <1>5, <1>6, <1>7 DEF LunCreate, TypeOK, dsmVars, lookVars, undoVars, coVars

\* LunGet keeps every variable's type.
LEMMA LunGetType ==
    ASSUME TypeOK, NEW h \in Handlers, LunGet(h)
    PROVE  TypeOK'
<1>1. /\ pc \in [Handlers -> Labels]
      /\ vol \in [Handlers -> Volume]
      /\ faults \in Nat
  BY FieldTypes, TableTypes DEF TypeOK
<1>2. pc' \in [Handlers -> Labels]
  BY <1>1 DEF LunGet, Undo, UndoLun, Goto, Labels
<1>3. vol' \in [Handlers -> Volume]
  BY <1>1, FieldTypes, RecordTypes, TableTypes DEF LunGet
<1>4. faults' \in Nat
  BY <1>1 DEF LunGet, Fault, NoFault
<1> QED
  BY <1>2, <1>3, <1>4 DEF LunGet, TypeOK, dsmVars, lookVars, undoVars, coVars, ledger

\* TargetCreate keeps every variable's type.
LEMMA TargetCreateType ==
    ASSUME TypeOK, NEW h \in Handlers, TargetCreate(h)
    PROVE  TypeOK'
<1>1. /\ pc \in [Handlers -> Labels]
      /\ madeLun \in [Handlers -> Nat]
      /\ madeTgt \in [Handlers -> Nat]
      /\ faults \in Nat
      /\ unanswered \subseteq Nat
      /\ nextId \in Nat
      /\ unanswered \cup {nextId + 1} \subseteq Nat
  BY FieldTypes, TableTypes DEF TypeOK
<1>2. lun' \in [Dsms -> [Names -> Lun]] /\ target' \in [Dsms -> [Names -> Target]] /\ nextId' \in Nat
  BY FieldTypes, RequestTypes DEF TargetCreate
<1>3. pc' \in [Handlers -> Labels]
  BY <1>1 DEF TargetCreate, Undo, UndoLun, Goto, Labels
<1>4. madeLun' \in [Handlers -> Nat]
  BY <1>1 DEF TargetCreate, undoVars
<1>5. madeTgt' \in [Handlers -> Nat]
  BY <1>1 DEF TargetCreate, undoVars
<1>6. faults' \in Nat
  BY <1>1 DEF TargetCreate, Fault, NoFault
<1>7. unanswered' \subseteq Nat
  BY <1>1 DEF TargetCreate, ledger
<1> QED
  BY <1>2, <1>3, <1>4, <1>5, <1>6, <1>7 DEF TargetCreate, TypeOK, dsmVars, lookVars, undoVars, coVars

\* TargetGet keeps every variable's type.
LEMMA TargetGetType ==
    ASSUME TypeOK, NEW h \in Handlers, TargetGet(h)
    PROVE  TypeOK'
<1>1. /\ pc \in [Handlers -> Labels]
      /\ vol \in [Handlers -> Volume]
      /\ faults \in Nat
  BY FieldTypes, TableTypes DEF TypeOK
<1>2. pc' \in [Handlers -> Labels]
  BY <1>1 DEF TargetGet, Undo, UndoLun, Goto, Labels
<1>3. vol' \in [Handlers -> Volume]
  BY <1>1, FieldTypes, RecordTypes, TableTypes DEF TargetGet
<1>4. faults' \in Nat
  BY <1>1 DEF TargetGet, Fault, NoFault
<1> QED
  BY <1>2, <1>3, <1>4 DEF TargetGet, TypeOK, dsmVars, lookVars, undoVars, coVars, ledger

\* LunMapTarget keeps every variable's type.
LEMMA LunMapTargetType ==
    ASSUME TypeOK, NEW h \in Handlers, LunMapTarget(h)
    PROVE  TypeOK'
<1>1. /\ pc \in [Handlers -> Labels]
      /\ res \in [Handlers -> Reply]
      /\ faults \in Nat
  BY FieldTypes, TableTypes DEF TypeOK
<1>2. lun' \in [Dsms -> [Names -> Lun]] /\ target' \in [Dsms -> [Names -> Target]] /\ nextId' \in Nat
  BY FieldTypes, RequestTypes DEF LunMapTarget
<1>3. pc' \in [Handlers -> Labels]
  BY <1>1 DEF LunMapTarget, RespondVolume, Undo, UndoLun, Respond, Goto, Labels
<1>4. res' \in [Handlers -> Reply]
  BY <1>1, RespondType, FieldTypes DEF LunMapTarget, RespondVolume
<1>5. faults' \in Nat
  BY <1>1 DEF LunMapTarget, Fault, NoFault
<1> QED
  BY <1>2, <1>3, <1>4, <1>5 DEF LunMapTarget, TypeOK, dsmVars, lookVars, undoVars, coVars, ledger

\* UndoTarget keeps every variable's type.
LEMMA UndoTargetType ==
    ASSUME TypeOK, NEW h \in Handlers, UndoTarget(h)
    PROVE  TypeOK'
<1>1. /\ pc \in [Handlers -> Labels]
      /\ logged \subseteq Nat
      /\ faults \in Nat
      /\ madeTgt[h] \in Nat
  BY FieldTypes, TableTypes DEF TypeOK
<1>2. lun' \in [Dsms -> [Names -> Lun]] /\ target' \in [Dsms -> [Names -> Target]] /\ nextId' \in Nat
  BY FieldTypes, RequestTypes DEF UndoTarget
<1>3. pc' \in [Handlers -> Labels]
  BY <1>1 DEF UndoTarget, UndoLun, Goto, Labels
<1>4. logged' \subseteq Nat
  BY <1>1 DEF UndoTarget, ledger
<1>5. faults' \in Nat
  BY <1>1 DEF UndoTarget, Fault, NoFault
<1> QED
  BY <1>2, <1>3, <1>4, <1>5 DEF UndoTarget, TypeOK, dsmVars, lookVars, undoVars, coVars

\* UndoLunGet keeps every variable's type.
LEMMA UndoLunGetType ==
    ASSUME TypeOK, NEW h \in Handlers, UndoLunGet(h)
    PROVE  TypeOK'
<1>1. /\ pc \in [Handlers -> Labels]
      /\ vol \in [Handlers -> Volume]
      /\ logged \subseteq Nat
      /\ faults \in Nat
      /\ lun[vol[h].dsm][call[h].name].uuid \in Nat
  BY FieldTypes, TableTypes DEF TypeOK
<1>2. pc' \in [Handlers -> Labels]
  BY <1>1 DEF UndoLunGet, Goto, Labels
<1>3. vol' \in [Handlers -> Volume]
  BY <1>1, FieldTypes, RecordTypes, TableTypes DEF UndoLunGet
<1>4. logged' \subseteq Nat
  BY <1>1 DEF UndoLunGet, ledger
<1>5. faults' \in Nat
  BY <1>1 DEF UndoLunGet, Fault, NoFault
<1> QED
  BY <1>2, <1>3, <1>4, <1>5 DEF UndoLunGet, TypeOK, dsmVars, lookVars, undoVars, coVars

\* UndoLunDelete keeps every variable's type.
LEMMA UndoLunDeleteType ==
    ASSUME TypeOK, NEW h \in Handlers, UndoLunDelete(h)
    PROVE  TypeOK'
<1>1. /\ pc \in [Handlers -> Labels]
      /\ logged \subseteq Nat
      /\ faults \in Nat
      /\ vol[h].uuid \in Nat
  BY FieldTypes, TableTypes DEF TypeOK
<1>2. lun' \in [Dsms -> [Names -> Lun]] /\ target' \in [Dsms -> [Names -> Target]] /\ nextId' \in Nat
  BY FieldTypes, RequestTypes DEF UndoLunDelete
<1>3. pc' \in [Handlers -> Labels]
  BY <1>1 DEF UndoLunDelete, Goto, Labels
<1>4. logged' \subseteq Nat
  BY <1>1 DEF UndoLunDelete, ledger
<1>5. faults' \in Nat
  BY <1>1 DEF UndoLunDelete, Fault, NoFault
<1> QED
  BY <1>2, <1>3, <1>4, <1>5 DEF UndoLunDelete, TypeOK, dsmVars, lookVars, undoVars, coVars

\* LunDelete keeps every variable's type.
LEMMA LunDeleteType ==
    ASSUME TypeOK, NEW h \in Handlers, LunDelete(h)
    PROVE  TypeOK'
<1>1. /\ pc \in [Handlers -> Labels]
      /\ res \in [Handlers -> Reply]
      /\ faults \in Nat
  BY FieldTypes, TableTypes DEF TypeOK
<1>2. lun' \in [Dsms -> [Names -> Lun]] /\ target' \in [Dsms -> [Names -> Target]] /\ nextId' \in Nat
  BY FieldTypes, RequestTypes DEF LunDelete
<1>3. pc' \in [Handlers -> Labels]
  BY <1>1 DEF LunDelete, AfterLunDelete, Respond, Goto, Labels
<1>4. res' \in [Handlers -> Reply]
  BY <1>1, RespondType DEF LunDelete, AfterLunDelete
<1>5. faults' \in Nat
  BY <1>1 DEF LunDelete, Fault, NoFault
<1> QED
  BY <1>2, <1>3, <1>4, <1>5 DEF LunDelete, TypeOK, dsmVars, lookVars, undoVars, coVars, ledger

\* LunCheck keeps every variable's type.
LEMMA LunCheckType ==
    ASSUME TypeOK, NEW h \in Handlers, LunCheck(h)
    PROVE  TypeOK'
<1>1. /\ pc \in [Handlers -> Labels]
      /\ res \in [Handlers -> Reply]
      /\ faults \in Nat
      /\ abandoned \subseteq Nat
      /\ vol[h].tgt \in Nat
  BY FieldTypes, TableTypes DEF TypeOK
<1>2. pc' \in [Handlers -> Labels]
  BY <1>1 DEF LunCheck, Respond, Goto, Labels
<1>3. res' \in [Handlers -> Reply]
  BY <1>1, RespondType DEF LunCheck
<1>4. faults' \in Nat
  BY <1>1 DEF LunCheck, Fault, NoFault
<1>5. abandoned' \subseteq Nat
  BY <1>1 DEF LunCheck
<1> QED
  BY <1>2, <1>3, <1>4, <1>5 DEF LunCheck, TypeOK, dsmVars, lookVars, undoVars, coVars

\* TargetDelete keeps every variable's type.
LEMMA TargetDeleteType ==
    ASSUME TypeOK, NEW h \in Handlers, TargetDelete(h)
    PROVE  TypeOK'
<1>1. /\ pc \in [Handlers -> Labels]
      /\ res \in [Handlers -> Reply]
      /\ faults \in Nat
  BY FieldTypes, TableTypes DEF TypeOK
<1>2. lun' \in [Dsms -> [Names -> Lun]] /\ target' \in [Dsms -> [Names -> Target]] /\ nextId' \in Nat
  BY FieldTypes, RequestTypes DEF TargetDelete
<1>3. pc' \in [Handlers -> Labels]
  BY <1>1 DEF TargetDelete, Respond, Goto, Labels
<1>4. res' \in [Handlers -> Reply]
  BY <1>1, RespondType DEF TargetDelete
<1>5. faults' \in Nat
  BY <1>1 DEF TargetDelete, Fault, NoFault
<1> QED
  BY <1>2, <1>3, <1>4, <1>5 DEF TargetDelete, TypeOK, dsmVars, lookVars, undoVars, coVars, ledger

\* TargetCheck keeps every variable's type.
LEMMA TargetCheckType ==
    ASSUME TypeOK, NEW h \in Handlers, TargetCheck(h)
    PROVE  TypeOK'
<1>1. /\ pc \in [Handlers -> Labels]
      /\ res \in [Handlers -> Reply]
      /\ faults \in Nat
      /\ logged \subseteq Nat
      /\ abandoned \subseteq Nat
      /\ vol[h].tgt \in Nat
  BY FieldTypes, TableTypes DEF TypeOK
<1>2. pc' \in [Handlers -> Labels]
  BY <1>1 DEF TargetCheck, Respond, Goto, Labels
<1>3. res' \in [Handlers -> Reply]
  BY <1>1, RespondType DEF TargetCheck
<1>4. faults' \in Nat
  BY <1>1 DEF TargetCheck, Fault, NoFault
<1>5. logged' \subseteq Nat
  BY <1>1 DEF TargetCheck, ledger
<1>6. abandoned' \subseteq Nat
  BY <1>1 DEF TargetCheck, ledger
<1> QED
  BY <1>2, <1>3, <1>4, <1>5, <1>6 DEF TargetCheck, TypeOK, dsmVars, lookVars, undoVars, coVars

\* LunUpdate keeps every variable's type.
LEMMA LunUpdateType ==
    ASSUME TypeOK, NEW h \in Handlers, LunUpdate(h)
    PROVE  TypeOK'
<1>1. /\ pc \in [Handlers -> Labels]
      /\ res \in [Handlers -> Reply]
      /\ faults \in Nat
  BY FieldTypes, TableTypes DEF TypeOK
<1>2. lun' \in [Dsms -> [Names -> Lun]] /\ target' \in [Dsms -> [Names -> Target]] /\ nextId' \in Nat
  BY FieldTypes, RequestTypes DEF LunUpdate
<1>3. pc' \in [Handlers -> Labels]
  BY <1>1 DEF LunUpdate, Respond, Goto, Labels
<1>4. res' \in [Handlers -> Reply]
  BY <1>1, RespondType, FieldTypes DEF LunUpdate
<1>5. faults' \in Nat
  BY <1>1 DEF LunUpdate, Fault, NoFault
<1> QED
  BY <1>2, <1>3, <1>4, <1>5 DEF LunUpdate, TypeOK, dsmVars, lookVars, undoVars, coVars, ledger

\* Deliver keeps every variable's type.
LEMMA DeliverType ==
    ASSUME TypeOK, NEW h \in Handlers, Deliver(h)
    PROVE  TypeOK'
<1>1. /\ pc \in [Handlers -> Labels]
      /\ call \in [Handlers -> Call]
      /\ rest \in [Handlers -> SUBSET Dsms]
      /\ vol \in [Handlers -> Volume]
      /\ madeLun \in [Handlers -> Nat]
      /\ madeTgt \in [Handlers -> Nat]
      /\ res \in [Handlers -> Reply]
      /\ co \in [Names -> {"creating", "bound", "deleting", "deleted"}]
      /\ pv \in [Names -> Nat]
      /\ faults \in Nat
  BY FieldTypes, TableTypes DEF TypeOK
<1>2. pc' \in [Handlers -> Labels]
  BY <1>1 DEF Deliver, Goto, Labels
<1>3. call' \in [Handlers -> Call]
  BY <1>1, IdleTypes DEF Deliver
<1>4. rest' \in [Handlers -> SUBSET Dsms]
  BY <1>1 DEF Deliver
<1>5. vol' \in [Handlers -> Volume]
  BY <1>1, IdleTypes DEF Deliver
<1>6. madeLun' \in [Handlers -> Nat]
  BY <1>1 DEF Deliver, undoVars
<1>7. madeTgt' \in [Handlers -> Nat]
  BY <1>1 DEF Deliver, undoVars
<1>8. res' \in [Handlers -> Reply]
  BY <1>1, IdleTypes DEF Deliver
<1>9. co' \in [Names -> {"creating", "bound", "deleting", "deleted"}]
  BY <1>1 DEF Deliver, coVars
<1>10. pv' \in [Names -> Nat]
  BY <1>1, FieldTypes DEF Deliver, coVars
<1>11. faults' \in Nat
  BY <1>1 DEF Deliver, Fault, NoFault
<1> QED
  BY <1>2, <1>3, <1>4, <1>5, <1>6, <1>7, <1>8, <1>9, <1>10, <1>11 DEF Deliver, TypeOK, dsmVars, lookVars, coVars, ledger

\* Start keeps every variable's type.
LEMMA StartType ==
    ASSUME TypeOK, NEW h \in Handlers, NEW n \in Names,
           CreateVolume(h, n) \/ ControllerExpandVolume(h, n) \/ DeleteVolume(h, n)
    PROVE  TypeOK'
<1>1. /\ pc \in [Handlers -> Labels] /\ call \in [Handlers -> Call]
      /\ todo \in [Handlers -> SUBSET Dsms] /\ dsms \in SUBSET Dsms
      /\ listErr \in [Handlers -> {"nil", "incomplete"}] /\ faults \in Nat
      /\ co \in [Names -> {"creating", "bound", "deleting", "deleted"}]
      /\ pv[n] \in Nat
  BY DEF TypeOK
<1>2. PICK op \in {"create", "delete", "expand"}, s \in Nat, id \in Nat : Start(h, op, n, s, id)
  BY <1>1, ConstantsAssumption DEF CreateVolume, ControllerExpandVolume, DeleteVolume
<1>3. pc' \in [Handlers -> Labels]
  BY <1>1, <1>2 DEF Start, Goto, Labels
<1>4. call' \in [Handlers -> Call]
  BY <1>1, <1>2 DEF Start, Call
<1>5. todo' \in [Handlers -> SUBSET Dsms]
  BY <1>1, <1>2 DEF Start
<1>6. listErr' \in [Handlers -> {"nil", "incomplete"}]
  BY <1>1, <1>2 DEF Start
<1>7. faults' \in Nat
  BY <1>1, <1>2 DEF Start, Fault, NoFault
<1>8. co' \in [Names -> {"creating", "bound", "deleting", "deleted"}]
  BY <1>1 DEF CreateVolume, ControllerExpandVolume, DeleteVolume
<1> QED
  BY <1>2, <1>3, <1>4, <1>5, <1>6, <1>7, <1>8 DEF TypeOK, Start, dsmVars, undoVars, ledger

\* Crash keeps every variable's type.
LEMMA CrashType == ASSUME TypeOK, Crash PROVE TypeOK'
<1>1. /\ pc' \in [Handlers -> Labels] /\ call' \in [Handlers -> Call]
      /\ vol' \in [Handlers -> Volume] /\ res' \in [Handlers -> Reply]
  BY IdleTypes DEF Crash, Labels
<1>2. /\ todo' \in [Handlers -> SUBSET Dsms] /\ maps' \in [Handlers -> SUBSET Mapping]
      /\ found' \in [Handlers -> SUBSET Volume] /\ rest' \in [Handlers -> SUBSET Dsms]
      /\ listErr' \in [Handlers -> {"nil", "incomplete"}]
      /\ madeLun' \in [Handlers -> Nat] /\ madeTgt' \in [Handlers -> Nat]
  BY DEF Crash
<1>3. dsms' \subseteq Dsms
  BY DEF Crash
<1>4. unanswered' \subseteq Nat
  <2>1. \A d \in Dsms, n \in Names : lun[d][n].uuid \in Nat /\ target[d][n].id \in Nat
    BY TableTypes DEF Target
  <2>2. InFlight \subseteq Names /\ unanswered \subseteq Nat
    BY DEF InFlight, TypeOK
  <2> DEFINE L == {lun[d][n].uuid : d \in Dsms, n \in InFlight}
             T == {target[d][n].id : d \in Dsms, n \in InFlight}
  <2>3. L \subseteq Nat
    BY <2>1, <2>2
  <2>4. T \subseteq Nat
    BY <2>1, <2>2
  <2>5. unanswered' = unanswered \cup L \cup T
    BY DEF Crash
  <2> HIDE DEF L, T
  <2> QED
    BY <2>2, <2>3, <2>4, <2>5
<1>5. crashes' \in Nat
  BY DEF Crash, TypeOK
<1> QED
  BY <1>1, <1>2, <1>3, <1>4, <1>5 DEF TypeOK, Crash, dsmVars, coVars

\* HandlerStep keeps every variable's type.
LEMMA HandlerStepType ==
    ASSUME TypeOK, NEW h \in Handlers, HandlerStep(h)
    PROVE  TypeOK'
  BY ListTargetsType, GetMappedLunType, CreateLookedUpType, DeleteLookedUpType,
     ExpandLookedUpType, PickDsmType, LunCreateType, LunGetType,
     TargetCreateType, TargetGetType, LunMapTargetType, UndoTargetType,
     UndoLunGetType, UndoLunDeleteType, LunDeleteType, LunCheckType,
     TargetDeleteType, TargetCheckType, LunUpdateType, DeliverType
  DEF HandlerStep

\* Every step keeps the types.
LEMMA TypeStep == ASSUME TypeOK, [Next]_vars PROVE TypeOK'
<1>1. CASE UNCHANGED vars
  BY <1>1 DEF TypeOK, vars
<1> QED
  BY <1>1, StartType, HandlerStepType, CrashType DEF Next

\* Every variable keeps its type: a handler is always at one of the places of
\* the Go code the model names, and holds DSMs, ids and records of the kinds
\* its Go variables have; the DSMs hold LUNs and targets.
THEOREM TypeCorrect == Spec => []TypeOK
<1>1. Init => TypeOK
  BY IdleTypes DEF Init, TypeOK, Labels
<1>2. TypeOK /\ [Next]_vars => TypeOK'
  BY TypeStep
<1> QED
  BY <1>1, <1>2, PTL DEF Spec

-----------------------------------------------------------------------------
(* The inductive invariant.                                                *)

\* No LUN, or target, of another name has this id; no DSM has n's LUN.

OwnsLun(n, u) == \A d \in Dsms, m \in Names : u # 0 /\ lun[d][m].uuid = u => m = n
OwnsTgt(n, t) == \A d \in Dsms, m \in Names : t # 0 /\ target[d][m].id = t => m = n
Gone(n) == \A d \in Dsms : lun[d][n].uuid # pv[n]

\* Ids are unique and a target maps no LUN but the one of its own name.
DsmInv ==
    /\ \A d \in Dsms, n \in Names :
         /\ lun[d][n].uuid <= nextId /\ target[d][n].id <= nextId
         /\ lun[d][n].uuid = 0 => lun[d][n] = NoLun
         /\ target[d][n].id = 0 => target[d][n] = NoTarget
         /\ \A u \in target[d][n].luns : u # 0 /\ u = lun[d][n].uuid
    /\ \A d \in Dsms, e \in Dsms, n \in Names, m \in Names :
         /\ lun[d][n].uuid # 0 /\ lun[d][n].uuid = lun[e][m].uuid => d = e /\ n = m
         /\ target[d][n].id # 0 /\ target[d][n].id = target[e][m].id => d = e /\ n = m

\* What the CO recorded, against the DSMs.
CoInv(n) ==
    /\ pv[n] <= nextId
    /\ co[n] = "creating" <=> pv[n] = 0
    /\ OwnsLun(n, pv[n])
    /\ co[n] \in {"bound", "deleting"} =>
         \A d \in Dsms : lun[d][n].uuid = pv[n] => pv[n] \in target[d][n].luns
    /\ co[n] = "bound" => \E d \in Dsms : lun[d][n].uuid = pv[n]
    /\ co[n] = "deleted" => Gone(n)

\* A call matches the CO's view of its volume, and a handler's place its call.
CallInv(h) == LET n == call[h].name IN
    /\ call[h].op = "create" => co[n] = "creating"
    /\ call[h].op = "expand" => co[n] = "bound" /\ call[h].id = pv[n]
    /\ call[h].op = "delete" => co[n] = "deleting" /\ call[h].id = pv[n]
    /\ pc[h] \in {"pick", "lunCreate", "lunGet", "targetCreate", "targetGet", "lunMap",
                  "undoTarget", "undoLunGet", "undoLunDelete"} => call[h].op = "create"
    /\ pc[h] \in {"lunDelete", "lunCheck", "targetDelete", "targetCheck"} =>
          call[h].op = "delete"
    /\ pc[h] = "lunUpdate" => call[h].op = "expand"

\* The objects a handler may act on are those of its own volume.
OwnInv(h) == LET n == call[h].name IN
    /\ vol[h].uuid <= nextId /\ vol[h].tgt <= nextId /\ madeTgt[h] <= nextId
    /\ OwnsLun(n, vol[h].uuid) /\ OwnsTgt(n, vol[h].tgt) /\ OwnsTgt(n, madeTgt[h])

\* What a lookup has gathered about its own volume still holds, and it has not
\* passed by the volume it looks for.
MapsInv(h) == LET n == call[h].name IN
    \A m \in maps[h] :
       m.uuid # 0 /\ (lun[m.dsm][n].uuid = m.uuid =>
                        m.uuid \in target[m.dsm][n].luns /\ m.tgt = target[m.dsm][n].id)
FoundInv(h) == LET n == call[h].name IN
    \A v \in found[h] :
       /\ v.uuid # 0 /\ lun[v.dsm][n].uuid = v.uuid
       /\ v.uuid \in target[v.dsm][n].luns /\ v.tgt = target[v.dsm][n].id
       /\ call[h].op # "create" => v.uuid = pv[n]
SeenInv(h) == LET n == call[h].name IN
    call[h].op # "create" /\ listErr[h] = "nil" /\ found[h] = {} =>
       \A d \in Dsms : lun[d][n].uuid = pv[n] =>
          \/ d \in todo[h]
          \/ \E m \in maps[h] : m.dsm = d /\ m.uuid = pv[n]

\* How far a creation or a deletion has come.
WorkInv(h) == LET n == call[h].name  v == vol[h] IN
    /\ pc[h] \in {"targetCreate", "targetGet", "lunMap"} =>
          v.uuid # 0 /\ lun[v.dsm][n].uuid = v.uuid
    /\ pc[h] = "lunMap" => v.tgt # 0 /\ target[v.dsm][n].id = v.tgt
    /\ pc[h] \in {"lunDelete", "lunCheck"} =>
          /\ v.uuid = pv[n]
          /\ \A d \in Dsms : d # v.dsm => lun[d][n].uuid # pv[n]
    /\ pc[h] \in {"targetDelete", "targetCheck"} => Gone(n)
    /\ pc[h] = "reply" /\ res[h].code = "OK" /\ call[h].op = "create" =>
          res[h].id # 0 /\ \E d \in Dsms :
             lun[d][n].uuid = res[h].id /\ res[h].id \in target[d][n].luns
    /\ pc[h] = "reply" /\ res[h].code = "OK" /\ call[h].op = "delete" => Gone(n)

HandlerInv(h) ==
    /\ pc[h] = "idle" => vol[h].uuid = 0 /\ vol[h].tgt = 0 /\ madeTgt[h] = 0
    /\ pc[h] # "lookup" => maps[h] = {} /\ found[h] = {}
    /\ pc[h] # "idle" =>
         /\ CallInv(h) /\ OwnInv(h) /\ WorkInv(h)
         /\ pc[h] = "lookup" => MapsInv(h) /\ FoundInv(h) /\ SeenInv(h)

SerialInv == \A g \in Handlers, h \in Handlers :
    g # h /\ pc[g] # "idle" /\ pc[h] # "idle" => call[g].name # call[h].name

IInv ==
    /\ TypeOK
    /\ dsms = Dsms
    /\ DsmInv
    /\ SerialInv
    /\ \A n \in Names : CoInv(n)
    /\ \A h \in Handlers : HandlerInv(h)

-----------------------------------------------------------------------------
(* What a step of one handler leaves alone.                                *)

Untouched(n) == \A d \in Dsms, m \in Names :
    m # n => lun'[d][m] = lun[d][m] /\ target'[d][m] = target[d][m]

\* Ids are never used again.
Fresh ==
    /\ nextId <= nextId'
    /\ \A d \in Dsms, m \in Names :
         /\ lun'[d][m].uuid \in {0, lun[d][m].uuid} \/ lun'[d][m].uuid > nextId
         /\ target'[d][m].id \in {0, target[d][m].id} \/ target'[d][m].id > nextId

Steady(h) == \A g \in Handlers : g # h =>
    /\ pc'[g] = pc[g] /\ call'[g] = call[g] /\ vol'[g] = vol[g] /\ res'[g] = res[g]
    /\ madeTgt'[g] = madeTgt[g] /\ todo'[g] = todo[g] /\ maps'[g] = maps[g]
    /\ found'[g] = found[g] /\ listErr'[g] = listErr[g]

\* The ids on a DSM are natural numbers.
LEMMA IdTypes ==
    ASSUME TypeOK, NEW d \in Dsms, NEW n \in Names
    PROVE  /\ lun[d][n].uuid \in Nat /\ target[d][n].id \in Nat
           /\ target[d][n].luns \subseteq Nat /\ nextId \in Nat
  BY DEF TypeOK, Lun, Target

\* LUN.create changes only its own volume and uses a fresh uuid.
LEMMA AddLunKeeps ==
    ASSUME TypeOK, DsmInv, NEW d \in Dsms, NEW n \in Names, NEW s \in Nat,
           lun[d][n] = NoLun, AddLun(d, n, s)
    PROVE  DsmInv' /\ Untouched(n) /\ Fresh
<1>1. \A e \in Dsms, m \in Names :
         lun'[e][m] = IF e = d /\ m = n THEN [uuid |-> nextId + 1, size |-> s] ELSE lun[e][m]
  BY DEF AddLun, TypeOK
<1>2. target' = target /\ nextId' = nextId + 1
  BY DEF AddLun
<1>3. target[d][n].luns = {}
  BY DEF DsmInv, NoLun
<1>4. DsmInv'
  BY <1>1, <1>2, <1>3, IdTypes DEF DsmInv
<1>5. Untouched(n)
  BY <1>1, <1>2 DEF Untouched
<1>6. Fresh
  BY <1>1, <1>2, IdTypes DEF Fresh
<1> QED
  BY <1>4, <1>5, <1>6

\* Target.create changes only its own volume and uses a fresh id.
LEMMA AddTargetKeeps ==
    ASSUME TypeOK, DsmInv, NEW d \in Dsms, NEW n \in Names,
           target[d][n] = NoTarget, AddTarget(d, n)
    PROVE  DsmInv' /\ Untouched(n) /\ Fresh
<1>1. \A e \in Dsms, m \in Names :
         target'[e][m] = IF e = d /\ m = n THEN [id |-> nextId + 1, luns |-> {}] ELSE target[e][m]
  BY DEF AddTarget, TypeOK
<1>2. lun' = lun /\ nextId' = nextId + 1
  BY DEF AddTarget
<1>3. DsmInv'
  BY <1>1, <1>2, IdTypes DEF DsmInv
<1>4. Untouched(n)
  BY <1>1, <1>2 DEF Untouched
<1>5. Fresh
  BY <1>1, <1>2, IdTypes DEF Fresh
<1> QED
  BY <1>3, <1>4, <1>5

\* LUN.delete by uuid takes away that LUN and its mapping, nothing of another
\* volume.
LEMMA RemoveLunKeeps ==
    ASSUME TypeOK, DsmInv, NEW d \in Dsms, NEW n \in Names, NEW u \in Nat,
           u # 0, OwnsLun(n, u), RemoveLun(d, u)
    PROVE  /\ DsmInv' /\ Untouched(n) /\ Fresh
           /\ \A e \in Dsms : lun'[e][n].uuid = IF e = d /\ lun[d][n].uuid = u THEN 0 ELSE lun[e][n].uuid
           /\ \A e \in Dsms : target'[e][n].id = target[e][n].id
           /\ \A e \in Dsms, x \in Nat :
                x \in target'[e][n].luns <=> x \in target[e][n].luns /\ (e # d \/ x # u)
<1>1. \A e \in Dsms, m \in Names :
         lun'[e][m] = IF e = d /\ lun[d][m].uuid = u THEN NoLun ELSE lun[e][m]
  BY DEF RemoveLun, TypeOK
<1>2. \A e \in Dsms, m \in Names :
         target'[e][m] = IF e = d THEN [id |-> target[d][m].id, luns |-> target[d][m].luns \ {u}]
                                  ELSE target[e][m]
  BY DEF RemoveLun, TypeOK
<1>3. nextId' = nextId
  BY DEF RemoveLun
<1>4. \A e \in Dsms, m \in Names : target[e][m] \in Target
  BY DEF TypeOK
<1>5. \A m \in Names : m # n => target[d][m].luns \ {u} = target[d][m].luns
  BY DEF DsmInv, OwnsLun
<1>6. \A e \in Dsms, m \in Names : m # n => target'[e][m] = target[e][m]
  BY <1>2, <1>4, <1>5 DEF Target
<1>7. \A e \in Dsms, m \in Names :
         lun'[e][m].uuid = IF e = d /\ lun[d][m].uuid = u THEN 0 ELSE lun[e][m].uuid
  BY <1>1 DEF NoLun
<1>8. \A e \in Dsms, m \in Names :
         /\ target'[e][m].id = target[e][m].id
         /\ \A x : x \in target'[e][m].luns <=> x \in target[e][m].luns /\ (e # d \/ x # u)
  <2>1. TAKE e \in Dsms, m \in Names
  <2>2. CASE e = d
    <3> DEFINE S == target[d][m].luns \ {u}
    <3>1. target'[d][m] = [id |-> target[d][m].id, luns |-> S]
      BY <1>2
    <3> HIDE DEF S
    <3>2. target'[d][m].id = target[d][m].id /\ target'[d][m].luns = S
      BY <3>1
    <3> QED
      BY <2>2, <3>2 DEF S
  <2>3. CASE e # d
    BY <2>3, <1>2
  <2> QED
    BY <2>2, <2>3
<1>9. \A e \in Dsms, m \in Names : target[e][m].id = 0 => target'[e][m] = NoTarget
  <2>1. TAKE e \in Dsms, m \in Names
  <2>2. HAVE target[e][m].id = 0
  <2>3. target[e][m] = NoTarget
    BY <2>2 DEF DsmInv
  <2>4. target[e][m].luns \ {u} = {}
    BY <2>3 DEF NoTarget
  <2>5. CASE e = d
    BY <2>3, <2>4, <2>5, <1>2 DEF NoTarget
  <2>6. CASE e # d
    BY <2>3, <2>6, <1>2
  <2> QED
    BY <2>5, <2>6
<1>10. DsmInv'
  <2>1. \A e \in Dsms, m \in Names :
          /\ lun'[e][m].uuid <= nextId' /\ target'[e][m].id <= nextId'
          /\ lun'[e][m].uuid = 0 => lun'[e][m] = NoLun
    BY <1>1, <1>3, <1>7, <1>8, IdTypes DEF DsmInv
  <2>2. \A e \in Dsms, m \in Names : target'[e][m].id = 0 => target'[e][m] = NoTarget
    BY <1>8, <1>9
  <2>3. \A e \in Dsms, m \in Names :
          \A x \in target'[e][m].luns : x # 0 /\ x = lun'[e][m].uuid
    BY <1>7, <1>8 DEF DsmInv
  <2>4. \A e \in Dsms, f \in Dsms, m \in Names, k \in Names :
          /\ lun'[e][m].uuid # 0 /\ lun'[e][m].uuid = lun'[f][k].uuid => e = f /\ m = k
          /\ target'[e][m].id # 0 /\ target'[e][m].id = target'[f][k].id => e = f /\ m = k
    BY <1>7, <1>8 DEF DsmInv
  <2> QED
    BY <2>1, <2>2, <2>3, <2>4 DEF DsmInv
<1>11. Untouched(n)
  BY <1>1, <1>6 DEF Untouched, OwnsLun
<1>12. Fresh
  BY <1>3, <1>7, <1>8, IdTypes DEF Fresh
<1> QED
  BY <1>7, <1>8, <1>10, <1>11, <1>12

\* Target.delete by id takes away that target, nothing of another volume.
LEMMA RemoveTargetKeeps ==
    ASSUME TypeOK, DsmInv, NEW d \in Dsms, NEW n \in Names, NEW t \in Nat,
           t # 0, OwnsTgt(n, t), RemoveTarget(d, t)
    PROVE  DsmInv' /\ Untouched(n) /\ Fresh /\ lun' = lun
<1>1. \A e \in Dsms, m \in Names :
         target'[e][m] = IF e = d /\ target[d][m].id = t THEN NoTarget ELSE target[e][m]
  BY DEF RemoveTarget, TypeOK
<1>2. lun' = lun /\ nextId' = nextId
  BY DEF RemoveTarget
<1>3. DsmInv'
  BY <1>1, <1>2, IdTypes DEF DsmInv, NoTarget
<1>4. Untouched(n)
  BY <1>1, <1>2 DEF Untouched, OwnsTgt
<1>5. Fresh
  BY <1>1, <1>2, IdTypes DEF Fresh, NoTarget
<1> QED
  BY <1>2, <1>3, <1>4, <1>5

\* LUN.map_target maps the LUN to the target of its own name.
LEMMA MapLunKeeps ==
    ASSUME TypeOK, DsmInv, NEW d \in Dsms, NEW n \in Names, NEW t \in Nat, NEW u \in Nat,
           t # 0, target[d][n].id = t, u # 0, lun[d][n].uuid = u, MapLun(d, t, u)
    PROVE  DsmInv' /\ Untouched(n) /\ Fresh /\ lun' = lun /\ u \in target'[d][n].luns
<1>1. \A e \in Dsms, m \in Names :
         target'[e][m] = IF e = d /\ target[d][m].id = t
                         THEN [id |-> t, luns |-> target[d][m].luns \cup {u}] ELSE target[e][m]
  BY DEF MapLun, TypeOK
<1>2. lun' = lun /\ nextId' = nextId
  BY DEF MapLun
<1>3. \A m \in Names : target[d][m].id = t => m = n
  BY DEF DsmInv
<1>4. \A e \in Dsms, m \in Names :
         /\ target'[e][m].id = target[e][m].id
         /\ target'[e][m].luns = IF e = d /\ m = n THEN target[d][n].luns \cup {u}
                                                   ELSE target[e][m].luns
         /\ e # d \/ m # n => target'[e][m] = target[e][m]
  <2>1. TAKE e \in Dsms, m \in Names
  <2>2. CASE e = d /\ m = n
    <3> DEFINE S == target[d][n].luns \cup {u}
    <3>1. target'[d][n] = [id |-> t, luns |-> S]
      BY <1>1
    <3> HIDE DEF S
    <3>2. target'[d][n].id = t /\ target'[d][n].luns = S
      BY <3>1
    <3> QED
      BY <2>2, <3>2 DEF S
  <2>3. CASE e # d \/ m # n
    BY <2>3, <1>1, <1>3
  <2> QED
    BY <2>2, <2>3
<1>5. DsmInv'
  <2>1. \A e \in Dsms, m \in Names :
          /\ lun'[e][m].uuid <= nextId' /\ target'[e][m].id <= nextId'
          /\ lun'[e][m].uuid = 0 => lun'[e][m] = NoLun
    BY <1>2, <1>4 DEF DsmInv
  <2>2. \A e \in Dsms, m \in Names : target'[e][m].id = 0 => target'[e][m] = NoTarget
    BY <1>4 DEF DsmInv
  <2>3. \A e \in Dsms, m \in Names :
          \A x \in target'[e][m].luns : x # 0 /\ x = lun'[e][m].uuid
    BY <1>2, <1>4 DEF DsmInv
  <2>4. \A e \in Dsms, f \in Dsms, m \in Names, k \in Names :
          /\ lun'[e][m].uuid # 0 /\ lun'[e][m].uuid = lun'[f][k].uuid => e = f /\ m = k
          /\ target'[e][m].id # 0 /\ target'[e][m].id = target'[f][k].id => e = f /\ m = k
    BY <1>2, <1>4 DEF DsmInv
  <2> QED
    BY <2>1, <2>2, <2>3, <2>4 DEF DsmInv
<1>6. Untouched(n)
  BY <1>2, <1>4 DEF Untouched
<1>7. Fresh
  BY <1>2, <1>4, IdTypes DEF Fresh
<1> QED
  BY <1>2, <1>4, <1>5, <1>6, <1>7

\* LUN.set changes a size and nothing else.
LEMMA SetLunSizeKeeps ==
    ASSUME TypeOK, DsmInv, NEW d \in Dsms, NEW n \in Names, NEW u \in Nat, NEW s \in Nat,
           u # 0, OwnsLun(n, u), SetLunSize(d, u, s)
    PROVE  /\ DsmInv' /\ Untouched(n) /\ Fresh /\ target' = target
           /\ \A e \in Dsms : lun'[e][n].uuid = lun[e][n].uuid
<1>1. \A e \in Dsms, m \in Names :
         lun'[e][m] = IF e = d /\ lun[d][m].uuid = u THEN [uuid |-> u, size |-> s] ELSE lun[e][m]
  BY DEF SetLunSize, TypeOK
<1>2. target' = target /\ nextId' = nextId
  BY DEF SetLunSize
<1>3. DsmInv'
  BY <1>1, <1>2, IdTypes DEF DsmInv
<1>4. Untouched(n)
  BY <1>1, <1>2 DEF Untouched, OwnsLun
<1>5. Fresh
  BY <1>1, <1>2, IdTypes DEF Fresh
<1> QED
  BY <1>1, <1>2, <1>3, <1>4, <1>5

\* A step that leaves the DSMs alone.
LEMMA IdleDsmKeeps ==
    ASSUME TypeOK, DsmInv, UNCHANGED <<lun, target, nextId>>, NEW n
    PROVE  DsmInv' /\ Untouched(n) /\ Fresh
<1>1. lun' = lun /\ target' = target /\ nextId' = nextId
  OBVIOUS
<1>2. DsmInv'
  BY <1>1 DEF DsmInv
<1>3. Untouched(n)
  BY <1>1 DEF Untouched
<1>4. Fresh
  BY <1>1 DEF Fresh, TypeOK
<1> QED
  BY <1>2, <1>3, <1>4


\* A step of handler h for volume n leaves alone what the others rely on.
LEMMA OthersKeep ==
    ASSUME IInv, nextId' \in Nat, NEW n \in Names, NEW h \in Handlers, NEW g \in Handlers, g # h,
           Untouched(n), Fresh, Steady(h),
           \A m \in Names : m # n => co'[m] = co[m] /\ pv'[m] = pv[m],
           pc[g] # "idle" => call[g].name # n
    PROVE  HandlerInv(g)'
<1>1. /\ pc'[g] = pc[g] /\ call'[g] = call[g] /\ vol'[g] = vol[g] /\ res'[g] = res[g]
      /\ madeTgt'[g] = madeTgt[g] /\ todo'[g] = todo[g] /\ maps'[g] = maps[g]
      /\ found'[g] = found[g] /\ listErr'[g] = listErr[g]
  BY DEF Steady
<1>2. HandlerInv(g) /\ TypeOK
  BY DEF IInv
<1>3. CASE pc[g] = "idle"
  BY <1>1, <1>2, <1>3 DEF HandlerInv
<1>4. CASE pc[g] # "idle"
  <2> DEFINE k == call[g].name
  <2>1. k \in Names /\ k # n /\ co'[k] = co[k] /\ pv'[k] = pv[k]
    BY <1>2, <1>4, FieldTypes
  <2>2. /\ \A d \in Dsms : lun'[d][k] = lun[d][k] /\ target'[d][k] = target[d][k]
        /\ call'[g].name = k
    BY <2>1, <1>1 DEF Untouched
  <2>3. CallInv(g)'
    BY <1>1, <1>2, <1>4, <2>1, <2>2 DEF HandlerInv, CallInv
  <2>4. OwnInv(g)'
    <3>1. OwnInv(g)
      BY <1>2, <1>4 DEF HandlerInv
    <3>2. vol[g].uuid \in Nat /\ vol[g].tgt \in Nat /\ madeTgt[g] \in Nat /\ nextId \in Nat
          /\ nextId' >= nextId
      BY <1>2, FieldTypes DEF Fresh, TypeOK, Volume
    <3>3. OwnsLun(k, vol[g].uuid)'
      BY <1>1, <3>1, <3>2, <2>2 DEF OwnInv, OwnsLun, Fresh
    <3>4. OwnsTgt(k, vol[g].tgt)'
      BY <1>1, <3>1, <3>2, <2>2 DEF OwnInv, OwnsTgt, Fresh
    <3>5. OwnsTgt(k, madeTgt[g])'
      BY <1>1, <3>1, <3>2, <2>2 DEF OwnInv, OwnsTgt, Fresh
    <3>6. vol[g].uuid <= nextId' /\ vol[g].tgt <= nextId' /\ madeTgt[g] <= nextId'
      BY <3>1, <3>2 DEF OwnInv
    <3> QED
      BY <1>1, <2>2, <3>3, <3>4, <3>5, <3>6 DEF OwnInv
  <2>5. WorkInv(g)'
    <3>1. vol[g].dsm \in Dsms
      BY <1>2, FieldTypes
    <3> QED
      BY <1>1, <1>2, <1>4, <2>1, <2>2, <3>1 DEF HandlerInv, WorkInv, Gone
  <2>6. pc[g] = "lookup" => MapsInv(g)' /\ FoundInv(g)' /\ SeenInv(g)'
    <3> SUFFICES ASSUME pc[g] = "lookup" PROVE MapsInv(g)' /\ FoundInv(g)' /\ SeenInv(g)'
      OBVIOUS
    <3>1. MapsInv(g) /\ FoundInv(g) /\ SeenInv(g)
      BY <1>2 DEF HandlerInv
    <3>2. /\ \A m \in maps[g] : m.dsm \in Dsms
          /\ \A v \in found[g] : v.dsm \in Dsms
      BY <1>2 DEF TypeOK, Mapping, Volume
    <3>3. MapsInv(g)'
      BY <1>1, <2>2, <3>1, <3>2 DEF MapsInv
    <3>4. FoundInv(g)'
      BY <1>1, <2>1, <2>2, <3>1, <3>2 DEF FoundInv
    <3>5. SeenInv(g)'
      BY <1>1, <2>1, <2>2, <3>1, <3>2 DEF SeenInv
    <3> QED
      BY <3>3, <3>4, <3>5
  <2> QED
    BY <1>1, <1>2, <1>4, <2>3, <2>4, <2>5, <2>6 DEF HandlerInv
<1> QED
  BY <1>3, <1>4

\* A step for volume n leaves the CO's view of every other volume true.
LEMMA OtherVolumesKeep ==
    ASSUME IInv, nextId' \in Nat, NEW n \in Names, NEW m \in Names, m # n, Untouched(n), Fresh,
           co'[m] = co[m], pv'[m] = pv[m]
    PROVE  CoInv(m)'
<1>1. CoInv(m) /\ TypeOK
  BY DEF IInv
<1>2. \A d \in Dsms : lun'[d][m] = lun[d][m] /\ target'[d][m] = target[d][m]
  BY DEF Untouched
<1>3. pv[m] \in Nat /\ nextId \in Nat /\ nextId' >= nextId
  BY <1>1 DEF TypeOK, Fresh
<1>4. OwnsLun(m, pv[m])'
  BY <1>1, <1>2, <1>3 DEF CoInv, OwnsLun, Fresh
<1>5. pv'[m] <= nextId'
  BY <1>1, <1>3 DEF CoInv
<1> QED
  BY <1>1, <1>2, <1>4, <1>5 DEF CoInv, Gone

\* What is left to show of a step of handler h for volume n.
LEMMA StepKeeps ==
    ASSUME IInv, TypeOK', NEW n \in Names, NEW h \in Handlers,
           dsms' = dsms, DsmInv', Untouched(n), Fresh, Steady(h),
           \A m \in Names : m # n => co'[m] = co[m] /\ pv'[m] = pv[m],
           \A g \in Handlers : g # h /\ pc[g] # "idle" => call[g].name # n,
           pc'[h] # "idle" => call'[h].name = n,
           CoInv(n)', HandlerInv(h)'
    PROVE  IInv'
<1>0. nextId' \in Nat
  BY DEF TypeOK
<1>1. \A g \in Handlers : HandlerInv(g)'
  BY <1>0, OthersKeep
<1>2. \A m \in Names : CoInv(m)'
  BY <1>0, OtherVolumesKeep
<1>3. SerialInv'
  BY DEF IInv, SerialInv, Steady
<1>4. dsms' = Dsms
  BY DEF IInv
<1> QED
  BY <1>1, <1>2, <1>3, <1>4 DEF IInv

-----------------------------------------------------------------------------
(* The pieces a step of one handler is put together from.                  *)

\* What the invariant says about a handler that serves a call.
LEMMA Mine ==
    ASSUME IInv, NEW h \in Handlers, pc[h] # "idle"
    PROVE  /\ TypeOK /\ DsmInv /\ CoInv(call[h].name) /\ call[h].name \in Names
           /\ CallInv(h) /\ OwnInv(h) /\ WorkInv(h)
           /\ pc[h] # "lookup" => maps[h] = {} /\ found[h] = {}
           /\ pc[h] = "lookup" => MapsInv(h) /\ FoundInv(h) /\ SeenInv(h)
           /\ \A g \in Handlers : g # h /\ pc[g] # "idle" => call[g].name # call[h].name
<1>1. TypeOK /\ HandlerInv(h) /\ SerialInv /\ DsmInv
  BY DEF IInv
<1>2. call[h].name \in Names
  BY <1>1, FieldTypes
<1>3. CoInv(call[h].name)
  BY <1>2 DEF IInv
<1> QED
  BY <1>1, <1>2, <1>3 DEF HandlerInv, SerialInv

\* The CO's view, when the DSMs and the CO stay as they are.
LEMMA IdleCo ==
    ASSUME NEW n \in Names, CoInv(n), UNCHANGED <<lun, target, nextId, co, pv>>
    PROVE  CoInv(n)'
<1>1. lun' = lun /\ target' = target /\ nextId' = nextId /\ co' = co /\ pv' = pv
  OBVIOUS
<1> QED
  BY <1>1 DEF CoInv, OwnsLun, Gone

\* A volume that is being created has no id yet.
LEMMA CreatingCo ==
    ASSUME NEW n \in Names, CoInv(n), nextId' \in Nat, co'[n] = co[n], pv'[n] = pv[n],
           co[n] = "creating"
    PROVE  CoInv(n)'
<1>1. pv'[n] = 0
  BY DEF CoInv
<1> QED
  BY <1>1 DEF CoInv, OwnsLun

\* A handler still owns what it owned.
LEMMA OwnKeeps ==
    ASSUME TypeOK, NEW h \in Handlers, OwnInv(h), Fresh, nextId' \in Nat,
           call'[h] = call[h], vol'[h].uuid = vol[h].uuid, vol'[h].tgt = vol[h].tgt,
           madeTgt'[h] = madeTgt[h]
    PROVE  OwnInv(h)'
<1>1. vol[h].uuid \in Nat /\ vol[h].tgt \in Nat /\ madeTgt[h] \in Nat /\ nextId \in Nat
      /\ nextId' >= nextId
  BY FieldTypes DEF Fresh, TypeOK
<1>2. vol[h].uuid <= nextId' /\ vol[h].tgt <= nextId' /\ madeTgt[h] <= nextId'
  BY <1>1 DEF OwnInv
<1>3. OwnsLun(call[h].name, vol[h].uuid)'
  BY <1>1 DEF OwnInv, OwnsLun, Fresh
<1>4. OwnsTgt(call[h].name, vol[h].tgt)'
  BY <1>1 DEF OwnInv, OwnsTgt, Fresh
<1>5. OwnsTgt(call[h].name, madeTgt[h])'
  BY <1>1 DEF OwnInv, OwnsTgt, Fresh
<1> QED
  BY <1>2, <1>3, <1>4, <1>5 DEF OwnInv

\* A step that ends outside the lookup.
LEMMA ActStep ==
    ASSUME IInv, TypeOK', NEW h \in Handlers, pc[h] # "idle",
           pc'[h] \notin {"idle", "lookup"}, maps'[h] = {}, found'[h] = {},
           call' = call, co' = co, pv' = pv, dsms' = dsms,
           DsmInv', Untouched(call[h].name), Fresh, Steady(h),
           CoInv(call[h].name)', CallInv(h)', OwnInv(h)', WorkInv(h)'
    PROVE  IInv'
<1>1. HandlerInv(h)'
  BY DEF HandlerInv
<1> QED
  BY <1>1, Mine, StepKeeps

CreateLabels == {"pick", "lunCreate", "lunGet", "targetCreate", "targetGet", "lunMap",
                 "undoTarget", "undoLunGet", "undoLunDelete"}

\* A step of a creation, once the lookup is done.
LEMMA CreateStep ==
    ASSUME IInv, TypeOK', NEW h \in Handlers, pc[h] \in CreateLabels,
           pc'[h] \in CreateLabels \cup {"reply"}, maps' = maps, found' = found,
           call' = call, co' = co, pv' = pv, dsms' = dsms,
           DsmInv', Untouched(call[h].name), Fresh, Steady(h), OwnInv(h)', WorkInv(h)'
    PROVE  IInv'
<1>1. pc[h] # "idle" /\ pc[h] # "lookup"
  BY DEF CreateLabels
<1>2. call[h].op = "create" /\ co[call[h].name] = "creating"
  BY <1>1, Mine DEF CallInv, CreateLabels
<1>3. CoInv(call[h].name)'
  BY <1>1, <1>2, Mine, CreatingCo DEF TypeOK
<1>4. CallInv(h)'
  BY <1>2 DEF CallInv, CreateLabels
<1>5. pc'[h] \notin {"idle", "lookup"}
  BY DEF CreateLabels
<1> QED
  BY <1>1, <1>3, <1>4, <1>5, Mine, ActStep

\* The next DSM of service.CreateVolume's loop: nothing is built there yet.
LEMMA PickDsmKeeps ==
    ASSUME IInv, TypeOK', NEW h \in Handlers, PickDsm(h)
    PROVE  IInv'
<1>1. pc[h] = "pick" /\ pc[h] # "idle"
  BY DEF PickDsm
<1>2. /\ pc \in [Handlers -> Labels] /\ vol \in [Handlers -> Volume]
      /\ madeTgt \in [Handlers -> Nat] /\ res \in [Handlers -> Reply] /\ nextId \in Nat
      /\ TypeOK
  BY DEF IInv, TypeOK
<1>3. pc'[h] \in {"lunCreate", "reply"} /\ (pc'[h] = "reply" => res'[h].code = "error")
  BY <1>2 DEF PickDsm, Goto, Respond
<1>4. Steady(h)
  BY <1>2 DEF PickDsm, Goto, Respond, Steady, lookVars, undoVars
<1>5. UNCHANGED <<lun, target, nextId>>
  BY DEF PickDsm, dsmVars
<1>6. DsmInv' /\ Untouched(call[h].name) /\ Fresh
  BY <1>1, <1>5, Mine, IdleDsmKeeps
<1>7. OwnInv(h)'
  <2>1. CASE pc'[h] = "lunCreate"
    BY <1>2, <1>5, <2>1 DEF PickDsm, Goto, Respond, OwnInv, OwnsLun, OwnsTgt, NewVolume
  <2>2. CASE vol' = vol /\ madeTgt' = madeTgt
    BY <1>1, <1>2, <1>5, <1>6, <2>2, Mine, OwnKeeps DEF PickDsm
  <2> QED
    BY <1>2, <2>1, <2>2 DEF PickDsm, Goto, undoVars
<1>8. WorkInv(h)'
  BY <1>3 DEF WorkInv
<1> QED
  BY <1>1, <1>3, <1>4, <1>6, <1>7, <1>8, CreateStep
  DEF PickDsm, CreateLabels, lookVars, coVars

\* createVolumeByDsm makes the LUN, or finds that it exists.
LEMMA LunCreateKeeps ==
    ASSUME IInv, TypeOK', NEW h \in Handlers, LunCreate(h)
    PROVE  IInv'
<1>1. pc[h] = "lunCreate" /\ pc[h] # "idle"
  BY DEF LunCreate
<1>2. /\ pc \in [Handlers -> Labels] /\ madeTgt \in [Handlers -> Nat] /\ nextId' \in Nat
      /\ TypeOK
  BY DEF IInv, TypeOK
<1>3. pc'[h] \in {"lunGet", "pick"}
  BY <1>2 DEF LunCreate, Goto
<1>4. Steady(h)
  BY <1>2 DEF LunCreate, Goto, Steady, lookVars, undoVars
<1>5. /\ vol[h].dsm \in Dsms /\ call[h].name \in Names /\ call[h].size \in Nat
  BY <1>2, FieldTypes
<1>6. \/ lun[vol[h].dsm][call[h].name] = NoLun
         /\ AddLun(vol[h].dsm, call[h].name, call[h].size)
      \/ UNCHANGED <<lun, target, nextId>>
  BY DEF LunCreate, dsmVars
<1>7. DsmInv' /\ Untouched(call[h].name) /\ Fresh
  BY <1>1, <1>5, <1>6, Mine, AddLunKeeps, IdleDsmKeeps
<1>8. vol' = vol /\ madeTgt' = madeTgt /\ call' = call
  BY DEF LunCreate, undoVars
<1>9. OwnInv(h)'
  BY <1>1, <1>2, <1>7, <1>8, Mine, OwnKeeps
<1>10. WorkInv(h)'
  BY <1>3 DEF WorkInv
<1> QED
  BY <1>1, <1>3, <1>4, <1>7, <1>9, <1>10, CreateStep
  DEF LunCreate, CreateLabels, lookVars, coVars

\* The id of a LUN or a target is its own.
LEMMA HeldIds ==
    ASSUME DsmInv, NEW d \in Dsms, NEW n \in Names
    PROVE  /\ lun[d][n].uuid <= nextId /\ OwnsLun(n, lun[d][n].uuid)
           /\ target[d][n].id <= nextId /\ OwnsTgt(n, target[d][n].id)
           /\ lun[d][n] # NoLun => lun[d][n].uuid # 0
           /\ target[d][n] # NoTarget => target[d][n].id # 0
  BY DEF DsmInv, OwnsLun, OwnsTgt

UndoLabels == {"undoTarget", "undoLunGet", "pick"}

\* createVolumeByDsm holds the LUN of its name, or gives up.
LEMMA LunGetKeeps ==
    ASSUME IInv, TypeOK', NEW h \in Handlers, LunGet(h)
    PROVE  IInv'
<1> DEFINE d == vol[h].dsm
           n == call[h].name
<1>1. pc[h] = "lunGet" /\ pc[h] # "idle"
  BY DEF LunGet
<1>2. /\ pc \in [Handlers -> Labels] /\ vol \in [Handlers -> Volume] /\ nextId' \in Nat
      /\ TypeOK
  BY DEF IInv, TypeOK
<1>3. Steady(h)
  BY <1>2 DEF LunGet, Goto, Undo, UndoLun, Steady, lookVars, undoVars
<1>4. UNCHANGED <<lun, target, nextId>> /\ call' = call /\ madeTgt' = madeTgt
  BY DEF LunGet, dsmVars, undoVars
<1>5. DsmInv' /\ Untouched(call[h].name) /\ Fresh
  BY <1>1, <1>4, Mine, IdleDsmKeeps
<1>6. d \in Dsms /\ n \in Names
  BY <1>2, FieldTypes
<1>7. CASE vol' = vol /\ pc'[h] \in UndoLabels
  <2>1. OwnInv(h)'
    BY <1>1, <1>2, <1>4, <1>5, <1>7, Mine, OwnKeeps
  <2>2. WorkInv(h)'
    BY <1>7 DEF WorkInv, UndoLabels
  <2> QED
    BY <1>1, <1>3, <1>5, <1>7, <2>1, <2>2, CreateStep
    DEF LunGet, CreateLabels, UndoLabels, lookVars, coVars
<1>8. CASE /\ lun[d][n] # NoLun /\ pc'[h] = "targetCreate"
           /\ vol'[h] = WithLun(vol[h], lun[d][n])
  <2>1. vol'[h].uuid = lun[d][n].uuid /\ vol'[h].dsm = d /\ vol'[h].tgt = vol[h].tgt
    BY <1>8 DEF WithLun
  <2>2. OwnInv(h)'
    BY <1>1, <1>4, <1>6, <2>1, Mine, HeldIds DEF OwnInv, OwnsLun, OwnsTgt
  <2>3. lun[d][n].uuid # 0
    BY <1>1, <1>6, <1>8, Mine, HeldIds
  <2>4. WorkInv(h)'
    BY <1>4, <1>8, <2>1, <2>3 DEF WorkInv
  <2> QED
    BY <1>1, <1>3, <1>5, <1>8, <2>2, <2>4, CreateStep DEF LunGet, CreateLabels, lookVars, coVars
<1> QED
  BY <1>2, <1>7, <1>8 DEF LunGet, Goto, Undo, UndoLun, UndoLabels

\* createMappingTarget makes the target; the rollback then owns it.
LEMMA TargetCreateKeeps ==
    ASSUME IInv, TypeOK', NEW h \in Handlers, TargetCreate(h)
    PROVE  IInv'
<1>1. pc[h] = "targetCreate" /\ pc[h] # "idle"
  BY DEF TargetCreate
<1>2. /\ pc \in [Handlers -> Labels] /\ madeTgt \in [Handlers -> Nat] /\ nextId' \in Nat
      /\ nextId \in Nat /\ TypeOK
  BY DEF IInv, TypeOK
<1>3. Steady(h)
  BY <1>2 DEF TargetCreate, Goto, Undo, UndoLun, Steady, lookVars, undoVars
<1>4. vol[h].dsm \in Dsms /\ call[h].name \in Names
  BY <1>2, FieldTypes
<1>5. \/ target[vol[h].dsm][call[h].name] = NoTarget /\ AddTarget(vol[h].dsm, call[h].name)
      \/ UNCHANGED <<lun, target, nextId>>
  BY DEF TargetCreate, dsmVars
<1>6. DsmInv' /\ Untouched(call[h].name) /\ Fresh
  BY <1>1, <1>4, <1>5, Mine, AddTargetKeeps, IdleDsmKeeps
<1>7. vol' = vol /\ call' = call /\ lun' = lun
  BY DEF TargetCreate, AddTarget, dsmVars
<1>8. OwnInv(h)'
  <2>1. CASE madeTgt' = madeTgt
    BY <1>1, <1>2, <1>6, <1>7, <2>1, Mine, OwnKeeps
  <2>2. CASE AddTarget(vol[h].dsm, call[h].name) /\ madeTgt'[h] = nextId + 1
    <3>1. OwnInv(h) /\ DsmInv
      BY <1>1, Mine
    <3>2. nextId' = nextId + 1 /\ vol[h].uuid \in Nat /\ vol[h].tgt \in Nat
      BY <1>2, <2>2, FieldTypes DEF AddTarget
    <3>3. \A e \in Dsms, m \in Names : target'[e][m] =
             IF e = vol[h].dsm /\ m = call[h].name THEN [id |-> nextId + 1, luns |-> {}]
                                                    ELSE target[e][m]
      BY <1>2, <2>2 DEF AddTarget, TypeOK
    <3>4. OwnsLun(call[h].name, vol[h].uuid)'
      BY <1>7, <3>1 DEF OwnInv, OwnsLun
    <3>5. OwnsTgt(call[h].name, vol[h].tgt)'
      BY <1>2, <1>7, <3>1, <3>2, <3>3 DEF OwnInv, OwnsTgt
    <3>6. OwnsTgt(call[h].name, madeTgt[h])'
      BY <1>2, <1>7, <2>2, <3>1, <3>3, IdTypes DEF OwnsTgt, DsmInv
    <3>7. vol[h].uuid <= nextId' /\ vol[h].tgt <= nextId' /\ madeTgt'[h] <= nextId'
      BY <1>2, <2>2, <3>1, <3>2 DEF OwnInv
    <3> QED
      BY <1>7, <3>4, <3>5, <3>6, <3>7 DEF OwnInv
  <2> QED
    BY <1>2, <2>1, <2>2 DEF TargetCreate, undoVars
<1>9. pc'[h] \in {"targetGet"} \cup UndoLabels
  BY <1>2 DEF TargetCreate, Goto, Undo, UndoLun, UndoLabels
<1>10. WorkInv(h)'
  BY <1>1, <1>7, <1>9, Mine DEF WorkInv, UndoLabels
<1> QED
  BY <1>1, <1>3, <1>6, <1>8, <1>9, <1>10, CreateStep
  DEF TargetCreate, CreateLabels, UndoLabels, lookVars, coVars

\* createMappingTarget holds the target of its name, or gives up.
LEMMA TargetGetKeeps ==
    ASSUME IInv, TypeOK', NEW h \in Handlers, TargetGet(h)
    PROVE  IInv'
<1> DEFINE d == vol[h].dsm
           n == call[h].name
<1>1. pc[h] = "targetGet" /\ pc[h] # "idle"
  BY DEF TargetGet
<1>2. /\ pc \in [Handlers -> Labels] /\ vol \in [Handlers -> Volume] /\ nextId' \in Nat
      /\ TypeOK
  BY DEF IInv, TypeOK
<1>3. Steady(h)
  BY <1>2 DEF TargetGet, Goto, Undo, UndoLun, Steady, lookVars, undoVars
<1>4. UNCHANGED <<lun, target, nextId>> /\ call' = call /\ madeTgt' = madeTgt
  BY DEF TargetGet, dsmVars, undoVars
<1>5. DsmInv' /\ Untouched(call[h].name) /\ Fresh
  BY <1>1, <1>4, Mine, IdleDsmKeeps
<1>6. d \in Dsms /\ n \in Names
  BY <1>2, FieldTypes
<1>7. CASE vol' = vol /\ pc'[h] \in UndoLabels
  <2>1. OwnInv(h)'
    BY <1>1, <1>2, <1>4, <1>5, <1>7, Mine, OwnKeeps
  <2>2. WorkInv(h)'
    BY <1>7 DEF WorkInv, UndoLabels
  <2> QED
    BY <1>1, <1>3, <1>5, <1>7, <2>1, <2>2, CreateStep
    DEF TargetGet, CreateLabels, UndoLabels, lookVars, coVars
<1>8. CASE /\ target[d][n] # NoTarget /\ pc'[h] = "lunMap"
           /\ vol'[h] = WithTarget(vol[h], target[d][n])
  <2>1. vol'[h].tgt = target[d][n].id /\ vol'[h].dsm = d /\ vol'[h].uuid = vol[h].uuid
    BY <1>8 DEF WithTarget
  <2>2. OwnInv(h)'
    BY <1>1, <1>4, <1>6, <2>1, Mine, HeldIds DEF OwnInv, OwnsLun, OwnsTgt
  <2>3. target[d][n].id # 0
    BY <1>1, <1>6, <1>8, Mine, HeldIds
  <2>4. vol[h].uuid # 0 /\ lun[d][n].uuid = vol[h].uuid
    BY <1>1, Mine DEF WorkInv
  <2>5. WorkInv(h)'
    BY <1>4, <1>8, <2>1, <2>3, <2>4 DEF WorkInv
  <2> QED
    BY <1>1, <1>3, <1>5, <1>8, <2>2, <2>5, CreateStep
    DEF TargetGet, CreateLabels, lookVars, coVars
<1> QED
  BY <1>2, <1>7, <1>8 DEF TargetGet, Goto, Undo, UndoLun, UndoLabels

\* A creation that answers OK has mapped the LUN it answers with.
LEMMA LunMapTargetKeeps ==
    ASSUME IInv, TypeOK', NEW h \in Handlers, LunMapTarget(h)
    PROVE  IInv'
<1> DEFINE d == vol[h].dsm
           n == call[h].name
<1>1. pc[h] = "lunMap" /\ pc[h] # "idle"
  BY DEF LunMapTarget
<1>2. /\ pc \in [Handlers -> Labels] /\ res \in [Handlers -> Reply] /\ nextId' \in Nat
      /\ TypeOK
  BY DEF IInv, TypeOK
<1>3. Steady(h)
  BY <1>2 DEF LunMapTarget, RespondVolume, Respond, Goto, Undo, UndoLun, Steady, lookVars,
              undoVars
<1>4. /\ d \in Dsms /\ n \in Names /\ vol[h].tgt \in Nat /\ vol[h].uuid \in Nat
  BY <1>2, FieldTypes
<1>5. /\ vol[h].uuid # 0 /\ lun[d][n].uuid = vol[h].uuid
      /\ vol[h].tgt # 0 /\ target[d][n].id = vol[h].tgt
  BY <1>1, Mine DEF WorkInv
<1>6. \/ MapLun(d, vol[h].tgt, vol[h].uuid)
      \/ UNCHANGED <<lun, target, nextId>>
  BY DEF LunMapTarget, dsmVars
<1>7. DsmInv' /\ Untouched(call[h].name) /\ Fresh
  BY <1>1, <1>4, <1>5, <1>6, Mine, MapLunKeeps, IdleDsmKeeps
<1>8. vol' = vol /\ call' = call /\ madeTgt' = madeTgt
  BY DEF LunMapTarget, undoVars
<1>9. OwnInv(h)'
  BY <1>1, <1>2, <1>7, <1>8, Mine, OwnKeeps
<1>10. CASE pc'[h] \in UndoLabels
  <2>1. WorkInv(h)'
    BY <1>10 DEF WorkInv, UndoLabels
  <2> QED
    BY <1>1, <1>3, <1>7, <1>9, <1>10, <2>1, CreateStep
    DEF LunMapTarget, CreateLabels, UndoLabels, lookVars, coVars
<1>11. CASE /\ MapLun(d, vol[h].tgt, vol[h].uuid) /\ pc'[h] = "reply"
            /\ res'[h].id = vol[h].uuid
  <2>1. lun' = lun /\ vol[h].uuid \in target'[d][n].luns
    BY <1>1, <1>4, <1>5, <1>11, Mine, MapLunKeeps
  <2>2. call[h].op = "create"
    BY <1>1, Mine DEF CallInv
  <2>3. WorkInv(h)'
    BY <1>4, <1>5, <1>8, <1>11, <2>1, <2>2 DEF WorkInv
  <2> QED
    BY <1>1, <1>3, <1>7, <1>9, <1>11, <2>3, CreateStep
    DEF LunMapTarget, CreateLabels, lookVars, coVars
<1> QED
  BY <1>2, <1>10, <1>11
  DEF LunMapTarget, RespondVolume, Respond, Goto, Undo, UndoLun, UndoLabels

\* The rollback removes a target of its own volume only.
LEMMA UndoTargetKeeps ==
    ASSUME IInv, TypeOK', NEW h \in Handlers, UndoTarget(h)
    PROVE  IInv'
<1>1. pc[h] = "undoTarget" /\ pc[h] # "idle"
  BY DEF UndoTarget
<1>2. pc \in [Handlers -> Labels] /\ nextId' \in Nat /\ TypeOK
  BY DEF IInv, TypeOK
<1>3. Steady(h)
  BY <1>2 DEF UndoTarget, Goto, UndoLun, Steady, lookVars, undoVars
<1>4. vol[h].dsm \in Dsms /\ call[h].name \in Names /\ madeTgt[h] \in Nat
  BY <1>2, FieldTypes
<1>5. \/ madeTgt[h] # 0 /\ RemoveTarget(vol[h].dsm, madeTgt[h])
      \/ UNCHANGED <<lun, target, nextId>>
  BY DEF UndoTarget, HasTarget, dsmVars
<1>6. OwnsTgt(call[h].name, madeTgt[h])
  BY <1>1, Mine DEF OwnInv
<1>7. DsmInv' /\ Untouched(call[h].name) /\ Fresh
  BY <1>1, <1>4, <1>5, <1>6, Mine, RemoveTargetKeeps, IdleDsmKeeps
<1>8. vol' = vol /\ call' = call /\ madeTgt' = madeTgt
  BY DEF UndoTarget, undoVars
<1>9. OwnInv(h)'
  BY <1>1, <1>2, <1>7, <1>8, Mine, OwnKeeps
<1>10. pc'[h] \in UndoLabels
  BY <1>2 DEF UndoTarget, Goto, UndoLun, UndoLabels
<1>11. WorkInv(h)'
  BY <1>10 DEF WorkInv, UndoLabels
<1> QED
  BY <1>1, <1>3, <1>7, <1>9, <1>10, <1>11, CreateStep
  DEF UndoTarget, CreateLabels, UndoLabels, lookVars, coVars

\* The rollback finds a LUN of its own volume only.
LEMMA UndoLunGetKeeps ==
    ASSUME IInv, TypeOK', NEW h \in Handlers, UndoLunGet(h)
    PROVE  IInv'
<1> DEFINE d == vol[h].dsm
           n == call[h].name
<1>1. pc[h] = "undoLunGet" /\ pc[h] # "idle"
  BY DEF UndoLunGet
<1>2. /\ pc \in [Handlers -> Labels] /\ vol \in [Handlers -> Volume] /\ nextId' \in Nat
      /\ TypeOK
  BY DEF IInv, TypeOK
<1>3. Steady(h)
  BY <1>2 DEF UndoLunGet, Goto, Steady, lookVars, undoVars
<1>4. UNCHANGED <<lun, target, nextId>> /\ call' = call /\ madeTgt' = madeTgt
  BY DEF UndoLunGet, dsmVars, undoVars
<1>5. DsmInv' /\ Untouched(call[h].name) /\ Fresh
  BY <1>1, <1>4, Mine, IdleDsmKeeps
<1>6. d \in Dsms /\ n \in Names
  BY <1>2, FieldTypes
<1>7. pc'[h] \in {"undoLunDelete", "pick"}
  BY <1>2 DEF UndoLunGet, Goto
<1>8. WorkInv(h)'
  BY <1>7 DEF WorkInv
<1>9. OwnInv(h)'
  <2>1. CASE vol' = vol
    BY <1>1, <1>2, <1>4, <1>5, <2>1, Mine, OwnKeeps
  <2>2. CASE vol'[h] = WithLun(vol[h], lun[d][n])
    <3>1. vol'[h].uuid = lun[d][n].uuid /\ vol'[h].tgt = vol[h].tgt
      BY <2>2 DEF WithLun
    <3> QED
      BY <1>1, <1>4, <1>6, <3>1, Mine, HeldIds DEF OwnInv, OwnsLun, OwnsTgt
  <2> QED
    BY <1>2, <2>1, <2>2 DEF UndoLunGet
<1> QED
  BY <1>1, <1>3, <1>5, <1>7, <1>8, <1>9, CreateStep
  DEF UndoLunGet, CreateLabels, lookVars, coVars

\* The rollback removes a LUN of its own volume only, which the CO has not
\* recorded.
LEMMA UndoLunDeleteKeeps ==
    ASSUME IInv, TypeOK', NEW h \in Handlers, UndoLunDelete(h)
    PROVE  IInv'
<1>1. pc[h] = "undoLunDelete" /\ pc[h] # "idle"
  BY DEF UndoLunDelete
<1>2. pc \in [Handlers -> Labels] /\ nextId' \in Nat /\ TypeOK
  BY DEF IInv, TypeOK
<1>3. Steady(h)
  BY <1>2 DEF UndoLunDelete, Goto, Steady, lookVars, undoVars
<1>4. vol[h].dsm \in Dsms /\ call[h].name \in Names /\ vol[h].uuid \in Nat
  BY <1>2, FieldTypes
<1>5. \/ vol[h].uuid # 0 /\ RemoveLun(vol[h].dsm, vol[h].uuid)
      \/ UNCHANGED <<lun, target, nextId>>
  BY DEF UndoLunDelete, HasLun, dsmVars
<1>6. OwnsLun(call[h].name, vol[h].uuid)
  BY <1>1, Mine DEF OwnInv
<1>7. DsmInv' /\ Untouched(call[h].name) /\ Fresh
  BY <1>1, <1>4, <1>5, <1>6, Mine, RemoveLunKeeps, IdleDsmKeeps
<1>8. vol' = vol /\ call' = call /\ madeTgt' = madeTgt
  BY DEF UndoLunDelete, undoVars
<1>9. OwnInv(h)'
  BY <1>1, <1>2, <1>7, <1>8, Mine, OwnKeeps
<1>10. pc'[h] = "pick"
  BY <1>2 DEF UndoLunDelete, Goto
<1>11. WorkInv(h)'
  BY <1>10 DEF WorkInv
<1> QED
  BY <1>1, <1>3, <1>7, <1>9, <1>10, <1>11, CreateStep
  DEF UndoLunDelete, CreateLabels, lookVars, coVars

\* The CO's view of a volume that is being deleted, once its LUN is gone.
LEMMA GoneCo ==
    ASSUME TypeOK, NEW n \in Names, CoInv(n), nextId' \in Nat, Fresh, Gone(n)',
           co'[n] = co[n], pv'[n] = pv[n], co[n] = "deleting"
    PROVE  CoInv(n)'
<1>1. pv[n] \in Nat /\ nextId \in Nat /\ nextId' >= nextId
  BY DEF TypeOK, Fresh
<1>2. pv'[n] <= nextId'
  BY <1>1 DEF CoInv
<1>3. OwnsLun(n, pv[n])'
  BY <1>1 DEF CoInv, OwnsLun, Fresh
<1> QED
  BY <1>2, <1>3 DEF CoInv, Gone

DeleteLabels == {"lunDelete", "lunCheck", "targetDelete", "targetCheck"}

\* A step of a deletion, once the lookup is done.
LEMMA DeleteStep ==
    ASSUME IInv, TypeOK', NEW h \in Handlers, pc[h] \in DeleteLabels,
           pc'[h] \in DeleteLabels \cup {"reply"}, maps' = maps, found' = found,
           call' = call, co' = co, pv' = pv, dsms' = dsms, vol' = vol, madeTgt' = madeTgt,
           DsmInv', Untouched(call[h].name), Fresh, Steady(h), WorkInv(h)',
           Gone(call[h].name)' \/ UNCHANGED <<lun, target, nextId>>
    PROVE  IInv'
<1>1. pc[h] # "idle" /\ pc[h] # "lookup"
  BY DEF DeleteLabels
<1>2. /\ call[h].op = "delete" /\ co[call[h].name] = "deleting"
      /\ call[h].id = pv[call[h].name]
  BY <1>1, Mine DEF CallInv, DeleteLabels
<1>3. TypeOK /\ nextId' \in Nat
  BY DEF IInv, TypeOK
<1>4. CoInv(call[h].name)'
  BY <1>1, <1>2, <1>3, Mine, GoneCo, IdleCo
<1>5. CallInv(h)'
  BY <1>2 DEF CallInv, DeleteLabels
<1>6. OwnInv(h)'
  BY <1>1, <1>3, Mine, OwnKeeps
<1>7. pc'[h] \notin {"idle", "lookup"}
  BY DEF DeleteLabels
<1> QED
  BY <1>1, <1>4, <1>5, <1>6, <1>7, Mine, ActStep

\* DeleteVolume goes on to the target only when the LUN is on no DSM.
LEMMA LunDeleteKeeps ==
    ASSUME IInv, TypeOK', NEW h \in Handlers, LunDelete(h)
    PROVE  IInv'
<1> DEFINE n == call[h].name
           v == vol[h]
<1>1. pc[h] = "lunDelete" /\ pc[h] # "idle"
  BY DEF LunDelete
<1>2. pc \in [Handlers -> Labels] /\ res \in [Handlers -> Reply] /\ TypeOK
  BY DEF IInv, TypeOK
<1>3. Steady(h)
  BY <1>2 DEF LunDelete, AfterLunDelete, Respond, Goto, Steady, lookVars, undoVars
<1>4. v.dsm \in Dsms /\ n \in Names /\ v.uuid \in Nat
  BY <1>2, FieldTypes
<1>5. /\ v.uuid = pv[n] /\ \A d \in Dsms : d # v.dsm => lun[d][n].uuid # pv[n]
      /\ call[h].op = "delete" /\ OwnsLun(n, v.uuid)
  BY <1>1, Mine DEF WorkInv, CallInv, OwnInv
<1>6. vol' = vol /\ madeTgt' = madeTgt /\ call' = call /\ pv' = pv
  BY DEF LunDelete, undoVars, coVars
<1>7. pc'[h] \in DeleteLabels \cup {"reply"}
  BY <1>2 DEF LunDelete, AfterLunDelete, Respond, Goto, DeleteLabels
<1>8. CASE UNCHANGED <<lun, target, nextId>> /\ pc'[h] = "lunCheck"
  <2>1. DsmInv' /\ Untouched(n) /\ Fresh
    BY <1>1, <1>8, Mine, IdleDsmKeeps
  <2>2. WorkInv(h)'
    BY <1>5, <1>6, <1>8 DEF WorkInv
  <2> QED
    BY <1>1, <1>3, <1>6, <1>7, <1>8, <2>1, <2>2, DeleteStep
    DEF LunDelete, DeleteLabels, lookVars, coVars
<1>9. CASE v.uuid # 0 /\ RemoveLun(v.dsm, v.uuid)
  <2>1. /\ DsmInv' /\ Untouched(n) /\ Fresh
        /\ \A e \in Dsms : lun'[e][n].uuid =
             IF e = v.dsm /\ lun[v.dsm][n].uuid = v.uuid THEN 0 ELSE lun[e][n].uuid
    BY <1>1, <1>4, <1>5, <1>9, Mine, RemoveLunKeeps
  <2>2. Gone(n)'
    BY <1>5, <1>6, <1>9, <2>1 DEF Gone
  <2>3. WorkInv(h)'
    <3>1. pc'[h] \in {"lunCheck", "targetDelete", "reply"}
      BY <1>2 DEF LunDelete, AfterLunDelete, Respond, Goto
    <3> QED
      BY <1>5, <1>6, <2>2, <3>1 DEF WorkInv, Gone
  <2> QED
    BY <1>1, <1>3, <1>6, <1>7, <2>1, <2>2, <2>3, DeleteStep
    DEF LunDelete, DeleteLabels, lookVars, coVars
<1> QED
  BY <1>2, <1>8, <1>9 DEF LunDelete, Goto, HasLun, dsmVars

\* A failed LunDelete counts as done only if the LUN is on no DSM.
LEMMA LunCheckKeeps ==
    ASSUME IInv, TypeOK', NEW h \in Handlers, LunCheck(h)
    PROVE  IInv'
<1> DEFINE n == call[h].name
           v == vol[h]
<1>1. pc[h] = "lunCheck" /\ pc[h] # "idle"
  BY DEF LunCheck
<1>2. pc \in [Handlers -> Labels] /\ res \in [Handlers -> Reply] /\ TypeOK
  BY DEF IInv, TypeOK
<1>3. Steady(h)
  BY <1>2 DEF LunCheck, Respond, Goto, Steady, lookVars, undoVars
<1>4. v.dsm \in Dsms /\ n \in Names
  BY <1>2, FieldTypes
<1>5. /\ v.uuid = pv[n] /\ \A d \in Dsms : d # v.dsm => lun[d][n].uuid # pv[n]
      /\ call[h].op = "delete" /\ pv[n] # 0
  BY <1>1, Mine DEF WorkInv, CallInv, CoInv
<1>6. vol' = vol /\ madeTgt' = madeTgt /\ call' = call /\ pv' = pv
  BY DEF LunCheck, undoVars, coVars
<1>7. UNCHANGED <<lun, target, nextId>> /\ pc'[h] = "reply"
  BY <1>2 DEF LunCheck, Respond, Goto, dsmVars
<1>8. DsmInv' /\ Untouched(n) /\ Fresh
  BY <1>1, <1>7, Mine, IdleDsmKeeps
<1>9. res'[h].code = "OK" => ~HasLun(v.dsm, v.uuid)
  BY <1>2 DEF LunCheck, Respond
<1>10. WorkInv(h)'
  BY <1>4, <1>5, <1>6, <1>7, <1>9 DEF WorkInv, Gone, HasLun
<1> QED
  BY <1>1, <1>3, <1>6, <1>7, <1>8, <1>10, DeleteStep
  DEF LunCheck, DeleteLabels, lookVars, coVars

\* Removing the target brings no LUN back.
LEMMA TargetDeleteKeeps ==
    ASSUME IInv, TypeOK', NEW h \in Handlers, TargetDelete(h)
    PROVE  IInv'
<1> DEFINE n == call[h].name
           v == vol[h]
<1>1. pc[h] = "targetDelete" /\ pc[h] # "idle"
  BY DEF TargetDelete
<1>2. pc \in [Handlers -> Labels] /\ res \in [Handlers -> Reply] /\ TypeOK
  BY DEF IInv, TypeOK
<1>3. Steady(h)
  BY <1>2 DEF TargetDelete, Respond, Goto, Steady, lookVars, undoVars
<1>4. v.dsm \in Dsms /\ n \in Names /\ v.tgt \in Nat
  BY <1>2, FieldTypes
<1>5. Gone(n) /\ OwnsTgt(n, v.tgt) /\ call[h].op = "delete"
  BY <1>1, Mine DEF WorkInv, OwnInv, CallInv
<1>6. vol' = vol /\ madeTgt' = madeTgt /\ call' = call /\ pv' = pv /\ lun' = lun
  BY DEF TargetDelete, RemoveTarget, undoVars, coVars, dsmVars
<1>7. \/ v.tgt # 0 /\ RemoveTarget(v.dsm, v.tgt)
      \/ UNCHANGED <<lun, target, nextId>>
  BY DEF TargetDelete, HasTarget, dsmVars
<1>8. DsmInv' /\ Untouched(n) /\ Fresh
  BY <1>1, <1>4, <1>5, <1>7, Mine, RemoveTargetKeeps, IdleDsmKeeps
<1>9. Gone(n)'
  BY <1>5, <1>6 DEF Gone
<1>10. pc'[h] \in {"targetCheck", "reply"}
  BY <1>2 DEF TargetDelete, Respond, Goto
<1>11. WorkInv(h)'
  BY <1>5, <1>6, <1>9, <1>10 DEF WorkInv
<1> QED
  BY <1>1, <1>3, <1>6, <1>8, <1>9, <1>10, <1>11, DeleteStep
  DEF TargetDelete, DeleteLabels, lookVars, coVars

\* Whatever TargetGet answers, the LUN is gone.
LEMMA TargetCheckKeeps ==
    ASSUME IInv, TypeOK', NEW h \in Handlers, TargetCheck(h)
    PROVE  IInv'
<1> DEFINE n == call[h].name
<1>1. pc[h] = "targetCheck" /\ pc[h] # "idle"
  BY DEF TargetCheck
<1>2. pc \in [Handlers -> Labels] /\ res \in [Handlers -> Reply] /\ TypeOK
  BY DEF IInv, TypeOK
<1>3. Steady(h)
  BY <1>2 DEF TargetCheck, Respond, Goto, Steady, lookVars, undoVars
<1>4. Gone(n) /\ call[h].op = "delete"
  BY <1>1, Mine DEF WorkInv, CallInv
<1>5. vol' = vol /\ madeTgt' = madeTgt /\ call' = call /\ pv' = pv
  BY DEF TargetCheck, undoVars, coVars
<1>6. UNCHANGED <<lun, target, nextId>> /\ pc'[h] = "reply"
  BY <1>2 DEF TargetCheck, Respond, Goto, dsmVars
<1>7. DsmInv' /\ Untouched(n) /\ Fresh
  BY <1>1, <1>6, Mine, IdleDsmKeeps
<1>8. Gone(n)'
  BY <1>4, <1>5, <1>6 DEF Gone
<1>9. WorkInv(h)'
  BY <1>4, <1>5, <1>6, <1>8 DEF WorkInv
<1> QED
  BY <1>1, <1>3, <1>5, <1>6, <1>7, <1>9, DeleteStep
  DEF TargetCheck, DeleteLabels, lookVars, coVars

\* ExpandVolume neither moves nor unmaps a LUN.
LEMMA LunUpdateKeeps ==
    ASSUME IInv, TypeOK', NEW h \in Handlers, LunUpdate(h)
    PROVE  IInv'
<1> DEFINE n == call[h].name
           v == vol[h]
<1>1. pc[h] = "lunUpdate" /\ pc[h] # "idle" /\ pc[h] # "lookup"
  BY DEF LunUpdate
<1>2. pc \in [Handlers -> Labels] /\ res \in [Handlers -> Reply] /\ nextId' \in Nat /\ TypeOK
  BY DEF IInv, TypeOK
<1>3. Steady(h)
  BY <1>2 DEF LunUpdate, Respond, Goto, Steady, lookVars, undoVars
<1>4. v.dsm \in Dsms /\ n \in Names /\ v.uuid \in Nat /\ call[h].size \in Nat
  BY <1>2, FieldTypes
<1>5. OwnsLun(n, v.uuid) /\ call[h].op = "expand" /\ CallInv(h) /\ CoInv(n)
  BY <1>1, Mine DEF OwnInv, CallInv
<1>6. vol' = vol /\ madeTgt' = madeTgt /\ call' = call /\ pv' = pv /\ co' = co
  BY DEF LunUpdate, undoVars, coVars
<1>7. \/ v.uuid # 0 /\ SetLunSize(v.dsm, v.uuid, call[h].size)
      \/ UNCHANGED <<lun, target, nextId>>
  BY DEF LunUpdate, SetLunSize, HasLun, dsmVars
<1>8. /\ DsmInv' /\ Untouched(n) /\ Fresh /\ target' = target
      /\ \A e \in Dsms : lun'[e][n].uuid = lun[e][n].uuid
  BY <1>1, <1>4, <1>5, <1>7, Mine, SetLunSizeKeeps, IdleDsmKeeps
<1>9. pc'[h] = "reply"
  BY <1>2 DEF LunUpdate, Respond, Goto
<1>10. CoInv(n)'
  <2>1. pv[n] \in Nat /\ nextId \in Nat /\ nextId' >= nextId
    BY <1>2, <1>4, <1>8 DEF TypeOK, Fresh
  <2>2. pv[n] <= nextId'
    BY <1>2, <1>5, <2>1 DEF CoInv
  <2>3. OwnsLun(n, pv[n])'
    BY <1>5, <1>6, <1>8, <2>1 DEF CoInv, OwnsLun, Fresh
  <2> QED
    BY <1>5, <1>6, <1>8, <2>2, <2>3 DEF CoInv, Gone
<1>11. CallInv(h)'
  BY <1>5, <1>6, <1>9 DEF CallInv
<1>12. OwnInv(h)'
  BY <1>1, <1>2, <1>6, <1>8, Mine, OwnKeeps
<1>13. WorkInv(h)'
  BY <1>5, <1>6, <1>9 DEF WorkInv
<1>14. maps'[h] = {} /\ found'[h] = {} /\ dsms' = dsms
  BY <1>1, Mine DEF LunUpdate, lookVars
<1> QED
  BY <1>1, <1>3, <1>6, <1>8, <1>9, <1>10, <1>11, <1>12, <1>13, <1>14, ActStep

\* A step of findVolume: only what it gathers changes.
LEMMA LookupStep ==
    ASSUME IInv, TypeOK', NEW h \in Handlers, pc[h] = "lookup",
           UNCHANGED <<lun, target, nextId, dsms, pc, call, vol, madeTgt, res, co, pv>>,
           Steady(h), MapsInv(h)', FoundInv(h)', SeenInv(h)'
    PROVE  IInv'
<1>1. pc[h] # "idle" /\ TypeOK /\ nextId' \in Nat
  BY DEF IInv, TypeOK
<1>2. DsmInv' /\ Untouched(call[h].name) /\ Fresh
  BY <1>1, Mine, IdleDsmKeeps
<1>3. CoInv(call[h].name)'
  BY <1>1, Mine, IdleCo
<1>4. OwnInv(h)'
  BY <1>1, <1>2, Mine, OwnKeeps
<1>5. CallInv(h)'
  BY <1>1, Mine DEF CallInv
<1>6. WorkInv(h)'
  BY DEF WorkInv
<1>7. HandlerInv(h)'
  BY <1>4, <1>5, <1>6 DEF HandlerInv
<1> QED
  BY <1>1, <1>2, <1>3, <1>7, Mine, StepKeeps

\* What one TargetList reveals.
LEMMA MappingsFacts ==
    ASSUME NEW d \in Dsms
    PROVE  /\ \A m \in Mappings(d) : \E n \in Names : \E u \in target[d][n].luns :
                m.dsm = d /\ m.uuid = u /\ m.tgt = target[d][n].id
           /\ \A n \in Names : \A u \in target[d][n].luns :
                \E m \in Mappings(d) : m.dsm = d /\ m.uuid = u
<1>1. ASSUME NEW m \in Mappings(d)
      PROVE  \E n \in Names : \E u \in target[d][n].luns :
                m.dsm = d /\ m.uuid = u /\ m.tgt = target[d][n].id
  <2>1. PICK n \in Names : m \in {[dsm |-> d, uuid |-> u, tgt |-> target[d][n].id,
                                   luns |-> target[d][n].luns] : u \in target[d][n].luns}
    BY DEF Mappings
  <2> QED
    BY <2>1
<1>2. ASSUME NEW n \in Names, NEW u \in target[d][n].luns
      PROVE  \E m \in Mappings(d) : m.dsm = d /\ m.uuid = u
  <2> DEFINE m == [dsm |-> d, uuid |-> u, tgt |-> target[d][n].id, luns |-> target[d][n].luns]
  <2>1. m \in Mappings(d)
    BY DEF Mappings
  <2>2. m.dsm = d /\ m.uuid = u
    OBVIOUS
  <2> QED
    BY <2>1, <2>2
<1> QED
  BY <1>1, <1>2

\* A DSM leaves the list of those to visit only with its mappings gathered, or
\* with an error.
LEMMA ListTargetsKeeps ==
    ASSUME IInv, TypeOK', NEW h \in Handlers, ListTargets(h)
    PROVE  IInv'
<1> DEFINE n == call[h].name
<1>1. pc[h] = "lookup" /\ pc[h] # "idle" /\ maps[h] = {}
  BY DEF ListTargets
<1>2. /\ todo \in [Handlers -> SUBSET Dsms] /\ maps \in [Handlers -> SUBSET Mapping]
      /\ listErr \in [Handlers -> {"nil", "incomplete"}] /\ TypeOK /\ n \in Names
  BY FieldTypes DEF IInv, TypeOK
<1>3. UNCHANGED <<lun, target, nextId, dsms, pc, call, vol, madeTgt, res, co, pv, found>>
  BY DEF ListTargets, dsmVars, undoVars, coVars
<1>4. Steady(h)
  BY <1>2, <1>3 DEF ListTargets, Steady
<1>5. MapsInv(h) /\ FoundInv(h) /\ SeenInv(h) /\ CoInv(n) /\ DsmInv /\ CallInv(h)
  BY <1>1, Mine
<1>6. FoundInv(h)'
  BY <1>3, <1>5 DEF FoundInv
<1>7. CASE listErr'[h] = "incomplete" /\ maps' = maps
  <2>1. MapsInv(h)'
    BY <1>1, <1>7 DEF MapsInv
  <2>2. SeenInv(h)'
    BY <1>7 DEF SeenInv
  <2> QED
    BY <1>1, <1>3, <1>4, <1>6, <2>1, <2>2, LookupStep
<1>8. ASSUME NEW d \in Dsms, todo'[h] = todo[h] \ {d}, maps'[h] = Mappings(d),
             listErr' = listErr
      PROVE  IInv'
  <2>1. MapsInv(h)'
    <3>1. SUFFICES ASSUME NEW m \in Mappings(d)
                   PROVE  m.uuid # 0 /\ (lun[m.dsm][n].uuid = m.uuid =>
                            m.uuid \in target[m.dsm][n].luns /\ m.tgt = target[m.dsm][n].id)
      BY <1>3, <1>8 DEF MapsInv
    <3>2. PICK k \in Names : \E u \in target[d][k].luns :
                m.dsm = d /\ m.uuid = u /\ m.tgt = target[d][k].id
      BY MappingsFacts
    <3>3. m.dsm = d /\ m.uuid \in target[d][k].luns /\ m.tgt = target[d][k].id
      BY <3>2
    <3>4. m.uuid # 0 /\ m.uuid = lun[d][k].uuid
      BY <1>5, <3>3 DEF DsmInv
    <3>5. lun[d][n].uuid = m.uuid => k = n
      BY <1>2, <1>5, <3>4 DEF DsmInv
    <3> QED
      BY <3>3, <3>4, <3>5
  <2>2. SeenInv(h)'
    <3>1. SUFFICES ASSUME call[h].op # "create", listErr[h] = "nil", found[h] = {},
                          NEW e \in Dsms, lun[e][n].uuid = pv[n]
                   PROVE  \/ e \in todo'[h]
                          \/ \E m \in Mappings(d) : m.dsm = e /\ m.uuid = pv[n]
      BY <1>3, <1>8 DEF SeenInv
    <3>2. e \in todo[h]
      BY <1>1, <1>5, <3>1 DEF SeenInv
    <3>3. CASE e # d
      BY <1>8, <3>2, <3>3
    <3>4. CASE e = d
      <4>1. co[n] \in {"bound", "deleting"}
        BY <1>2, <1>5, <3>1, FieldTypes DEF CallInv
      <4>2. pv[n] \in target[e][n].luns
        BY <1>5, <3>1, <4>1 DEF CoInv
      <4> QED
        BY <1>2, <3>4, <4>2, MappingsFacts
    <3> QED
      BY <3>3, <3>4
  <2> QED
    BY <1>1, <1>3, <1>4, <1>6, <2>1, <2>2, LookupStep
<1>9. PICK d \in todo[h] :
        /\ todo' = [todo EXCEPT ![h] = todo[h] \ {d}]
        /\ \/ maps' = [maps EXCEPT ![h] = Mappings(d)] /\ listErr' = listErr
           \/ listErr' = [listErr EXCEPT ![h] = "incomplete"] /\ maps' = maps
  BY DEF ListTargets
<1>10. CASE listErr' = [listErr EXCEPT ![h] = "incomplete"] /\ maps' = maps
  BY <1>2, <1>7, <1>10
<1>11. CASE maps' = [maps EXCEPT ![h] = Mappings(d)] /\ listErr' = listErr
  <2>1. d \in Dsms /\ todo'[h] = todo[h] \ {d}
    BY <1>2, <1>9
  <2>2. maps'[h] = Mappings(d)
    BY <1>2, <1>11
  <2> QED
    BY <1>8, <1>11, <2>1, <2>2
<1> QED
  BY <1>9, <1>10, <1>11

\* A mapping is dropped only when it is not the volume looked for, or with an
\* error.
LEMMA GetMappedLunKeeps ==
    ASSUME IInv, TypeOK', NEW h \in Handlers, GetMappedLun(h)
    PROVE  IInv'
<1> DEFINE n == call[h].name
<1>1. pc[h] = "lookup" /\ pc[h] # "idle"
  BY DEF GetMappedLun
<1>2. /\ maps \in [Handlers -> SUBSET Mapping] /\ found \in [Handlers -> SUBSET Volume]
      /\ listErr \in [Handlers -> {"nil", "incomplete"}] /\ TypeOK /\ n \in Names
  BY FieldTypes DEF IInv, TypeOK
<1>3. UNCHANGED <<lun, target, nextId, dsms, pc, call, vol, madeTgt, res, co, pv, todo>>
  BY DEF GetMappedLun, dsmVars, undoVars, coVars
<1>4. Steady(h)
  BY <1>2, <1>3 DEF GetMappedLun, Steady
<1>5. MapsInv(h) /\ FoundInv(h) /\ SeenInv(h) /\ CoInv(n) /\ DsmInv /\ CallInv(h)
  BY <1>1, Mine
<1>6. PICK m \in maps[h] :
         /\ maps' = [maps EXCEPT ![h] = maps[h] \ {m}]
         /\ \/ \E k \in Names :
                 /\ lun[m.dsm][k].uuid = m.uuid
                 /\ found' = IF Matches(call[h], k, m.uuid)
                             THEN [found EXCEPT ![h] = found[h] \cup {VolumeOf(m, k)}]
                             ELSE found
                 /\ UNCHANGED listErr
            \/ listErr' = [listErr EXCEPT ![h] = "incomplete"] /\ UNCHANGED found
  BY DEF GetMappedLun
<1>7. maps'[h] = maps[h] \ {m} /\ m.dsm \in Dsms
  BY <1>2, <1>6 DEF Mapping
<1>8. MapsInv(h)'
  BY <1>3, <1>5, <1>7 DEF MapsInv
<1>9. CASE listErr' = [listErr EXCEPT ![h] = "incomplete"] /\ UNCHANGED found
  <2>1. FoundInv(h)'
    BY <1>3, <1>5, <1>9 DEF FoundInv
  <2>2. SeenInv(h)'
    BY <1>2, <1>9 DEF SeenInv
  <2> QED
    BY <1>1, <1>3, <1>4, <1>8, <2>1, <2>2, LookupStep
<1>10. ASSUME NEW k \in Names, lun[m.dsm][k].uuid = m.uuid,
              ~Matches(call[h], k, m.uuid), found' = found, UNCHANGED listErr
       PROVE  IInv'
  <2>1. FoundInv(h)'
    BY <1>3, <1>5, <1>10 DEF FoundInv
  <2>2. SeenInv(h)'
    <3>1. SUFFICES ASSUME call[h].op # "create", listErr[h] = "nil", found[h] = {},
                          NEW e \in Dsms, lun[e][n].uuid = pv[n]
                   PROVE  \/ e \in todo[h]
                          \/ \E x \in maps[h] \ {m} : x.dsm = e /\ x.uuid = pv[n]
      BY <1>3, <1>7, <1>10 DEF SeenInv
    <3>2. m.uuid # pv[n]
      BY <1>2, <1>5, <1>10, <3>1, FieldTypes DEF Matches, CallInv
    <3>3. e \in todo[h] \/ \E x \in maps[h] : x.dsm = e /\ x.uuid = pv[n]
      BY <1>5, <3>1 DEF SeenInv
    <3> QED
      BY <3>2, <3>3
  <2> QED
    BY <1>1, <1>3, <1>4, <1>8, <2>1, <2>2, LookupStep
<1>11. ASSUME NEW k \in Names, lun[m.dsm][k].uuid = m.uuid, Matches(call[h], k, m.uuid),
              found'[h] = found[h] \cup {VolumeOf(m, k)}
       PROVE  IInv'
  <2>1. m.uuid # 0 /\ (call[h].op # "create" => m.uuid = pv[n])
    BY <1>2, <1>5, <1>6, <1>11, FieldTypes DEF Matches, CallInv, MapsInv
  <2>2. k = n
    BY <1>2, <1>5, <1>7, <1>11, <2>1 DEF Matches, CoInv, OwnsLun
  <2>3. m.uuid \in target[m.dsm][n].luns /\ m.tgt = target[m.dsm][n].id
    BY <1>5, <1>6, <1>11, <2>2 DEF MapsInv
  <2> DEFINE v == VolumeOf(m, k)
  <2>4. v.dsm = m.dsm /\ v.uuid = m.uuid /\ v.tgt = m.tgt
    BY DEF VolumeOf
  <2> HIDE DEF v
  <2>5. found'[h] = found[h] \cup {v}
    BY <1>11 DEF v
  <2>6. FoundInv(h)'
    BY <1>3, <1>5, <1>11, <2>1, <2>2, <2>3, <2>4, <2>5 DEF FoundInv
  <2>7. SeenInv(h)'
    BY <2>5 DEF SeenInv
  <2> QED
    BY <1>1, <1>3, <1>4, <1>8, <2>6, <2>7, LookupStep
<1> QED
  BY <1>2, <1>6, <1>9, <1>10, <1>11

\* What a lookup that ends has found.
LEMMA FoundFacts ==
    ASSUME IInv, NEW h \in Handlers, pc[h] = "lookup", NEW v \in found[h]
    PROVE  LET n == call[h].name IN
           /\ v.dsm \in Dsms /\ v.uuid # 0 /\ lun[v.dsm][n].uuid = v.uuid
           /\ v.uuid \in target[v.dsm][n].luns
           /\ v.uuid <= nextId /\ OwnsLun(n, v.uuid)
           /\ v.tgt <= nextId /\ OwnsTgt(n, v.tgt)
           /\ call[h].op # "create" => v.uuid = pv[n]
<1>1. TypeOK /\ DsmInv /\ FoundInv(h) /\ call[h].name \in Names
  BY Mine
<1>2. v.dsm \in Dsms
  BY <1>1 DEF TypeOK, Volume
<1>3. /\ v.uuid # 0 /\ lun[v.dsm][call[h].name].uuid = v.uuid
      /\ v.uuid \in target[v.dsm][call[h].name].luns
      /\ v.tgt = target[v.dsm][call[h].name].id
      /\ call[h].op # "create" => v.uuid = pv[call[h].name]
  BY <1>1 DEF FoundInv
<1> QED
  BY <1>1, <1>2, <1>3, HeldIds

\* The end of a lookup.
LEMMA LookedUpStep ==
    ASSUME IInv, TypeOK', NEW h \in Handlers, NEW op, LookedUp(h, op),
           UNCHANGED <<lun, target, nextId, dsms, call, madeTgt, co, pv>>,
           pc'[h] \notin {"idle", "lookup"}, Steady(h),
           CallInv(h)', OwnInv(h)', WorkInv(h)'
    PROVE  IInv'
<1>1. pc[h] = "lookup" /\ pc[h] # "idle" /\ maps'[h] = {}
  BY DEF LookedUp
<1>2. found'[h] = {}
  BY DEF LookedUp, IInv, TypeOK
<1>3. DsmInv' /\ Untouched(call[h].name) /\ Fresh
  BY <1>1, Mine, IdleDsmKeeps
<1>4. CoInv(call[h].name)'
  BY <1>1, Mine, IdleCo
<1> QED
  BY <1>1, <1>2, <1>3, <1>4, ActStep

\* A volume CreateVolume finds by name is mapped and answered with its id.
LEMMA CreateLookedUpKeeps ==
    ASSUME IInv, TypeOK', NEW h \in Handlers, CreateLookedUp(h)
    PROVE  IInv'
<1> DEFINE n == call[h].name
<1>1. /\ pc[h] = "lookup" /\ pc[h] # "idle" /\ LookedUp(h, "create")
      /\ call[h].op = "create"
  BY DEF CreateLookedUp, LookedUp
<1>2. /\ pc \in [Handlers -> Labels] /\ res \in [Handlers -> Reply] /\ nextId' \in Nat
      /\ found \in [Handlers -> SUBSET Volume]
      /\ listErr \in [Handlers -> {"nil", "incomplete"}] /\ TypeOK
  BY DEF IInv, TypeOK
<1>3. UNCHANGED <<lun, target, nextId, dsms, call, vol, madeTgt, co, pv>>
  BY DEF CreateLookedUp, dsmVars, undoVars, coVars
<1>4. Steady(h)
  BY <1>1, <1>2, <1>3 DEF CreateLookedUp, LookedUp, RespondVolume, Respond, Goto, Steady
<1>5. pc'[h] \in {"reply", "pick"}
  BY <1>2 DEF CreateLookedUp, RespondVolume, Respond, Goto
<1>6. CallInv(h)'
  BY <1>1, <1>3, <1>5, Mine DEF CallInv
<1>7. DsmInv' /\ Untouched(n) /\ Fresh
  BY <1>1, <1>3, Mine, IdleDsmKeeps
<1>8. OwnInv(h)'
  BY <1>1, <1>2, <1>3, <1>7, Mine, OwnKeeps
<1>9. WorkInv(h)'
  <2>1. CASE pc'[h] = "pick" \/ res'[h].code # "OK"
    BY <1>1, <1>3, <1>5, <2>1 DEF WorkInv
  <2>2. CASE \E v \in found[h] : res'[h].id = v.uuid
    <3>1. PICK v \in found[h] : res'[h].id = v.uuid
      BY <2>2
    <3>2. /\ v.dsm \in Dsms /\ v.uuid # 0 /\ lun[v.dsm][n].uuid = v.uuid
          /\ v.uuid \in target[v.dsm][n].luns
      BY <1>1, FoundFacts
    <3> QED
      BY <1>1, <1>3, <1>5, <3>1, <3>2 DEF WorkInv
  <2> QED
    BY <1>2, <2>1, <2>2 DEF CreateLookedUp, RespondVolume, Respond, Goto
<1> QED
  BY <1>1, <1>3, <1>4, <1>5, <1>6, <1>8, <1>9, LookedUpStep

\* A lookup by id that ends without a volume and without an error has looked
\* everywhere.
LEMMA AbsentMeansGone ==
    ASSUME IInv, NEW h \in Handlers, pc[h] = "lookup", call[h].op # "create",
           todo[h] = {}, maps[h] = {}, Absent(h)
    PROVE  Gone(call[h].name)
  BY Mine DEF SeenInv, Absent, Gone

\* DeleteVolume without a volume reports success only when there is none.
LEMMA DeleteLookedUpKeeps ==
    ASSUME IInv, TypeOK', NEW h \in Handlers, DeleteLookedUp(h)
    PROVE  IInv'
<1> DEFINE n == call[h].name
<1>1. /\ pc[h] = "lookup" /\ pc[h] # "idle" /\ LookedUp(h, "delete")
      /\ call[h].op = "delete" /\ todo[h] = {} /\ maps[h] = {} /\ n \in Names
      /\ CallInv(h) /\ DsmInv
  BY Mine DEF DeleteLookedUp, LookedUp
<1>2. /\ pc \in [Handlers -> Labels] /\ res \in [Handlers -> Reply] /\ nextId' \in Nat
      /\ found \in [Handlers -> SUBSET Volume] /\ vol \in [Handlers -> Volume]
      /\ listErr \in [Handlers -> {"nil", "incomplete"}] /\ TypeOK
  BY DEF IInv, TypeOK
<1>3. UNCHANGED <<lun, target, nextId, dsms, call, madeTgt, co, pv>>
  BY DEF DeleteLookedUp, dsmVars, undoVars, coVars
<1>4. Steady(h)
  BY <1>1, <1>2, <1>3 DEF DeleteLookedUp, LookedUp, Respond, Goto, Steady
<1>5. pc'[h] \in {"reply", "lunDelete"}
  BY <1>2 DEF DeleteLookedUp, Respond, Goto
<1>6. CallInv(h)'
  BY <1>1, <1>3, <1>5 DEF CallInv
<1>7. DsmInv' /\ Untouched(n) /\ Fresh
  BY <1>1, <1>3, Mine, IdleDsmKeeps
<1>8. CASE vol' = vol /\ pc'[h] = "reply" /\ (Absent(h) \/ res'[h].code # "OK")
  <2>1. OwnInv(h)'
    BY <1>1, <1>2, <1>3, <1>7, <1>8, Mine, OwnKeeps
  <2>2. res'[h].code = "OK" => Gone(n)'
    BY <1>1, <1>3, <1>8, AbsentMeansGone DEF Gone
  <2>3. WorkInv(h)'
    BY <1>1, <1>3, <1>8, <2>2 DEF WorkInv
  <2> QED
    BY <1>1, <1>3, <1>4, <1>5, <1>6, <2>1, <2>3, LookedUpStep
<1>9. ASSUME NEW v \in found[h], vol'[h] = v, pc'[h] = "lunDelete"
      PROVE  IInv'
  <2>1. /\ v.dsm \in Dsms /\ v.uuid # 0 /\ lun[v.dsm][n].uuid = v.uuid
        /\ v.uuid <= nextId /\ OwnsLun(n, v.uuid)
        /\ v.tgt <= nextId /\ OwnsTgt(n, v.tgt) /\ v.uuid = pv[n]
    BY <1>1, FoundFacts
  <2>2. OwnInv(h)'
    BY <1>1, <1>3, <1>9, <2>1, Mine DEF OwnInv, OwnsLun, OwnsTgt
  <2>3. \A d \in Dsms : d # v.dsm => lun[d][n].uuid # pv[n]
    BY <1>1, <2>1 DEF DsmInv
  <2>4. WorkInv(h)'
    BY <1>1, <1>3, <1>9, <2>1, <2>3 DEF WorkInv
  <2> QED
    BY <1>1, <1>3, <1>4, <1>5, <1>6, <2>2, <2>4, LookedUpStep
<1> QED
  BY <1>2, <1>8, <1>9 DEF DeleteLookedUp, Respond, Goto

\* ExpandVolume acts on the volume of its call.
LEMMA ExpandLookedUpKeeps ==
    ASSUME IInv, TypeOK', NEW h \in Handlers, ExpandLookedUp(h)
    PROVE  IInv'
<1> DEFINE n == call[h].name
<1>1. /\ pc[h] = "lookup" /\ pc[h] # "idle" /\ LookedUp(h, "expand")
      /\ call[h].op = "expand" /\ CallInv(h)
  BY Mine DEF ExpandLookedUp, LookedUp
<1>2. /\ pc \in [Handlers -> Labels] /\ res \in [Handlers -> Reply] /\ nextId' \in Nat
      /\ found \in [Handlers -> SUBSET Volume] /\ vol \in [Handlers -> Volume]
      /\ listErr \in [Handlers -> {"nil", "incomplete"}] /\ TypeOK
  BY DEF IInv, TypeOK
<1>3. UNCHANGED <<lun, target, nextId, dsms, call, madeTgt, co, pv>>
  BY DEF ExpandLookedUp, dsmVars, undoVars, coVars
<1>4. Steady(h)
  BY <1>1, <1>2, <1>3 DEF ExpandLookedUp, LookedUp, Respond, Goto, Steady
<1>5. pc'[h] \in {"reply", "lunUpdate"}
  BY <1>2 DEF ExpandLookedUp, Respond, Goto
<1>6. CallInv(h)'
  BY <1>1, <1>3, <1>5 DEF CallInv
<1>7. DsmInv' /\ Untouched(n) /\ Fresh
  BY <1>1, <1>3, Mine, IdleDsmKeeps
<1>8. WorkInv(h)'
  BY <1>1, <1>3, <1>5 DEF WorkInv
<1>9. OwnInv(h)'
  <2>1. CASE vol' = vol
    BY <1>1, <1>2, <1>3, <1>7, <2>1, Mine, OwnKeeps
  <2>2. CASE \E v \in found[h] : vol'[h] = v
    <3>1. PICK v \in found[h] : vol'[h] = v
      BY <2>2
    <3>2. /\ v.uuid <= nextId /\ OwnsLun(n, v.uuid) /\ v.tgt <= nextId /\ OwnsTgt(n, v.tgt)
      BY <1>1, FoundFacts
    <3> QED
      BY <1>1, <1>3, <3>1, <3>2, Mine DEF OwnInv, OwnsLun, OwnsTgt
  <2> QED
    BY <1>2, <2>1, <2>2 DEF ExpandLookedUp
<1> QED
  BY <1>1, <1>3, <1>4, <1>5, <1>6, <1>8, <1>9, LookedUpStep

\* The CO learns of a volume that is there, or of a deletion that is complete.
LEMMA DeliverKeeps ==
    ASSUME IInv, TypeOK', NEW h \in Handlers, Deliver(h)
    PROVE  IInv'
<1>0. PICK n \in Names : n = call[h].name
  BY FieldTypes DEF IInv
<1>1. /\ pc[h] = "reply" /\ pc[h] # "idle" /\ n \in Names /\ DsmInv /\ CoInv(n) /\ CallInv(h)
      /\ WorkInv(h) /\ maps[h] = {} /\ found[h] = {}
      /\ \A g \in Handlers : g # h /\ pc[g] # "idle" => call[g].name # n
  BY <1>0, Mine DEF Deliver
<1>2. /\ pc \in [Handlers -> Labels] /\ call \in [Handlers -> Call]
      /\ vol \in [Handlers -> Volume] /\ madeTgt \in [Handlers -> Nat]
      /\ res \in [Handlers -> Reply] /\ TypeOK
      /\ co \in [Names -> {"creating", "bound", "deleting", "deleted"}]
      /\ pv \in [Names -> Nat]
  BY DEF IInv, TypeOK
<1>3. UNCHANGED <<lun, target, nextId, dsms, todo, maps, found, listErr>>
  BY DEF Deliver, dsmVars, lookVars
<1>4. Steady(h)
  BY <1>2, <1>3 DEF Deliver, Goto, Steady
<1>5. DsmInv' /\ Untouched(n) /\ Fresh
  BY <1>1, <1>2, <1>3, IdleDsmKeeps
<1>6. HandlerInv(h)'
  BY <1>1, <1>2, <1>3 DEF Deliver, Goto, HandlerInv, NoVolume
<1>7. /\ pc'[h] = "idle"
      /\ \A m \in Names : m # n => co'[m] = co[m] /\ pv'[m] = pv[m]
  BY <1>0, <1>2 DEF Deliver, Goto, coVars
<1>8. CoInv(n)'
  <2>1. CASE UNCHANGED <<co, pv>>
    BY <1>1, <1>3, <2>1, IdleCo
  <2>2. CASE /\ res[h].code = "OK" /\ call[h].op = "create"
             /\ co'[n] = "bound" /\ pv'[n] = res[h].id
    <3>1. PICK d \in Dsms : lun[d][n].uuid = res[h].id /\ res[h].id \in target[d][n].luns
      BY <1>0, <1>1, <2>2 DEF WorkInv
    <3>2. res[h].id # 0 /\ res[h].id <= nextId /\ OwnsLun(n, res[h].id)
      BY <1>0, <1>1, <2>2, <3>1, HeldIds DEF WorkInv
    <3>3. \A e \in Dsms : lun[e][n].uuid = res[h].id => e = d
      BY <1>1, <3>1, <3>2 DEF DsmInv
    <3>4. OwnsLun(n, pv[n])'
      BY <1>3, <2>2, <3>2 DEF OwnsLun
    <3> QED
      BY <1>3, <2>2, <3>1, <3>2, <3>3, <3>4 DEF CoInv
  <2>3. CASE /\ res[h].code = "OK" /\ call[h].op = "delete"
             /\ co[n] = "deleting" /\ co'[n] = "deleted" /\ pv' = pv
    <3>1. Gone(n)
      BY <1>0, <1>1, <2>3 DEF WorkInv
    <3> QED
      BY <1>1, <1>3, <2>3, <3>1 DEF CoInv, OwnsLun, Gone
  <2> QED
    BY <1>0, <1>1, <1>2, <2>1, <2>2, <2>3 DEF Deliver, coVars
<1> QED
  BY <1>1, <1>2, <1>3, <1>4, <1>5, <1>6, <1>7, <1>8, StepKeeps

\* A new call starts with nothing gathered and every DSM to visit.
LEMMA StartKeeps ==
    ASSUME SerialCalls, IInv, TypeOK', NEW h \in Handlers, NEW n \in Names,
           CreateVolume(h, n) \/ ControllerExpandVolume(h, n) \/ DeleteVolume(h, n)
    PROVE  IInv'
<1>0. pv[n] \in Nat
  BY DEF IInv, TypeOK
<1>1. PICK op \in {"create", "expand", "delete"}, s \in Nat, id \in Nat :
        /\ Start(h, op, n, s, id)
        /\ op = "create" => co[n] = "creating" /\ co' = co
        /\ op = "expand" => co[n] = "bound" /\ id = pv[n] /\ co' = co
        /\ op = "delete" => /\ co[n] \in {"bound", "deleting"} /\ id = pv[n]
                            /\ co' = [co EXCEPT ![n] = "deleting"]
  BY <1>0, ConstantsAssumption DEF CreateVolume, ControllerExpandVolume, DeleteVolume
<1>2. /\ pc \in [Handlers -> Labels] /\ call \in [Handlers -> Call]
      /\ todo \in [Handlers -> SUBSET Dsms] /\ nextId \in Nat
      /\ listErr \in [Handlers -> {"nil", "incomplete"}] /\ TypeOK
      /\ co \in [Names -> {"creating", "bound", "deleting", "deleted"}]
      /\ DsmInv /\ CoInv(n) /\ HandlerInv(h) /\ dsms = Dsms
  BY DEF IInv, TypeOK
<1>3. UNCHANGED <<lun, target, nextId, dsms, maps, found, vol, madeTgt, res, pv>>
  BY <1>1 DEF Start, dsmVars, undoVars
<1>4. /\ pc[h] = "idle" /\ pc'[h] = "lookup" /\ todo'[h] = Dsms
      /\ call'[h] = [op |-> op, name |-> n, size |-> s, id |-> id]
  BY <1>1, <1>2 DEF Start, Goto
<1>5. Steady(h)
  BY <1>1, <1>2, <1>3 DEF Start, Goto, Steady
<1>6. DsmInv' /\ Untouched(n) /\ Fresh
  BY <1>2, <1>3, IdleDsmKeeps
<1>7. \A g \in Handlers : g # h /\ pc[g] # "idle" => call[g].name # n
  BY <1>1 DEF Start, Active
<1>8. \A m \in Names : m # n => co'[m] = co[m] /\ pv'[m] = pv[m]
  BY <1>1, <1>2, <1>3
<1>9. CoInv(n)'
  <2>1. \/ co'[n] = co[n]
        \/ co[n] \in {"bound", "deleting"} /\ co'[n] = "deleting"
    BY <1>1, <1>2
  <2> QED
    BY <1>2, <1>3, <2>1 DEF CoInv, OwnsLun, Gone
<1>10. call'[h].op = op /\ call'[h].name = n /\ call'[h].id = id
  BY <1>4
<1>11. CallInv(h)'
  <2>1. op = "delete" => co'[n] = "deleting"
    BY <1>1, <1>2
  <2> QED
    BY <1>1, <1>3, <1>4, <1>10, <2>1 DEF CallInv
<1>12. OwnInv(h)'
  BY <1>2, <1>3, <1>4 DEF OwnInv, OwnsLun, OwnsTgt, HandlerInv
<1>13. WorkInv(h)'
  BY <1>4 DEF WorkInv
<1>14. MapsInv(h)' /\ FoundInv(h)' /\ SeenInv(h)'
  BY <1>2, <1>3, <1>4 DEF HandlerInv, MapsInv, FoundInv, SeenInv
<1>15. HandlerInv(h)'
  BY <1>4, <1>11, <1>12, <1>13, <1>14 DEF HandlerInv
<1> QED
  BY <1>3, <1>5, <1>6, <1>7, <1>8, <1>9, <1>10, <1>15, StepKeeps

\* A restart forgets every call; what the DSMs and the CO hold stays
\* consistent.
LEMMA CrashKeeps ==
    ASSUME ~StartupFaults, IInv, TypeOK', Crash
    PROVE  IInv'
<1>1. /\ UNCHANGED <<lun, target, nextId, co, pv>>
  BY DEF Crash, dsmVars, coVars
<1>2. dsms' = Dsms
  BY DEF Crash, Started
<1>3. DsmInv'
  BY <1>1 DEF IInv, DsmInv
<1>4. \A n \in Names : CoInv(n)'
  BY <1>1, IdleCo DEF IInv
<1>5. \A h \in Handlers : HandlerInv(h)'
  BY DEF Crash, HandlerInv, NoVolume
<1>6. SerialInv'
  BY DEF Crash, SerialInv
<1> QED
  BY <1>2, <1>3, <1>4, <1>5, <1>6 DEF IInv

\* The invariant holds at the start.
LEMMA IInvInit == ~StartupFaults /\ Init => IInv
<1> SUFFICES ASSUME ~StartupFaults, Init PROVE IInv
  OBVIOUS
<1>1. TypeOK
  BY IdleTypes DEF Init, TypeOK, Labels
<1>2. dsms = Dsms
  BY DEF Init, Started
<1>3. DsmInv
  BY DEF Init, DsmInv, NoLun, NoTarget
<1>4. \A n \in Names : CoInv(n)
  BY DEF Init, CoInv, OwnsLun
<1>5. \A h \in Handlers : HandlerInv(h)
  BY DEF Init, HandlerInv, NoVolume
<1>6. SerialInv
  BY DEF Init, SerialInv
<1> QED
  BY <1>1, <1>2, <1>3, <1>4, <1>5, <1>6 DEF IInv

\* Every step keeps the invariant.
LEMMA IInvNext ==
    ASSUME SerialCalls, ~StartupFaults, IInv, [Next]_vars
    PROVE  IInv'
<1>1. TypeOK'
  BY TypeStep DEF IInv
<1>2. CASE UNCHANGED vars
  <2>1. /\ UNCHANGED <<lun, target, nextId, dsms, pc, call, vol, madeTgt, res, co, pv>>
        /\ UNCHANGED <<todo, maps, found, listErr>>
    BY <1>2 DEF vars
  <2>2. DsmInv' /\ SerialInv' /\ dsms' = Dsms
    BY <2>1 DEF IInv, DsmInv, SerialInv
  <2>3. \A n \in Names : CoInv(n)'
    BY <2>1, IdleCo DEF IInv
  <2>4. ASSUME NEW h \in Handlers PROVE HandlerInv(h)'
    <3>1. HandlerInv(h)
      BY DEF IInv
    <3>2. CallInv(h)' = CallInv(h) /\ OwnInv(h)' = OwnInv(h)
      BY <2>1 DEF CallInv, OwnInv, OwnsLun, OwnsTgt
    <3>3. WorkInv(h)' = WorkInv(h)
      BY <2>1 DEF WorkInv, Gone
    <3>4. MapsInv(h)' = MapsInv(h) /\ FoundInv(h)' = FoundInv(h) /\ SeenInv(h)' = SeenInv(h)
      BY <2>1 DEF MapsInv, FoundInv, SeenInv
    <3> QED
      BY <2>1, <3>1, <3>2, <3>3, <3>4 DEF HandlerInv
  <2> QED
    BY <1>1, <2>2, <2>3, <2>4 DEF IInv
<1>3. ASSUME NEW h \in Handlers, HandlerStep(h) PROVE IInv'
  BY <1>1, <1>3, ListTargetsKeeps, GetMappedLunKeeps, CreateLookedUpKeeps,
     DeleteLookedUpKeeps, ExpandLookedUpKeeps, PickDsmKeeps, LunCreateKeeps, LunGetKeeps,
     TargetCreateKeeps, TargetGetKeeps, LunMapTargetKeeps, UndoTargetKeeps,
     UndoLunGetKeeps, UndoLunDeleteKeeps, LunDeleteKeeps, LunCheckKeeps,
     TargetDeleteKeeps, TargetCheckKeeps, LunUpdateKeeps, DeliverKeeps
  DEF HandlerStep
<1> QED
  BY <1>1, <1>2, <1>3, StartKeeps, CrashKeeps DEF Next

\* The conditions under which the driver is safe: the CO sends one call at a
\* time per volume, and the driver knows every DSM of its configuration.
Supported == SerialCalls /\ ~StartupFaults

\* The inductive invariant holds throughout.
LEMMA IInvCorrect == Supported /\ Spec => []IInv
<1> SUFFICES ASSUME Supported PROVE Spec => []IInv
  OBVIOUS
<1>1. Init => IInv
  BY IInvInit DEF Supported
<1>2. IInv /\ [Next]_vars => IInv'
  BY IInvNext DEF Supported
<1> QED
  BY <1>1, <1>2, PTL DEF Spec

\* Whatever requests fail, whatever answers are lost and whenever the driver
\* restarts, no rollback or retry of one call takes away a volume the CO has
\* recorded and not asked to delete, for any number of DSMs, volumes and
\* handlers.
THEOREM RecordedVolumesSafe == Supported /\ Spec => []RecordedVolumeExists
<1>1. IInv => RecordedVolumeExists
  <2> SUFFICES ASSUME IInv, NEW n \in Names, co[n] = "bound"
               PROVE  \E d \in Dsms : Visible(d, n) /\ lun[d][n].uuid = pv[n]
    BY DEF RecordedVolumeExists
  <2>1. CoInv(n)
    BY DEF IInv
  <2>2. PICK d \in Dsms : lun[d][n].uuid = pv[n]
    BY <2>1 DEF CoInv
  <2>3. pv[n] # 0 /\ pv[n] \in target[d][n].luns
    BY <2>1, <2>2 DEF CoInv
  <2> QED
    BY <2>2, <2>3 DEF Visible, NoLun
<1> QED
  BY <1>1, IInvCorrect, PTL

\* A DeleteVolume that reports success has removed the LUN from every DSM: an
\* incomplete listing is never taken for a volume that is gone.
THEOREM DeletedVolumesGone == Supported /\ Spec => []DeletedVolumeIsGone
<1>1. IInv => DeletedVolumeIsGone
  <2> SUFFICES ASSUME IInv, NEW n \in Names, co[n] = "deleted", NEW d \in Dsms,
                      HasLun(d, pv[n])
               PROVE  FALSE
    BY DEF DeletedVolumeIsGone
  <2>1. CoInv(n)
    BY DEF IInv
  <2>2. PICK m \in Names : pv[n] # 0 /\ lun[d][m].uuid = pv[n]
    BY DEF HasLun
  <2>3. m = n
    BY <2>1, <2>2 DEF CoInv, OwnsLun
  <2> QED
    BY <2>1, <2>2, <2>3 DEF CoInv, Gone
<1> QED
  BY <1>1, IInvCorrect, PTL
=============================================================================
