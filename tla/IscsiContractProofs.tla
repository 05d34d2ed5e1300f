------------------------ MODULE IscsiContractProofs ------------------------
(* IscsiVolume keeps VolumeContract for each of its volumes, under the     *)
(* conditions of IscsiVolumeProofs, whose invariant says where the volume  *)
(* the CO was handed is; what is added here is how large it is.            *)
EXTENDS IscsiVolumeProofs

\* What a handler knows of the size of its volume's LUN.
SizeInv(h) == LET n == call[h].name IN
    /\ pc[h] # "idle" /\ call[h].op # "delete" => call[h].size \in Sizes
    /\ pc[h] = "lookup" => \A v \in found[h], d \in Dsms :
         lun[d][n].uuid = v.uuid => v.size = lun[d][n].size
    /\ pc[h] = "lunUpdate" => vol[h].uuid # 0 /\ \A d \in Dsms :
         lun[d][n].uuid = vol[h].uuid => lun[d][n].size <= call[h].size

SizesInv ==
    /\ \A d \in Dsms, n \in Names : lun[d][n].uuid # 0 => lun[d][n].size \in Sizes
    /\ \A h \in Handlers : SizeInv(h)

-----------------------------------------------------------------------------
(* What a step does to the LUNs, the other handlers and the CO's view.     *)

\* A LUN stays, goes, is made as large as a call asks for, or is grown.
Grown(d, n) ==
    /\ lun[d][n].uuid # 0 /\ lun'[d][n].uuid = lun[d][n].uuid
    /\ lun'[d][n].size \in Sizes /\ lun[d][n].size <= lun'[d][n].size
    /\ co[n] = "bound"
    /\ \E h \in Handlers : pc[h] = "lunUpdate" /\ pc'[h] = "reply" /\ call[h].name = n

LunStep == \A d \in Dsms, n \in Names :
    \/ lun'[d][n] = lun[d][n]
    \/ lun'[d][n].uuid = 0
    \/ /\ lun[d][n].uuid = 0 /\ lun'[d][n].uuid = nextId + 1
       /\ lun'[d][n].size \in Sizes
    \/ Grown(d, n)

\* The fields of a LUN.
LEMMA LunTypes ==
    ASSUME TypeOK, NEW d \in Dsms, NEW n \in Names
    PROVE  /\ lun[d][n] \in Lun /\ lun[d][n].uuid \in Nat /\ lun[d][n].size \in Nat
           /\ NoLun.uuid = 0
<1>1. lun[d][n] \in Lun
  BY DEF TypeOK
<1> QED
  BY <1>1 DEF Lun, NoLun

\* LUN.create makes a LUN of the size that is asked for.
LEMMA AddLunStep ==
    ASSUME TypeOK, NEW d \in Dsms, NEW n \in Names, NEW s \in Sizes,
           lun[d][n] = NoLun, AddLun(d, n, s)
    PROVE  LunStep
<1>1. lun' = [lun EXCEPT ![d][n] = [uuid |-> nextId + 1, size |-> s]]
  BY DEF AddLun
<1>2. lun \in [Dsms -> [Names -> Lun]]
  BY DEF TypeOK
<1>3. lun'[d][n].uuid = nextId + 1 /\ lun'[d][n].size = s /\ lun[d][n].uuid = 0
  BY <1>1, <1>2, LunTypes
<1>4. \A e \in Dsms, m \in Names : e # d \/ m # n => lun'[e][m] = lun[e][m]
  BY <1>1, <1>2
<1> QED
  BY <1>3, <1>4 DEF LunStep

\* LUN.delete takes away a LUN.
LEMMA RemoveLunStep ==
    ASSUME TypeOK, NEW d \in Dsms, NEW u, RemoveLun(d, u)
    PROVE  LunStep
<1>1. lun' = [lun EXCEPT ![d] = [n \in Names |->
                IF lun[d][n].uuid = u THEN NoLun ELSE lun[d][n]]]
  BY DEF RemoveLun
<1>2. lun \in [Dsms -> [Names -> Lun]]
  BY DEF TypeOK
<1>3. \A e \in Dsms, m \in Names : lun'[e][m] = lun[e][m] \/ lun'[e][m] = NoLun
  BY <1>1, <1>2
<1>4. NoLun.uuid = 0
  BY DEF NoLun
<1> QED
  BY <1>3, <1>4 DEF LunStep

\* LUN.set makes the LUN of a volume that is being expanded larger, if it
\* changes its size.
LEMMA SetLunSizeStep ==
    ASSUME IInv, SizesInv, NEW h \in Handlers, pc[h] = "lunUpdate", pc'[h] = "reply",
           SetLunSize(vol[h].dsm, vol[h].uuid, call[h].size)
    PROVE  LunStep
<1> DEFINE d == vol[h].dsm  u == vol[h].uuid  s == call[h].size
<1>1. /\ lun' = [lun EXCEPT ![d] = [n \in Names |->
                   IF lun[d][n].uuid = u THEN [uuid |-> u, size |-> s] ELSE lun[d][n]]]
      /\ u # 0
  BY DEF SetLunSize, HasLun
<1>2. lun \in [Dsms -> [Names -> Lun]] /\ TypeOK /\ d \in Dsms
  BY FieldTypes DEF IInv, TypeOK
<1>3. ASSUME NEW e \in Dsms, NEW m \in Names, e # d \/ lun[e][m].uuid # u
      PROVE  lun'[e][m] = lun[e][m]
  <2> HIDE DEF d, u, s
  <2>1. CASE e # d
    BY <1>1, <1>2, <2>1
  <2>2. CASE e = d
    <3>1. lun'[d] = [n \in Names |->
            IF lun[d][n].uuid = u THEN [uuid |-> u, size |-> s] ELSE lun[d][n]]
      BY <1>1, <1>2
    <3> QED
      BY <1>3, <2>2, <3>1
  <2> QED
    BY <2>1, <2>2
<1>4. ASSUME NEW m \in Names, lun[d][m].uuid = u
      PROVE  Grown(d, m)
  <2>1. m = call[h].name /\ co[m] = "bound" /\ call[h].op = "expand"
    BY <1>1, <1>2, <1>4, Mine DEF OwnInv, OwnsLun, CallInv
  <2>2. s \in Sizes /\ lun[d][m].size <= s
    BY <1>2, <1>4, <2>1 DEF SizesInv, SizeInv
  <2>3. lun'[d][m] = [uuid |-> u, size |-> s]
    BY <1>1, <1>2, <1>4
  <2>4. lun'[d][m].uuid = u /\ lun'[d][m].size = s
    BY <2>3
  <2> QED
    BY <1>1, <1>4, <2>1, <2>2, <2>4, Zenon DEF Grown
<1> QED
  BY <1>2, <1>3, <1>4 DEF LunStep

\* No other step changes a LUN.
LEMMA LunStepAlways ==
    ASSUME IInv, SizesInv, [Next]_vars
    PROVE  LunStep
<1>1. TypeOK
  BY DEF IInv
<1>2. ASSUME UNCHANGED lun PROVE LunStep
  BY <1>2 DEF LunStep
<1>3. CASE Crash \/ UNCHANGED vars
  BY <1>2, <1>3 DEF Crash, vars, dsmVars
<1>4. ASSUME NEW h \in Handlers, NEW n \in Names,
             CreateVolume(h, n) \/ ControllerExpandVolume(h, n) \/ DeleteVolume(h, n)
      PROVE  LunStep
  BY <1>2, <1>4 DEF CreateVolume, ControllerExpandVolume, DeleteVolume, Start, dsmVars
<1>5. ASSUME NEW h \in Handlers, HandlerStep(h) PROVE LunStep
  <2>1. vol[h].dsm \in Dsms /\ call[h].name \in Names
    BY <1>1, FieldTypes
  <2>2. CASE LunCreate(h)
    <3>1. call[h].op = "create" /\ call[h].size \in Sizes
      BY <2>2, Mine DEF LunCreate, CallInv, SizesInv, SizeInv
    <3>2. \/ UNCHANGED lun
          \/ /\ lun[vol[h].dsm][call[h].name] = NoLun
             /\ AddLun(vol[h].dsm, call[h].name, call[h].size)
      BY <2>2 DEF LunCreate, dsmVars
    <3> QED
      BY <1>1, <1>2, <2>1, <3>1, <3>2, AddLunStep
  <2>3. CASE UndoLunDelete(h) \/ LunDelete(h)
    <3>1. UNCHANGED lun \/ RemoveLun(vol[h].dsm, vol[h].uuid)
      BY <2>3 DEF UndoLunDelete, LunDelete, dsmVars
    <3> QED
      BY <1>1, <1>2, <2>1, <3>1, RemoveLunStep
  <2>4. CASE LunUpdate(h)
    <3>1. pc[h] = "lunUpdate" /\ pc'[h] = "reply"
      BY <1>1, <2>4 DEF LunUpdate, Respond, Goto, TypeOK
    <3>2. UNCHANGED lun \/ SetLunSize(vol[h].dsm, vol[h].uuid, call[h].size)
      BY <2>4 DEF LunUpdate, dsmVars
    <3> QED
      BY <1>2, <3>1, <3>2, SetLunSizeStep
  <2>5. CASE ListTargets(h) \/ GetMappedLun(h) \/ CreateLookedUp(h) \/ DeleteLookedUp(h)
             \/ ExpandLookedUp(h) \/ PickDsm(h) \/ LunGet(h) \/ TargetGet(h) \/ UndoLunGet(h)
             \/ LunCheck(h) \/ TargetCheck(h) \/ Deliver(h)
    <3>1. ASSUME ListTargets(h) \/ GetMappedLun(h) \/ CreateLookedUp(h) \/ DeleteLookedUp(h)
                 \/ ExpandLookedUp(h) \/ PickDsm(h)
          PROVE  UNCHANGED lun
      BY <3>1 DEF ListTargets, GetMappedLun, CreateLookedUp, DeleteLookedUp, ExpandLookedUp,
         PickDsm, dsmVars
    <3>2. ASSUME LunGet(h) \/ TargetGet(h) \/ UndoLunGet(h) \/ LunCheck(h) \/ TargetCheck(h)
                 \/ Deliver(h)
          PROVE  UNCHANGED lun
      BY <3>2 DEF LunGet, TargetGet, UndoLunGet, LunCheck, TargetCheck, Deliver, dsmVars
    <3> QED
      BY <1>2, <2>5, <3>1, <3>2
  <2>6. CASE TargetCreate(h) \/ LunMapTarget(h) \/ UndoTarget(h) \/ TargetDelete(h)
    <3>1. ASSUME TargetCreate(h) \/ LunMapTarget(h) PROVE UNCHANGED lun
      BY <3>1 DEF TargetCreate, LunMapTarget, AddTarget, MapLun, dsmVars
    <3>2. ASSUME UndoTarget(h) \/ TargetDelete(h) PROVE UNCHANGED lun
      BY <3>2 DEF UndoTarget, TargetDelete, RemoveTarget, dsmVars
    <3> QED
      BY <1>2, <2>6, <3>1, <3>2
  <2> QED
    BY <1>5, <2>2, <2>3, <2>4, <2>5, <2>6 DEF HandlerStep
<1> QED
  BY <1>3, <1>4, <1>5 DEF Next

\* What a step of handler h may do to what SizeInv is about.
LEMMA HandlerMoves ==
    ASSUME IInv, NEW h \in Handlers, HandlerStep(h)
    PROVE  /\ Steady(h) /\ pc[h] # "idle"
           /\ pc'[h] = "idle" \/ call'[h] = call[h]
           /\ pc'[h] = "lookup" =>
                pc[h] = "lookup" /\ (found'[h] = found[h] \/ GetMappedLun(h))
           /\ pc'[h] = "lunUpdate" => ExpandLookedUp(h)
<1>1. /\ pc \in [Handlers -> Labels] /\ call \in [Handlers -> Call]
      /\ todo \in [Handlers -> SUBSET Dsms] /\ maps \in [Handlers -> SUBSET Mapping]
      /\ found \in [Handlers -> SUBSET Volume] /\ vol \in [Handlers -> Volume]
      /\ listErr \in [Handlers -> {"nil", "incomplete"}]
      /\ madeTgt \in [Handlers -> Nat] /\ res \in [Handlers -> Reply]
  BY DEF IInv, TypeOK
<1>2. CASE ListTargets(h)
  BY <1>1, <1>2 DEF ListTargets, Steady, undoVars
<1>3. CASE GetMappedLun(h)
  BY <1>1, <1>3 DEF GetMappedLun, Steady, undoVars
<1>4. CASE CreateLookedUp(h) \/ DeleteLookedUp(h) \/ ExpandLookedUp(h)
  BY <1>1, <1>4 DEF CreateLookedUp, DeleteLookedUp, ExpandLookedUp, LookedUp, RespondVolume,
     Respond, Goto, Steady, undoVars
<1>5. CASE PickDsm(h) \/ LunCreate(h) \/ LunGet(h)
  BY <1>1, <1>5 DEF PickDsm, LunCreate, LunGet, Undo, UndoLun, Respond, Goto, Steady,
     undoVars, lookVars
<1>6. CASE TargetCreate(h) \/ TargetGet(h) \/ LunMapTarget(h)
  BY <1>1, <1>6 DEF TargetCreate, TargetGet, LunMapTarget, RespondVolume, Undo, UndoLun,
     Respond, Goto, Steady, undoVars, lookVars
<1>7. CASE UndoTarget(h) \/ UndoLunGet(h) \/ UndoLunDelete(h)
  BY <1>1, <1>7 DEF UndoTarget, UndoLunGet, UndoLunDelete, UndoLun, Goto, Steady, undoVars,
     lookVars
<1>8. CASE LunDelete(h) \/ LunCheck(h)
  BY <1>1, <1>8 DEF LunDelete, LunCheck, AfterLunDelete, Respond, Goto, Steady, undoVars,
     lookVars
<1>9. CASE TargetDelete(h) \/ TargetCheck(h) \/ LunUpdate(h)
  BY <1>1, <1>9 DEF TargetDelete, TargetCheck, LunUpdate, Respond, Goto, Steady, undoVars,
     lookVars
<1>10. CASE Deliver(h)
  BY <1>1, <1>10 DEF Deliver, Goto, Steady, lookVars
<1> QED
  BY <1>2, <1>3, <1>4, <1>5, <1>6, <1>7, <1>8, <1>9, <1>10 DEF HandlerStep

-----------------------------------------------------------------------------
(* The sizes handlers know are those of the LUNs.                          *)

\* A LUN keeps its size while another handler than the expanding one is busy
\* with its volume.
LEMMA SizeStays ==
    ASSUME IInv, SizesInv, LunStep, NEW g \in Handlers,
           pc[g] # "idle", pc[g] # "lunUpdate" \/ pc'[g] # "reply",
           NEW d \in Dsms, NEW u, u # 0, u <= nextId,
           lun'[d][call[g].name].uuid = u
    PROVE  lun'[d][call[g].name] = lun[d][call[g].name]
<1> DEFINE n == call[g].name
<1>1. n \in Names /\ nextId \in Nat
  BY FieldTypes DEF IInv, TypeOK
<1>2. ~Grown(d, n)
  <2> SUFFICES ASSUME Grown(d, n) PROVE FALSE
    OBVIOUS
  <2>1. PICK h \in Handlers : pc[h] = "lunUpdate" /\ pc'[h] = "reply" /\ call[h].name = n
    BY DEF Grown
  <2>2. h = g
    BY <2>1, Mine
  <2> QED
    BY <2>1, <2>2
<1> QED
  BY <1>1, <1>2 DEF LunStep

\* What another handler knows stays true.
LEMMA OthersSize ==
    ASSUME IInv, SizesInv, LunStep, NEW g \in Handlers,
           pc'[g] = pc[g], call'[g] = call[g], found'[g] = found[g], vol'[g] = vol[g]
    PROVE  SizeInv(g)'
<1>1. SizeInv(g)
  BY DEF SizesInv
<1>2. CASE pc[g] = "lookup"
  <2>1. \A v \in found[g] : v.uuid # 0 /\ v.uuid <= nextId
    BY <1>2, FoundFacts
  <2> QED
    BY <1>1, <1>2, <2>1, SizeStays DEF SizeInv
<1>3. CASE pc[g] = "lunUpdate"
  <2>1. ASSUME NEW d \in Dsms, lun'[d][call[g].name].uuid = vol[g].uuid, vol[g].uuid # 0
        PROVE  lun'[d][call[g].name].size <= call[g].size
    <3>1. vol[g].uuid <= nextId
      BY <1>3, Mine DEF OwnInv
    <3>2. lun'[d][call[g].name] = lun[d][call[g].name]
      BY <1>3, <2>1, <3>1, SizeStays
    <3> QED
      BY <1>1, <1>3, <2>1, <3>2 DEF SizeInv
  <2>2. vol[g].uuid # 0
    BY <1>1, <1>3 DEF SizeInv
  <2> QED
    BY <1>1, <1>3, <2>1, <2>2 DEF SizeInv
<1>4. CASE pc[g] \notin {"lookup", "lunUpdate"}
  BY <1>1, <1>4 DEF SizeInv
<1> QED
  BY <1>2, <1>3, <1>4

\* A lookup takes a LUN's size with the LUN, and an expansion goes on only with
\* a volume that is not larger than asked for.
LEMMA MySize ==
    ASSUME IInv, SizesInv, LunStep, NEW h \in Handlers, HandlerStep(h)
    PROVE  SizeInv(h)'
<1> DEFINE n == call[h].name
<1>1. /\ pc[h] # "idle" /\ SizeInv(h) /\ TypeOK /\ n \in Names
      /\ pc'[h] = "idle" \/ call'[h] = call[h]
  BY HandlerMoves, Mine DEF SizesInv
<1>2. pc'[h] # "idle" /\ call'[h].op # "delete" => call'[h].size \in Sizes
  BY <1>1 DEF SizeInv
<1>3. ASSUME pc'[h] = "lookup"
      PROVE  \A v \in found'[h], d \in Dsms :
               lun'[d][call'[h].name].uuid = v.uuid => v.size = lun'[d][call'[h].name].size
  <2>1. pc[h] = "lookup" /\ call'[h] = call[h]
    BY <1>1, <1>3, HandlerMoves
  <2>2. CASE found'[h] = found[h]
    <3>1. \A v \in found[h] : v.uuid # 0 /\ v.uuid <= nextId
      BY <2>1, FoundFacts
    <3>2. ASSUME NEW v \in found[h], NEW d \in Dsms, lun'[d][n].uuid = v.uuid
          PROVE  v.size = lun'[d][n].size
      <4>1. lun'[d][n] = lun[d][n]
        BY <2>1, <3>1, <3>2, SizeStays
      <4> QED
        BY <1>1, <2>1, <3>2, <4>1 DEF SizeInv
    <3> QED
      BY <2>1, <2>2, <3>2
  <2>3. CASE GetMappedLun(h)
    <3>1. UNCHANGED lun
      BY <2>3 DEF GetMappedLun, dsmVars
    <3>2. \/ found'[h] = found[h]
          \/ \E m \in maps[h], k \in Names :
               /\ lun[m.dsm][k].uuid = m.uuid /\ Matches(call[h], k, m.uuid)
               /\ found'[h] = found[h] \cup {VolumeOf(m, k)}
      BY <1>1, <2>3 DEF GetMappedLun, TypeOK
    <3>3. ASSUME NEW m \in maps[h], NEW k \in Names, lun[m.dsm][k].uuid = m.uuid,
                 Matches(call[h], k, m.uuid), NEW d \in Dsms, lun[d][n].uuid = m.uuid
          PROVE  VolumeOf(m, k).size = lun[d][n].size
      <4>1. m.dsm \in Dsms /\ m.uuid # 0
        <5>1. maps[h] \subseteq Mapping
          BY <1>1 DEF TypeOK
        <5>2. m.dsm \in Dsms
          BY <5>1 DEF Mapping
        <5>3. MapsInv(h)
          BY <2>1, Mine
        <5> QED
          BY <2>1, <5>2, <5>3 DEF MapsInv
      <4>2. m.dsm = d /\ k = n
        BY <1>1, <3>3, <4>1, Mine DEF DsmInv
      <4> QED
        BY <4>2 DEF VolumeOf
    <3>4. \A m, k : VolumeOf(m, k).uuid = m.uuid
      BY DEF VolumeOf
    <3> QED
      BY <1>1, <2>1, <3>1, <3>2, <3>3, <3>4 DEF SizeInv
  <2> QED
    BY <1>3, <2>2, <2>3, HandlerMoves
<1>4. ASSUME pc'[h] = "lunUpdate"
      PROVE  /\ vol'[h].uuid # 0
             /\ \A d \in Dsms : lun'[d][call'[h].name].uuid = vol'[h].uuid =>
                  lun'[d][call'[h].name].size <= call'[h].size
  <2>1. ExpandLookedUp(h) /\ call'[h] = call[h]
    BY <1>1, <1>4, HandlerMoves
  <2>2. pc[h] = "lookup" /\ UNCHANGED lun
    BY <2>1 DEF ExpandLookedUp, LookedUp, dsmVars
  <2>3. PICK v \in found[h] : v.size <= call[h].size /\ vol'[h] = v
    BY <1>1, <1>4, <2>1 DEF ExpandLookedUp, Respond, Goto, TypeOK
  <2>4. v.uuid # 0
    BY <2>2, FoundFacts
  <2> QED
    BY <1>1, <2>1, <2>2, <2>3, <2>4 DEF SizeInv
<1> QED
  BY <1>2, <1>3, <1>4 DEF SizeInv

\* A new call asks for one of the sizes and knows of no LUN.
LEMMA StartSize ==
    ASSUME IInv, SizesInv, NEW h \in Handlers, NEW n \in Names,
           CreateVolume(h, n) \/ ControllerExpandVolume(h, n) \/ DeleteVolume(h, n)
    PROVE  \A g \in Handlers : SizeInv(g)'
<1>1. PICK op \in {"create", "expand", "delete"}, s \in Sizes \cup {0} :
        /\ \E id : Start(h, op, n, s, id)
        /\ op # "delete" => s \in Sizes
  BY DEF CreateVolume, ControllerExpandVolume, DeleteVolume
<1>2. PICK id : Start(h, op, n, s, id)
  BY <1>1
<1>3. /\ pc \in [Handlers -> Labels] /\ call \in [Handlers -> Call] /\ HandlerInv(h)
  BY DEF IInv, TypeOK
<1>4. UNCHANGED <<lun, found, vol>> /\ pc[h] = "idle" /\ pc'[h] = "lookup"
  BY <1>2, <1>3 DEF Start, Goto, dsmVars
<1>5. call'[h] = [op |-> op, name |-> n, size |-> s, id |-> id]
  BY <1>2, <1>3 DEF Start
<1>6. call'[h].op = op /\ call'[h].size = s
  BY <1>5
<1>7. SizeInv(h)'
  BY <1>1, <1>3, <1>4, <1>6 DEF SizeInv, HandlerInv
<1>8. ASSUME NEW g \in Handlers \ {h} PROVE SizeInv(g)'
  <2>1. pc'[g] = pc[g] /\ call'[g] = call[g]
    BY <1>2, <1>3 DEF Start, Goto
  <2> QED
    BY <1>4, <2>1 DEF SizesInv, SizeInv
<1> QED
  BY <1>7, <1>8

LEMMA SizesInit == Init => SizesInv
<1> SUFFICES ASSUME Init PROVE SizesInv
  OBVIOUS
<1>1. \A d \in Dsms, n \in Names : lun[d][n].uuid = 0
  BY DEF Init, NoLun
<1>2. \A h \in Handlers : SizeInv(h)
  BY DEF Init, SizeInv
<1> QED
  BY <1>1, <1>2 DEF SizesInv

LEMMA SizesNext == IInv /\ SizesInv /\ [Next]_vars => SizesInv'
<1> SUFFICES ASSUME IInv, SizesInv, [Next]_vars PROVE SizesInv'
  OBVIOUS
<1>1. LunStep
  BY LunStepAlways
<1>2. \A d \in Dsms, n \in Names : lun'[d][n].uuid # 0 => lun'[d][n].size \in Sizes
  BY <1>1 DEF LunStep, Grown, SizesInv
<1>3. CASE UNCHANGED vars
  BY <1>3 DEF vars, SizesInv, SizeInv
<1>4. CASE Crash
  BY <1>2, <1>4 DEF Crash, SizesInv, SizeInv
<1>5. ASSUME NEW h \in Handlers, HandlerStep(h)
      PROVE  \A g \in Handlers : SizeInv(g)'
  <2>1. SizeInv(h)'
    BY <1>1, <1>5, MySize
  <2>2. ASSUME NEW g \in Handlers \ {h} PROVE SizeInv(g)'
    <3>1. pc'[g] = pc[g] /\ call'[g] = call[g] /\ found'[g] = found[g] /\ vol'[g] = vol[g]
      BY <1>5, HandlerMoves DEF Steady
    <3> QED
      BY <1>1, <3>1, OthersSize
  <2> QED
    BY <2>1, <2>2
<1> QED
  BY <1>2, <1>3, <1>4, <1>5, StartSize DEF Next, SizesInv

-----------------------------------------------------------------------------
(* The step simulation.                                                    *)

\* What the contract sees of volume n is the LUN the CO was handed.
Seen(n) ==
    /\ co[n] = "creating" => Shown(n) = 0
    /\ Gone(n) => Shown(n) = 0
    /\ co[n] \in {"bound", "deleting"} =>
         \A d \in Dsms : lun[d][n].uuid = pv[n] => Shown(n) = lun[d][n].size

AllSeen == \A n \in Names : Seen(n)

LEMMA SeenAlways == IInv => AllSeen
<1> SUFFICES ASSUME IInv, NEW n \in Names PROVE Seen(n)
  BY DEF AllSeen
<1>1. TypeOK /\ DsmInv /\ CoInv(n)
  BY DEF IInv
<1>2. Gone(n) => Shown(n) = 0
  BY DEF Gone, Shown, Holders
<1>3. ASSUME NEW d \in Dsms, lun[d][n].uuid = pv[n], co[n] \in {"bound", "deleting"}
      PROVE  Shown(n) = lun[d][n].size
  <2>1. pv[n] # 0 /\ pv[n] \in target[d][n].luns
    BY <1>1, <1>3 DEF CoInv
  <2>2. Holders(n) = {d}
    <3>1. d \in Holders(n)
      BY <1>3, <2>1, LunTypes, <1>1 DEF Holders, Visible
    <3>2. \A e \in Holders(n) : e = d
      BY <1>1, <1>3, <2>1 DEF Holders, DsmInv
    <3> QED
      BY <3>1, <3>2
  <2> QED
    BY <1>3, <2>2 DEF Shown
<1> QED
  BY <1>2, <1>3 DEF Seen, Shown

\* What a step does to the CO's view of volume n.
CoStep(n) ==
    \/ co'[n] = co[n] /\ pv'[n] = pv[n]
    \/ /\ co[n] = "bound" /\ co'[n] = "deleting" /\ pv'[n] = pv[n]
       /\ UNCHANGED lun
    \/ co[n] = "creating" /\ co'[n] = "bound"
    \/ /\ co[n] = "deleting" /\ co'[n] = "deleted" /\ pv'[n] = pv[n]
       /\ UNCHANGED lun

LEMMA CoStepAlways ==
    ASSUME IInv, [Next]_vars, NEW n \in Names
    PROVE  CoStep(n)
<1>1. co \in [Names -> {"creating", "bound", "deleting", "deleted"}] /\ pv \in [Names -> Nat]
  BY DEF IInv, TypeOK
<1>2. ASSUME UNCHANGED coVars PROVE CoStep(n)
  BY <1>2 DEF CoStep, coVars
<1>3. CASE Crash \/ UNCHANGED vars
  BY <1>2, <1>3 DEF Crash, vars, coVars
<1>4. ASSUME NEW h \in Handlers, NEW m \in Names,
             CreateVolume(h, m) \/ ControllerExpandVolume(h, m) \/ DeleteVolume(h, m)
      PROVE  CoStep(n)
  <2>1. UNCHANGED <<lun, pv>>
    BY <1>4 DEF CreateVolume, ControllerExpandVolume, DeleteVolume, Start, dsmVars
  <2>2. \/ UNCHANGED co
        \/ co[m] \in {"bound", "deleting"} /\ co' = [co EXCEPT ![m] = "deleting"]
    BY <1>4 DEF CreateVolume, ControllerExpandVolume, DeleteVolume
  <2> QED
    BY <1>1, <2>1, <2>2 DEF CoStep
<1>5. ASSUME NEW h \in Handlers, HandlerStep(h) PROVE CoStep(n)
  <2>1. CASE ListTargets(h) \/ GetMappedLun(h) \/ CreateLookedUp(h) \/ DeleteLookedUp(h)
             \/ ExpandLookedUp(h) \/ PickDsm(h) \/ LunCreate(h) \/ LunGet(h)
             \/ TargetCreate(h) \/ TargetGet(h)
    BY <1>2, <2>1 DEF ListTargets, GetMappedLun, CreateLookedUp, DeleteLookedUp,
       ExpandLookedUp, PickDsm, LunCreate, LunGet, TargetCreate, TargetGet
  <2>2. CASE LunMapTarget(h) \/ UndoTarget(h) \/ UndoLunGet(h) \/ UndoLunDelete(h)
             \/ LunDelete(h) \/ LunCheck(h) \/ TargetDelete(h) \/ TargetCheck(h)
             \/ LunUpdate(h)
    BY <1>2, <2>2 DEF LunMapTarget, UndoTarget, UndoLunGet, UndoLunDelete, LunDelete,
       LunCheck, TargetDelete, TargetCheck, LunUpdate
  <2>3. CASE Deliver(h)
    <3>1. call[h].name \in Names /\ UNCHANGED lun
      BY <2>3, FieldTypes DEF IInv, Deliver, dsmVars
    <3> QED
      BY <1>1, <2>3, <3>1 DEF Deliver, CoStep, coVars
  <2> QED
    BY <1>5, <2>1, <2>2, <2>3 DEF HandlerStep
<1> QED
  BY <1>3, <1>4, <1>5 DEF Next

\* The LUN of a volume that exists before and after a step is the same one.
LEMMA SameLun ==
    ASSUME IInv, LunStep, NEW n \in Names, NEW d \in Dsms, co[n] # "creating",
           lun'[d][n].uuid = pv[n]
    PROVE  lun'[d][n] = lun[d][n] \/ Grown(d, n)
<1>1. CoInv(n) /\ pv[n] \in Nat /\ nextId \in Nat
  BY DEF IInv, TypeOK
<1>2. pv[n] # 0 /\ pv[n] <= nextId
  BY <1>1 DEF CoInv
<1> QED
  BY <1>1, <1>2 DEF LunStep

\* A step that keeps the CO's view of volume n.
LEMMA SameView ==
    ASSUME IInv, IInv', AllSeen, AllSeen', LunStep, NEW n \in Names,
           co'[n] = co[n], pv'[n] = pv[n]
    PROVE  [Contract(n)!Next]_(Contract(n)!vars)
<1>1. /\ CoInv(n) /\ CoInv(n)' /\ Seen(n) /\ Seen(n)'
      /\ co[n] \in {"creating", "bound", "deleting", "deleted"}
  BY DEF IInv, AllSeen, TypeOK
<1>2. ASSUME Shown(n)' = Shown(n) PROVE UNCHANGED Contract(n)!vars
  BY <1>2 DEF Contract!vars
<1>3. CASE co[n] = "creating"
  BY <1>1, <1>2, <1>3 DEF Seen
<1>4. CASE co[n] = "deleted"
  BY <1>1, <1>2, <1>4 DEF Seen, CoInv
<1>5. CASE co[n] \in {"bound", "deleting"} /\ Gone(n)'
  <2>1. co[n] = "deleting" /\ Shown(n)' = 0
    BY <1>1, <1>5 DEF Seen, CoInv, Gone
  <2> QED
    BY <2>1 DEF Contract!Next, Contract!Remove
<1>6. CASE co[n] \in {"bound", "deleting"} /\ ~Gone(n)'
  <2>1. PICK d \in Dsms : lun'[d][n].uuid = pv[n]
    BY <1>6 DEF Gone
  <2>2. Shown(n)' = lun'[d][n].size
    BY <1>1, <1>6, <2>1 DEF Seen
  <2>3. CASE lun'[d][n] = lun[d][n]
    BY <1>1, <1>2, <1>6, <2>1, <2>2, <2>3 DEF Seen
  <2>4. CASE Grown(d, n)
    <3>1. /\ co[n] = "bound" /\ Shown(n) = lun[d][n].size
          /\ lun[d][n].size <= lun'[d][n].size
      BY <1>1, <2>1, <2>4 DEF Grown, Seen
    <3>2. lun[d][n].size \in Nat /\ lun'[d][n].size \in Nat
      BY <2>4, LunTypes, ConstantsAssumption DEF IInv, Grown
    <3>3. CASE lun'[d][n].size = lun[d][n].size
      BY <1>2, <2>2, <3>1, <3>3
    <3>4. CASE lun'[d][n].size > lun[d][n].size
      BY <2>2, <3>1, <3>2, <3>4 DEF Contract!Next, Contract!Expand
    <3> QED
      BY <3>1, <3>2, <3>3, <3>4
  <2> QED
    BY <1>6, <2>1, <2>3, <2>4, SameLun
<1> QED
  BY <1>1, <1>3, <1>4, <1>5, <1>6

\* Every step is, for each volume, a step of the contract or not seen.
LEMMA ContractNext ==
    ASSUME IInv, IInv', SizesInv, SizesInv', AllSeen, AllSeen', [Next]_vars,
           NEW n \in Names
    PROVE  [Contract(n)!Next]_(Contract(n)!vars)
<1>1. CoStep(n) /\ LunStep
  BY CoStepAlways, LunStepAlways
<1>2. CoInv(n) /\ CoInv(n)' /\ Seen(n) /\ Seen(n)'
  BY DEF IInv, AllSeen
<1>3. CASE co[n] = "bound" /\ co'[n] = "deleting" /\ pv'[n] = pv[n] /\ UNCHANGED lun
  <2>1. PICK d \in Dsms : lun[d][n].uuid = pv[n]
    BY <1>2, <1>3 DEF CoInv
  <2>2. Shown(n)' = Shown(n)
    BY <1>2, <1>3, <2>1 DEF Seen
  <2> QED
    BY <1>3, <2>2 DEF Contract!Next, Contract!Delete
<1>4. CASE co[n] = "creating" /\ co'[n] = "bound"
  <2>1. PICK d \in Dsms : lun'[d][n].uuid = pv'[n]
    BY <1>2, <1>4 DEF CoInv
  <2>2. Shown(n)' = lun'[d][n].size /\ pv'[n] # 0
    BY <1>2, <1>4, <2>1 DEF Seen, CoInv
  <2>3. Shown(n)' \in Sizes
    BY <2>1, <2>2 DEF SizesInv
  <2> QED
    BY <1>4, <2>3 DEF Contract!Next, Contract!Create
<1>5. CASE co[n] = "deleting" /\ co'[n] = "deleted" /\ pv'[n] = pv[n] /\ UNCHANGED lun
  <2>1. Gone(n) /\ Gone(n)'
    BY <1>2, <1>5 DEF CoInv, Gone
  <2>2. Shown(n) = 0 /\ Shown(n)' = 0
    BY <1>2, <2>1 DEF Seen
  <2> QED
    BY <1>5, <2>2 DEF Contract!Next, Contract!Forget
<1> QED
  BY <1>1, <1>3, <1>4, <1>5, SameView DEF CoStep

LEMMA ContractInit == Init => \A n \in Names : Contract(n)!Init
<1> SUFFICES ASSUME Init, NEW n \in Names PROVE Contract(n)!Init
  OBVIOUS
<1>1. co[n] = "creating" /\ Shown(n) = 0
  BY DEF Init, Shown
<1> QED
  BY <1>1, ConstantsAssumption DEF Contract!Init

\* Over any number of DSMs, volumes and handlers, the LUN the CO was handed
\* stays, does not shrink and does not come back (CreateVolume, ExpandVolume,
\* DeleteVolume of dsm.go): IscsiVolume implements VolumeContract for each name.
THEOREM ContractKept == Supported /\ Spec => KeepsContract
<1>1. Supported /\ Spec => Init /\ [][Next]_vars /\ []IInv
  BY IInvCorrect DEF Spec
<1>2. Init /\ [][Next]_vars /\ []IInv => []SizesInv
  BY SizesInit, SizesNext, PTL
<1>3. []IInv => []AllSeen
  BY SeenAlways, PTL
<1>4. /\ IInv /\ IInv' /\ SizesInv /\ SizesInv' /\ AllSeen /\ AllSeen' /\ [Next]_vars
      => [\A n \in Names : [Contract(n)!Next]_(Contract(n)!vars)]_vars
  BY ContractNext
<1> QED
  BY <1>1, <1>2, <1>3, <1>4, ContractInit, PTL DEF KeepsContract

-----------------------------------------------------------------------------
\* ExpandVolume leaves no LUN smaller (LunUpdate, dsm.go), whichever call's
\* lookup its size was compared with: the size it read is the size it grows.
THEOREM LunsNeverShrink == Supported /\ Spec => LunNeverShrinks
<1>1. Supported /\ Spec => Init /\ [][Next]_vars /\ []IInv
  BY IInvCorrect DEF Spec
<1>2. Init /\ [][Next]_vars /\ []IInv => []SizesInv
  BY SizesInit, SizesNext, PTL
<1>3. ASSUME IInv, IInv', SizesInv, [Next]_vars, NEW d \in Dsms, NEW n \in Names,
             lun'[d][n].uuid = lun[d][n].uuid
      PROVE  lun'[d][n].size >= lun[d][n].size
  <2>1. lun[d][n].size \in Nat /\ lun[d][n].uuid \in Nat /\ nextId \in Nat
    BY <1>3, LunTypes DEF IInv, TypeOK
  <2>2. CASE lun'[d][n] = lun[d][n]
    BY <2>1, <2>2
  <2>3. CASE lun'[d][n].uuid = 0
    <3>1. lun[d][n] = NoLun /\ lun'[d][n] = NoLun
      BY <1>3, <2>3 DEF IInv, DsmInv
    <3> QED
      BY <2>1, <3>1
  <2>4. ~ (lun[d][n].uuid = 0 /\ lun'[d][n].uuid = nextId + 1)
    BY <1>3, <2>1
  <2>5. CASE Grown(d, n)
    <3>1. lun'[d][n].size \in Nat /\ lun[d][n].size <= lun'[d][n].size
      BY <2>5, ConstantsAssumption DEF Grown
    <3> QED
      BY <2>1, <3>1
  <2> QED
    BY <1>3, <2>2, <2>3, <2>4, <2>5, LunStepAlways DEF LunStep
<1>4. IInv /\ IInv' /\ SizesInv /\ [Next]_vars
      => [\A d \in Dsms, n \in Names :
            lun'[d][n].uuid = lun[d][n].uuid => lun'[d][n].size >= lun[d][n].size]_vars
  BY <1>3
<1> QED
  BY <1>1, <1>2, <1>4, PTL DEF LunNeverShrinks
=============================================================================
