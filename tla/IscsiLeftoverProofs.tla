------------------------ MODULE IscsiLeftoverProofs -------------------------
(***************************************************************************)
(* What IscsiVolume leaves behind on the DSMs, for every set of DSMs,      *)
(* names, sizes and handlers and every bound, while the CO has one call at *)
(* a time in flight per volume and the driver knows every DSM.  The        *)
(* inductive invariant says, for every place a handler can be at, which of *)
(* the objects of its name are mapped, accounted for, or its own to undo.  *)
(***************************************************************************)
EXTENDS IscsiVolumeProofs

-----------------------------------------------------------------------------
(* The inductive invariant.                                                *)

\* What a target left behind may be: accounted for, or given up by a deletion.
Excused == Accounted \cup abandoned

\* What DSM d holds under a name is accounted for; or its target maps a LUN.
Reported(d, n) ==
    /\ lun[d][n].uuid \in Accounted \cup {0}
    /\ target[d][n].id \in Excused \cup {0}
Settled(d, n) == target[d][n].luns # {} \/ Reported(d, n)

AllSettled(n)     == \A d \in Dsms : Settled(d, n)
AllReported(n)    == \A d \in Dsms : Reported(d, n)
RestReported(n, d) == \A e \in Dsms : e # d => Reported(e, n)

\* At most one DSM shows a volume nobody reported.
OneUnreported(n) == \A d \in Dsms, e \in Dsms :
    d # e /\ target[d][n].luns # {} /\ target[e][n].luns # {} =>
        Reported(d, n) \/ Reported(e, n)

NameInv(n) == OneUnreported(n) /\ (Active(n) = {} => AllSettled(n))

\* What a creation found or made on its DSM, and what its rollback knows of.
Building == {"lunGet", "targetCreate", "targetGet", "lunMap", "undoTarget"}
OwnMade(h) == LET n == call[h].name  d == vol[h].dsm IN
    /\ lun[d][n].uuid \in Accounted \cup {0, madeLun[h]}
    /\ target[d][n].id \in Excused \cup {0, madeTgt[h]}

\* The objects of a name, by the place its handler is at.
PlaceInv(h) == LET n == call[h].name  v == vol[h]  l == lun[v.dsm][n]  t == target[v.dsm][n] IN
    /\ pc[h] \in {"lookup", "reply", "lunUpdate", "lunDelete"} => AllSettled(n)
    /\ pc[h] \in {"pick", "lunCreate"} => AllReported(n)
    /\ pc[h] \in Building \cup {"undoLunGet", "undoLunDelete"} => RestReported(n, v.dsm)
    /\ pc[h] \in Building => OwnMade(h)
    /\ pc[h] \in {"undoLunGet", "undoLunDelete"} => t.id \in Excused \cup {0}
    /\ pc[h] = "undoLunDelete" => l.uuid = v.uuid
    /\ pc[h] = "lunDelete" => v.luns = {v.uuid} /\ l.uuid = v.uuid /\ t.id = v.tgt
    /\ pc[h] \in {"targetDelete", "targetCheck"} =>
         /\ \A d \in Dsms : d # v.dsm => Settled(d, n)
         /\ l.uuid = 0 /\ t.id \in {0, v.tgt}
    /\ pc[h] = "lunCheck" =>
         /\ \A d \in Dsms : d # v.dsm => Settled(d, n)
         /\ Settled(v.dsm, n) \/ (l.uuid = 0 /\ t.id \in {0, v.tgt})

\* A lookup by name has not passed by a mapped LUN of that name.
LookInv(h) == LET n == call[h].name IN pc[h] = "lookup" =>
    /\ \A m \in maps[h] : m.luns = {m.uuid}
    /\ \A v \in found[h] : v.luns = {v.uuid}
    /\ call[h].op = "create" /\ listErr[h] = "nil" /\ found[h] = {} =>
         \A d \in Dsms : target[d][n].luns # {} =>
            \/ d \in todo[h]
            \/ \E m \in maps[h] : m.dsm = d /\ m.uuid = lun[d][n].uuid

LInv ==
    /\ \A n \in Names : NameInv(n)
    /\ \A h \in Handlers : pc[h] # "idle" => PlaceInv(h) /\ LookInv(h)

-----------------------------------------------------------------------------
(* What a step of one handler leaves alone.                                *)

\* Nothing becomes unaccounted for, and other rollbacks keep what they know.
Grows == Accounted \subseteq Accounted' /\ Excused \subseteq Excused'
SteadyLun(h) == \A g \in Handlers : g # h => madeLun'[g] = madeLun[g]

\* An object that stays, or goes, stays accounted for.
LEMMA ReportedKept ==
    ASSUME Grows, NEW d \in Dsms, NEW n \in Names, Reported(d, n),
           lun'[d][n].uuid \in {0, lun[d][n].uuid},
           target'[d][n].id \in {0, target[d][n].id}
    PROVE  Reported(d, n)'
  BY DEF Grows, Reported

\* What a DSM holds under a name is as settled as it was.
LEMMA SettledKept ==
    ASSUME Grows, NEW d \in Dsms, NEW n \in Names, Settled(d, n),
           lun'[d][n].uuid = lun[d][n].uuid, target'[d][n] = target[d][n]
    PROVE  Settled(d, n)'
  BY ReportedKept DEF Settled

\* The facts about a whole name, when nothing of that name changes.
LEMMA NameKept ==
    ASSUME Grows, NEW n \in Names,
           \A d \in Dsms : lun'[d][n] = lun[d][n] /\ target'[d][n] = target[d][n]
    PROVE  /\ AllSettled(n) => AllSettled(n)'
           /\ AllReported(n) => AllReported(n)'
           /\ \A d \in Dsms : RestReported(n, d) => RestReported(n, d)'
           /\ OneUnreported(n) => OneUnreported(n)'
<1>1. \A d \in Dsms : (Settled(d, n) => Settled(d, n)') /\ (Reported(d, n) => Reported(d, n)')
  BY SettledKept, ReportedKept
<1>2. AllSettled(n) => AllSettled(n)'
  BY <1>1 DEF AllSettled
<1>3. AllReported(n) => AllReported(n)'
  BY <1>1 DEF AllReported
<1>4. \A d \in Dsms : RestReported(n, d) => RestReported(n, d)'
  BY <1>1 DEF RestReported
<1>5. OneUnreported(n) => OneUnreported(n)'
  BY <1>1 DEF OneUnreported
<1> QED
  BY <1>2, <1>3, <1>4, <1>5

\* A handler of another volume is where it was, with what it had.
LEMMA OtherPlaceKept ==
    ASSUME TypeOK, Grows, NEW n \in Names, NEW h \in Handlers, NEW g \in Handlers, g # h,
           Untouched(n), Steady(h), SteadyLun(h), call[g].name # n,
           PlaceInv(g), LookInv(g)
    PROVE  PlaceInv(g)' /\ LookInv(g)'
<1>1. /\ pc'[g] = pc[g] /\ call'[g] = call[g] /\ vol'[g] = vol[g] /\ todo'[g] = todo[g]
      /\ madeTgt'[g] = madeTgt[g] /\ madeLun'[g] = madeLun[g] /\ maps'[g] = maps[g]
      /\ found'[g] = found[g] /\ listErr'[g] = listErr[g]
  BY DEF Steady, SteadyLun
<1>2. PICK m \in Names, d \in Dsms : m = call[g].name /\ d = vol[g].dsm
  BY FieldTypes
<1>3. \A e \in Dsms : lun'[e][m] = lun[e][m] /\ target'[e][m] = target[e][m]
  BY <1>2 DEF Untouched
<1>4. /\ AllSettled(m) => AllSettled(m)'
      /\ AllReported(m) => AllReported(m)'
      /\ RestReported(m, d) => RestReported(m, d)'
  BY <1>3, NameKept
<1>5. \A e \in Dsms : Settled(e, m) => Settled(e, m)'
  BY <1>3, SettledKept
<1>6. OwnMade(g) => OwnMade(g)'
  BY <1>1, <1>2, <1>3 DEF OwnMade, Grows
<1>7. /\ pc[g] \in {"lookup", "reply", "lunUpdate", "lunDelete"} => AllSettled(m)'
      /\ pc[g] \in {"pick", "lunCreate"} => AllReported(m)'
      /\ pc[g] \in Building \cup {"undoLunGet", "undoLunDelete"} => RestReported(m, d)'
      /\ pc[g] \in Building => OwnMade(g)'
  BY <1>2, <1>4, <1>6 DEF PlaceInv
<1>8. /\ pc[g] \in {"undoLunGet", "undoLunDelete"} => target[d][m].id \in Excused' \cup {0}
      /\ pc[g] \in {"targetDelete", "targetCheck", "lunCheck"} =>
           \A e \in Dsms : e # d => Settled(e, m)'
  BY <1>2, <1>5 DEF PlaceInv, Grows
<1>9. PlaceInv(g)'
  <2>1. pc[g] = "lunCheck" =>
          Settled(d, m)' \/ (lun'[d][m].uuid = 0 /\ target'[d][m].id \in {0, vol[g].tgt})
    BY <1>2, <1>3, <1>5 DEF PlaceInv
  <2> QED
    BY <1>1, <1>2, <1>3, <1>7, <1>8, <2>1 DEF PlaceInv
<1>10. LookInv(g)'
  BY <1>1, <1>2, <1>3 DEF LookInv
<1> QED
  BY <1>9, <1>10

\* What is left to show of a step of handler h for volume n.
LEMMA FrameStep ==
    ASSUME LInv, TypeOK, Grows, NEW n \in Names, NEW h \in Handlers,
           Untouched(n), Steady(h), SteadyLun(h),
           \A g \in Handlers : g # h /\ pc[g] # "idle" => call[g].name # n,
           pc[h] # "idle" => call[h].name = n,
           pc'[h] # "idle" => call'[h].name = n,
           OneUnreported(n)',
           pc'[h] = "idle" => AllSettled(n)',
           pc'[h] # "idle" => PlaceInv(h)' /\ LookInv(h)'
    PROVE  LInv'
<1>1. ASSUME NEW m \in Names, m # n PROVE NameInv(m)'
  <2>1. \A d \in Dsms : lun'[d][m] = lun[d][m] /\ target'[d][m] = target[d][m]
    BY <1>1 DEF Untouched
  <2>2. Active(m)' = Active(m)
    BY <1>1 DEF Active, Steady
  <2> QED
    BY <2>1, <2>2, NameKept DEF LInv, NameInv
<1>2. NameInv(n)'
  BY DEF NameInv, Active
<1>3. ASSUME NEW g \in Handlers, g # h, pc'[g] # "idle"
      PROVE  PlaceInv(g)' /\ LookInv(g)'
  <2>1. pc[g] # "idle" /\ call[g].name # n
    BY <1>3 DEF Steady
  <2> QED
    BY <1>3, <2>1, OtherPlaceKept DEF LInv
<1> QED
  BY <1>1, <1>2, <1>3 DEF LInv

-----------------------------------------------------------------------------
(* What the requests do to the objects of one name.                        *)

\* LUN.create gives this DSM a LUN of the name, under a new uuid.
LEMMA AddLunRow ==
    ASSUME TypeOK, NEW d \in Dsms, NEW n \in Names, NEW s \in Nat, AddLun(d, n, s)
    PROVE  /\ target' = target /\ lun'[d][n].uuid = nextId + 1
           /\ \A e \in Dsms : e # d => lun'[e][n] = lun[e][n]
  BY DEF AddLun, TypeOK

\* Target.create gives it a target of the name, under a new id.
LEMMA AddTargetRow ==
    ASSUME TypeOK, NEW d \in Dsms, NEW n \in Names, AddTarget(d, n)
    PROVE  /\ lun' = lun /\ target'[d][n].id = nextId + 1
           /\ \A e \in Dsms : e # d => target'[e][n] = target[e][n]
  BY DEF AddTarget, TypeOK

\* Target.delete takes the target with this id away.
LEMMA RemoveTargetRow ==
    ASSUME TypeOK, NEW d \in Dsms, NEW n \in Names, NEW t \in Nat, RemoveTarget(d, t)
    PROVE  /\ lun' = lun
           /\ \A e \in Dsms : target'[e][n] =
                IF e = d /\ target[d][n].id = t THEN NoTarget ELSE target[e][n]
  BY DEF RemoveTarget, TypeOK

\* LUN.map_target changes no id, and no other DSM.
LEMMA MapLunRow ==
    ASSUME TypeOK, NEW d \in Dsms, NEW n \in Names, NEW t \in Nat, NEW u \in Nat, MapLun(d, t, u)
    PROVE  /\ lun' = lun
           /\ \A e \in Dsms : target'[e][n].id = target[e][n].id
           /\ \A e \in Dsms : e # d => target'[e][n] = target[e][n]
<1>1. lun' = lun
  BY DEF MapLun
<1>2. \A e \in Dsms : target'[e][n] =
         IF e = d /\ target[d][n].id = t THEN [id |-> t, luns |-> target[d][n].luns \cup {u}]
                                         ELSE target[e][n]
  BY DEF MapLun, TypeOK
<1>3. target'[d][n].id = target[d][n].id
  <2> DEFINE S == target[d][n].luns \cup {u}
  <2>1. target'[d][n] = IF target[d][n].id = t THEN [id |-> t, luns |-> S] ELSE target[d][n]
    BY <1>2
  <2> HIDE DEF S
  <2> QED
    BY <2>1
<1> QED
  BY <1>1, <1>2, <1>3

-----------------------------------------------------------------------------
(* Creation: every other DSM's objects are accounted for.                  *)

\* A step of a creation, once the lookup is done.
LEMMA BuildStep ==
    ASSUME LInv, IInv, NEW h \in Handlers, pc[h] \in CreateLabels,
           pc'[h] \notin {"idle", "lookup"}, call' = call, Grows,
           NEW n \in Names, NEW d \in Dsms, n = call[h].name,
           Untouched(n), Steady(h), SteadyLun(h), RestReported(n, d)', PlaceInv(h)'
    PROVE  LInv'
<1>1. pc[h] # "idle"
  BY DEF CreateLabels
<1>2. TypeOK /\ \A g \in Handlers : g # h /\ pc[g] # "idle" => call[g].name # n
  BY <1>1, Mine
<1>3. OneUnreported(n)'
  BY DEF RestReported, OneUnreported
<1>4. LookInv(h)'
  BY DEF LookInv
<1> QED
  BY <1>2, <1>3, <1>4, FrameStep

\* The LUN's undo function, if any, comes next; the target is dealt with.
LEMMA UndoLunPlace ==
    ASSUME TypeOK, NEW h \in Handlers, NEW n \in Names, NEW d \in Dsms,
           n = call[h].name, d = vol[h].dsm, call' = call, vol' = vol,
           UndoLun(h), RestReported(n, d)',
           lun'[d][n].uuid \in Accounted' \cup {0, madeLun[h]},
           target'[d][n].id \in Excused' \cup {0}
    PROVE  PlaceInv(h)' /\ pc'[h] \in UndoLabels
<1>1. pc'[h] = IF madeLun[h] # 0 THEN "undoLunGet" ELSE "pick"
  BY DEF UndoLun, Goto, TypeOK
<1>2. CASE madeLun[h] # 0
  BY <1>1, <1>2 DEF PlaceInv, Building, UndoLabels
<1>3. CASE madeLun[h] = 0
  <2>1. AllReported(n)'
    BY <1>3 DEF RestReported, AllReported, Reported
  <2> QED
    BY <1>1, <1>3, <2>1 DEF PlaceInv, Building, UndoLabels
<1> QED
  BY <1>2, <1>3

\* A creation that gives up leaves what it found accounted for, and what it
\* made to its rollback.
LEMMA UndoPlace ==
    ASSUME TypeOK, NEW h \in Handlers, NEW n \in Names, NEW d \in Dsms,
           n = call[h].name, d = vol[h].dsm, call' = call, vol' = vol,
           madeLun' = madeLun, madeTgt' = madeTgt,
           Undo(h), RestReported(n, d)',
           lun'[d][n].uuid \in Accounted' \cup {0, madeLun[h]},
           target'[d][n].id \in Excused' \cup {0, madeTgt[h]}
    PROVE  PlaceInv(h)' /\ pc'[h] \in UndoLabels
<1>1. CASE madeTgt[h] # 0
  <2>1. pc'[h] = "undoTarget"
    BY <1>1 DEF Undo, Goto, TypeOK
  <2> QED
    BY <2>1 DEF PlaceInv, Building, OwnMade, UndoLabels
<1>2. CASE madeTgt[h] = 0
  BY <1>2, UndoLunPlace DEF Undo
<1> QED
  BY <1>1, <1>2

\* What LInv says of a creation at work on a DSM.
LEMMA AtWork ==
    ASSUME LInv, IInv, NEW h \in Handlers, pc[h] \in CreateLabels
    PROVE  /\ TypeOK /\ DsmInv /\ call[h].name \in Names /\ vol[h].dsm \in Dsms
           /\ pc[h] \in {"pick", "lunCreate"} => AllReported(call[h].name)
           /\ pc[h] \notin {"pick", "lunCreate"} => RestReported(call[h].name, vol[h].dsm)
           /\ pc[h] \in Building => OwnMade(h)
<1>1. pc[h] # "idle"
  BY DEF CreateLabels
<1>2. TypeOK /\ DsmInv
  BY DEF IInv
<1>3. PlaceInv(h)
  BY <1>1 DEF LInv
<1> QED
  BY <1>2, <1>3, FieldTypes DEF PlaceInv, CreateLabels, Building

\* The other DSMs' objects stay accounted for.
LEMMA RestKept ==
    ASSUME Grows, NEW n \in Names, NEW d \in Dsms, RestReported(n, d),
           \A e \in Dsms : e # d => /\ lun'[e][n].uuid \in {0, lun[e][n].uuid}
                                    /\ target'[e][n].id \in {0, target[e][n].id}
    PROVE  RestReported(n, d)'
  BY ReportedKept DEF RestReported

\* The next DSM of the loop starts with everything accounted for; so does a
\* reply that reports failure.
LEMMA PickDsmLeaves ==
    ASSUME LInv, IInv, NEW h \in Handlers, PickDsm(h)
    PROVE  LInv'
<1>1. pc[h] = "pick" /\ pc[h] \in CreateLabels
  BY DEF PickDsm, CreateLabels
<1>2. PICK n \in Names, d \in Dsms : n = call[h].name /\ d = vol[h].dsm /\ AllReported(n) /\ TypeOK
  BY <1>1, AtWork
<1>3. UNCHANGED <<lun, target, nextId, logged, unanswered, abandoned, call>>
  BY DEF PickDsm, dsmVars, ledger
<1>4. Grows
  BY <1>3 DEF Grows, Excused, Accounted
<1>5. Untouched(n)
  BY <1>3 DEF Untouched
<1>6. Steady(h) /\ SteadyLun(h)
  BY <1>2 DEF PickDsm, Goto, Respond, Steady, SteadyLun, lookVars, undoVars, TypeOK
<1>7. AllReported(n)' /\ RestReported(n, d)' /\ AllSettled(n)'
  BY <1>2, <1>3, <1>4, NameKept DEF AllReported, RestReported, AllSettled, Settled
<1>8. pc'[h] \in {"lunCreate", "reply"}
  BY <1>2 DEF PickDsm, Goto, Respond, TypeOK
<1>9. PlaceInv(h)'
  BY <1>2, <1>3, <1>7, <1>8 DEF PlaceInv, Building
<1> QED
  BY <1>1, <1>2, <1>3, <1>4, <1>5, <1>6, <1>7, <1>8, <1>9, BuildStep

\* A LUN that LunCreate makes is known to the rollback, or its request went
\* unanswered.
LEMMA LunCreateLeaves ==
    ASSUME LInv, IInv, NEW h \in Handlers, LunCreate(h)
    PROVE  LInv'
<1>1. pc[h] = "lunCreate" /\ pc[h] \in CreateLabels
  BY DEF LunCreate, CreateLabels
<1>2. PICK n \in Names, d \in Dsms : /\ n = call[h].name /\ d = vol[h].dsm /\ AllReported(n)
                                     /\ TypeOK /\ DsmInv
  BY <1>1, AtWork
<1>3. call' = call /\ vol' = vol /\ Grows
  BY DEF LunCreate, Grows, Excused, Accounted
<1>4. Steady(h) /\ SteadyLun(h)
  BY <1>2 DEF LunCreate, Goto, Steady, SteadyLun, lookVars, undoVars, TypeOK
<1>5. CASE UNCHANGED <<lun, target, nextId>>
  <2>1. Untouched(n)
    BY <1>5 DEF Untouched
  <2>2. AllReported(n)' /\ RestReported(n, d)'
    BY <1>2, <1>3, <1>5, NameKept DEF AllReported, RestReported
  <2>3. OwnMade(h)'
    BY <1>2, <1>3, <2>2 DEF AllReported, Reported, OwnMade
  <2>4. pc'[h] \in {"lunGet", "pick"}
    BY <1>2 DEF LunCreate, Goto, TypeOK
  <2>5. PlaceInv(h)'
    BY <1>2, <1>3, <2>2, <2>3, <2>4 DEF PlaceInv, Building
  <2> QED
    BY <1>1, <1>2, <1>3, <1>4, <2>1, <2>2, <2>4, <2>5, BuildStep
<1>6. CASE /\ lun[d][n] = NoLun /\ AddLun(d, n, call[h].size)
           /\ \/ pc'[h] = "lunGet" /\ madeLun'[h] = nextId + 1
              \/ pc'[h] = "pick" /\ nextId + 1 \in unanswered'
  <2>1. call[h].size \in Nat
    BY <1>2, FieldTypes
  <2>2. Untouched(n)
    BY <1>2, <1>6, <2>1, AddLunKeeps
  <2>3. /\ target' = target /\ lun'[d][n].uuid = nextId + 1
        /\ \A e \in Dsms : e # d => lun'[e][n] = lun[e][n]
    BY <1>2, <1>6, <2>1, AddLunRow
  <2>4. RestReported(n, d)'
    BY <1>2, <1>3, <2>3, RestKept DEF AllReported, RestReported
  <2>5. target'[d][n].id \in Excused' \cup {0}
    BY <1>2, <1>3, <2>3 DEF AllReported, Reported, Grows
  <2>6. CASE pc'[h] = "lunGet" /\ madeLun'[h] = nextId + 1
    <3>1. OwnMade(h)'
      BY <1>2, <1>3, <2>3, <2>5, <2>6 DEF OwnMade
    <3>2. PlaceInv(h)'
      BY <1>2, <1>3, <2>4, <2>6, <3>1 DEF PlaceInv, Building
    <3> QED
      BY <1>1, <1>2, <1>3, <1>4, <2>2, <2>4, <2>6, <3>2, BuildStep
  <2>7. CASE pc'[h] = "pick" /\ nextId + 1 \in unanswered'
    <3>1. AllReported(n)'
      BY <2>3, <2>4, <2>5, <2>7 DEF AllReported, RestReported, Reported, Excused, Accounted
    <3>2. PlaceInv(h)'
      BY <1>2, <1>3, <2>7, <3>1 DEF PlaceInv, Building
    <3> QED
      BY <1>1, <1>2, <1>3, <1>4, <2>2, <2>4, <2>7, <3>2, BuildStep
  <2> QED
    BY <1>6, <2>6, <2>7
<1>7. /\ pc \in [Handlers -> Labels] /\ madeLun \in [Handlers -> Nat]
  BY <1>2 DEF TypeOK
<1>8. \/ UNCHANGED <<lun, target, nextId>>
      \/ /\ lun[d][n] = NoLun /\ AddLun(d, n, call[h].size)
         /\ \/ pc'[h] = "lunGet" /\ madeLun'[h] = nextId + 1
            \/ pc'[h] = "pick" /\ nextId + 1 \in unanswered'
  BY <1>2, <1>7 DEF LunCreate, Goto, dsmVars
<1> QED
  BY <1>5, <1>6, <1>8

\* createVolumeByDsm goes on with its LUN, or gives up.
LEMMA LunGetLeaves ==
    ASSUME LInv, IInv, NEW h \in Handlers, LunGet(h)
    PROVE  LInv'
<1>1. pc[h] = "lunGet" /\ pc[h] \in CreateLabels
  BY DEF LunGet, CreateLabels
<1>2. PICK n \in Names, d \in Dsms : /\ n = call[h].name /\ d = vol[h].dsm /\ TypeOK
                                     /\ RestReported(n, d) /\ OwnMade(h)
  BY <1>1, AtWork DEF Building
<1>3. UNCHANGED <<lun, target, nextId, logged, unanswered, abandoned, call, madeLun, madeTgt>>
  BY DEF LunGet, dsmVars, ledger, undoVars
<1>4. Grows
  BY <1>3 DEF Grows, Excused, Accounted
<1>5. Untouched(n)
  BY <1>3 DEF Untouched
<1>6. Steady(h) /\ SteadyLun(h)
  BY <1>2, <1>3 DEF LunGet, Goto, Undo, UndoLun, Steady, SteadyLun, lookVars, TypeOK
<1>7. RestReported(n, d)'
  BY <1>2, <1>3, <1>4, NameKept
<1>8. /\ lun'[d][n].uuid \in Accounted' \cup {0, madeLun[h]}
      /\ target'[d][n].id \in Excused' \cup {0, madeTgt[h]}
  BY <1>2, <1>3, <1>4 DEF OwnMade, Grows
<1>9. CASE pc'[h] = "targetCreate" /\ vol'[h].dsm = d
  <2>1. OwnMade(h)'
    BY <1>2, <1>3, <1>8, <1>9 DEF OwnMade
  <2>2. PlaceInv(h)'
    BY <1>2, <1>3, <1>7, <1>9, <2>1 DEF PlaceInv, Building
  <2> QED
    BY <1>1, <1>2, <1>3, <1>4, <1>5, <1>6, <1>7, <1>9, <2>2, BuildStep
<1>10. CASE Undo(h) /\ vol' = vol
  <2>1. PlaceInv(h)' /\ pc'[h] \in UndoLabels
    BY <1>2, <1>3, <1>7, <1>8, <1>10, UndoPlace
  <2> QED
    BY <1>1, <1>2, <1>3, <1>4, <1>5, <1>6, <1>7, <2>1, BuildStep DEF UndoLabels
<1> QED
  BY <1>2, <1>9, <1>10 DEF LunGet, Goto, WithLun, TypeOK

\* A target that createMappingTarget makes is known to the rollback, or its
\* request went unanswered.
LEMMA TargetCreateLeaves ==
    ASSUME LInv, IInv, NEW h \in Handlers, TargetCreate(h)
    PROVE  LInv'
<1>1. pc[h] = "targetCreate" /\ pc[h] \in CreateLabels
  BY DEF TargetCreate, CreateLabels
<1>2. PICK n \in Names, d \in Dsms : /\ n = call[h].name /\ d = vol[h].dsm /\ TypeOK /\ DsmInv
                                     /\ RestReported(n, d) /\ OwnMade(h)
  BY <1>1, AtWork DEF Building
<1>3. call' = call /\ vol' = vol /\ madeLun' = madeLun /\ Grows
  BY DEF TargetCreate, Grows, Excused, Accounted, undoVars
<1>4. Steady(h) /\ SteadyLun(h)
  BY <1>2, <1>3 DEF TargetCreate, Goto, Undo, UndoLun, Steady, SteadyLun, lookVars, undoVars, TypeOK
<1>5. /\ pc \in [Handlers -> Labels] /\ madeTgt \in [Handlers -> Nat]
  BY <1>2 DEF TypeOK
<1>6. CASE UNCHANGED <<lun, target, nextId, madeTgt>> /\ (pc'[h] = "targetGet" \/ Undo(h))
  <2>1. Untouched(n)
    BY <1>6 DEF Untouched
  <2>2. RestReported(n, d)'
    BY <1>2, <1>3, <1>6, NameKept
  <2>3. /\ lun'[d][n].uuid \in Accounted' \cup {0, madeLun[h]}
        /\ target'[d][n].id \in Excused' \cup {0, madeTgt[h]}
    BY <1>2, <1>3, <1>6 DEF OwnMade, Grows
  <2>4. CASE pc'[h] = "targetGet"
    <3>1. OwnMade(h)'
      BY <1>2, <1>3, <1>6, <2>3 DEF OwnMade
    <3>2. PlaceInv(h)'
      BY <1>2, <1>3, <2>2, <2>4, <3>1 DEF PlaceInv, Building
    <3> QED
      BY <1>1, <1>2, <1>3, <1>4, <2>1, <2>2, <2>4, <3>2, BuildStep
  <2>5. CASE Undo(h)
    <3>1. PlaceInv(h)' /\ pc'[h] \in UndoLabels
      BY <1>2, <1>3, <1>6, <2>2, <2>3, <2>5, UndoPlace
    <3> QED
      BY <1>1, <1>2, <1>3, <1>4, <2>1, <2>2, <3>1, BuildStep DEF UndoLabels
  <2> QED
    BY <1>6, <2>4, <2>5
<1>7. CASE /\ target[d][n] = NoTarget /\ AddTarget(d, n)
           /\ \/ pc'[h] = "targetGet" /\ madeTgt'[h] = nextId + 1
              \/ Undo(h) /\ madeTgt' = madeTgt /\ nextId + 1 \in unanswered'
  <2>1. Untouched(n)
    BY <1>2, <1>7, AddTargetKeeps
  <2>2. /\ lun' = lun /\ target'[d][n].id = nextId + 1
        /\ \A e \in Dsms : e # d => target'[e][n] = target[e][n]
    BY <1>2, <1>7, AddTargetRow
  <2>3. RestReported(n, d)'
    BY <1>2, <1>3, <2>2, RestKept
  <2>4. lun'[d][n].uuid \in Accounted' \cup {0, madeLun[h]}
    BY <1>2, <1>3, <2>2 DEF OwnMade, Grows
  <2>5. CASE pc'[h] = "targetGet" /\ madeTgt'[h] = nextId + 1
    <3>1. OwnMade(h)'
      BY <1>2, <1>3, <2>2, <2>4, <2>5 DEF OwnMade
    <3>2. PlaceInv(h)'
      BY <1>2, <1>3, <2>3, <2>5, <3>1 DEF PlaceInv, Building
    <3> QED
      BY <1>1, <1>2, <1>3, <1>4, <2>1, <2>3, <2>5, <3>2, BuildStep
  <2>6. CASE Undo(h) /\ madeTgt' = madeTgt /\ nextId + 1 \in unanswered'
    <3>1. target'[d][n].id \in Excused' \cup {0, madeTgt[h]}
      BY <2>2, <2>6 DEF Excused, Accounted
    <3>2. PlaceInv(h)' /\ pc'[h] \in UndoLabels
      BY <1>2, <1>3, <2>3, <2>4, <2>6, <3>1, UndoPlace
    <3> QED
      BY <1>1, <1>2, <1>3, <1>4, <2>1, <2>3, <3>2, BuildStep DEF UndoLabels
  <2> QED
    BY <1>7, <2>5, <2>6
<1>8. \/ UNCHANGED <<lun, target, nextId, madeTgt>> /\ (pc'[h] = "targetGet" \/ Undo(h))
      \/ /\ target[d][n] = NoTarget /\ AddTarget(d, n)
         /\ \/ pc'[h] = "targetGet" /\ madeTgt'[h] = nextId + 1
            \/ Undo(h) /\ madeTgt' = madeTgt /\ nextId + 1 \in unanswered'
  BY <1>2, <1>5 DEF TargetCreate, Goto, dsmVars, undoVars
<1> QED
  BY <1>6, <1>7, <1>8

\* createMappingTarget goes on with its target, or gives up.
LEMMA TargetGetLeaves ==
    ASSUME LInv, IInv, NEW h \in Handlers, TargetGet(h)
    PROVE  LInv'
<1>1. pc[h] = "targetGet" /\ pc[h] \in CreateLabels
  BY DEF TargetGet, CreateLabels
<1>2. PICK n \in Names, d \in Dsms : /\ n = call[h].name /\ d = vol[h].dsm /\ TypeOK
                                     /\ RestReported(n, d) /\ OwnMade(h)
  BY <1>1, AtWork DEF Building
<1>3. UNCHANGED <<lun, target, nextId, logged, unanswered, abandoned, call, madeLun, madeTgt>>
  BY DEF TargetGet, dsmVars, ledger, undoVars
<1>4. Grows
  BY <1>3 DEF Grows, Excused, Accounted
<1>5. Untouched(n)
  BY <1>3 DEF Untouched
<1>6. Steady(h) /\ SteadyLun(h)
  BY <1>2, <1>3 DEF TargetGet, Goto, Undo, UndoLun, Steady, SteadyLun, lookVars, TypeOK
<1>7. RestReported(n, d)'
  BY <1>2, <1>3, <1>4, NameKept
<1>8. /\ lun'[d][n].uuid \in Accounted' \cup {0, madeLun[h]}
      /\ target'[d][n].id \in Excused' \cup {0, madeTgt[h]}
  BY <1>2, <1>3, <1>4 DEF OwnMade, Grows
<1>9. CASE pc'[h] = "lunMap" /\ vol'[h].dsm = d
  <2>1. OwnMade(h)'
    BY <1>2, <1>3, <1>8, <1>9 DEF OwnMade
  <2>2. PlaceInv(h)'
    BY <1>2, <1>3, <1>7, <1>9, <2>1 DEF PlaceInv, Building
  <2> QED
    BY <1>1, <1>2, <1>3, <1>4, <1>5, <1>6, <1>7, <1>9, <2>2, BuildStep
<1>10. CASE Undo(h) /\ vol' = vol
  <2>1. PlaceInv(h)' /\ pc'[h] \in UndoLabels
    BY <1>2, <1>3, <1>7, <1>8, <1>10, UndoPlace
  <2> QED
    BY <1>1, <1>2, <1>3, <1>4, <1>5, <1>6, <1>7, <2>1, BuildStep DEF UndoLabels
<1> QED
  BY <1>2, <1>9, <1>10 DEF TargetGet, Goto, WithTarget, TypeOK

\* A creation that reports a volume leaves its target mapped, and nothing on
\* the other DSMs that is not accounted for.
LEMMA LunMapTargetLeaves ==
    ASSUME LInv, IInv, NEW h \in Handlers, LunMapTarget(h)
    PROVE  LInv'
<1>1. pc[h] = "lunMap" /\ pc[h] \in CreateLabels /\ pc[h] # "idle"
  BY DEF LunMapTarget, CreateLabels
<1>2. PICK n \in Names, d \in Dsms : /\ n = call[h].name /\ d = vol[h].dsm /\ TypeOK /\ DsmInv
                                     /\ RestReported(n, d) /\ OwnMade(h)
  BY <1>1, AtWork DEF Building
<1>3. UNCHANGED <<logged, unanswered, abandoned, call, vol, madeLun, madeTgt>> /\ Grows
  BY DEF LunMapTarget, ledger, undoVars, Grows, Excused, Accounted
<1>4. Steady(h) /\ SteadyLun(h)
  BY <1>2, <1>3 DEF LunMapTarget, RespondVolume, Respond, Goto, Undo, UndoLun, Steady,
                    SteadyLun, lookVars, TypeOK
<1>5. PICK t \in Nat, u \in Nat : /\ t = vol[h].tgt /\ u = vol[h].uuid
                                  /\ u # 0 /\ lun[d][n].uuid = u /\ t # 0 /\ target[d][n].id = t
  BY <1>1, <1>2, FieldTypes, Mine DEF WorkInv
<1>6. MapLun(d, t, u) \/ UNCHANGED <<lun, target, nextId>>
  BY <1>2, <1>5 DEF LunMapTarget, dsmVars
<1>7. Untouched(n)
  BY <1>2, <1>5, <1>6, MapLunKeeps DEF Untouched
<1>8. /\ lun' = lun
      /\ \A e \in Dsms : target'[e][n].id = target[e][n].id
      /\ \A e \in Dsms : e # d => target'[e][n] = target[e][n]
  BY <1>2, <1>6, MapLunRow
<1>9. RestReported(n, d)'
  BY <1>2, <1>3, <1>8, RestKept
<1>10. CASE Undo(h)
  <2>1. /\ lun'[d][n].uuid \in Accounted' \cup {0, madeLun[h]}
        /\ target'[d][n].id \in Excused' \cup {0, madeTgt[h]}
    BY <1>2, <1>3, <1>8 DEF OwnMade, Grows
  <2>2. PlaceInv(h)' /\ pc'[h] \in UndoLabels
    BY <1>2, <1>3, <1>9, <1>10, <2>1, UndoPlace
  <2> QED
    BY <1>1, <1>2, <1>3, <1>4, <1>7, <1>9, <2>2, BuildStep DEF UndoLabels
<1>11. CASE pc'[h] = "reply" /\ MapLun(d, t, u)
  <2>1. u \in target'[d][n].luns
    BY <1>2, <1>5, <1>11, MapLunKeeps
  <2>2. AllSettled(n)'
    BY <1>9, <2>1 DEF AllSettled, Settled, RestReported
  <2>3. PlaceInv(h)'
    BY <1>2, <1>3, <1>11, <2>2 DEF PlaceInv, Building
  <2> QED
    BY <1>1, <1>2, <1>3, <1>4, <1>7, <1>9, <1>11, <2>3, BuildStep
<1>12. pc \in [Handlers -> Labels]
  BY <1>2 DEF TypeOK
<1>13. Undo(h) \/ (pc'[h] = "reply" /\ MapLun(d, t, u))
  BY <1>2, <1>5, <1>12 DEF LunMapTarget, RespondVolume, Respond, Goto
<1> QED
  BY <1>10, <1>11, <1>13

\* A target the rollback does not remove, it reports.
LEMMA UndoTargetLeaves ==
    ASSUME LInv, IInv, NEW h \in Handlers, UndoTarget(h)
    PROVE  LInv'
<1>1. pc[h] = "undoTarget" /\ pc[h] \in CreateLabels /\ pc[h] # "idle"
  BY DEF UndoTarget, CreateLabels
<1>2. PICK n \in Names, d \in Dsms : /\ n = call[h].name /\ d = vol[h].dsm /\ TypeOK /\ DsmInv
                                     /\ RestReported(n, d) /\ OwnMade(h)
  BY <1>1, AtWork DEF Building
<1>3. UNCHANGED <<unanswered, call, vol, madeLun, madeTgt>> /\ Grows
  BY DEF UndoTarget, ledger, undoVars, Grows, Excused, Accounted
<1>4. Steady(h) /\ SteadyLun(h)
  BY <1>2, <1>3 DEF UndoTarget, Goto, UndoLun, Steady, SteadyLun, lookVars, TypeOK
<1>5. PICK t \in Nat : t = madeTgt[h] /\ OwnsTgt(n, t)
  BY <1>1, <1>2, FieldTypes, Mine DEF OwnInv
<1>6. \/ t # 0 /\ RemoveTarget(d, t)
      \/ UNCHANGED <<lun, target, nextId>> /\ t \in logged'
  BY <1>2, <1>5 DEF UndoTarget, HasTarget, dsmVars
<1>7. Untouched(n)
  BY <1>2, <1>5, <1>6, RemoveTargetKeeps DEF Untouched
<1>8. /\ lun' = lun
      /\ \A e \in Dsms : e # d => target'[e][n] = target[e][n]
      /\ target'[d][n].id \in {0, target[d][n].id} /\ (target'[d][n].id = t => t \in logged' \cup {0})
  BY <1>2, <1>6, RemoveTargetRow DEF NoTarget
<1>9. RestReported(n, d)'
  BY <1>2, <1>3, <1>8, RestKept
<1>10. lun'[d][n].uuid \in Accounted' \cup {0, madeLun[h]}
  BY <1>2, <1>3, <1>8 DEF OwnMade, Grows
<1>11. target'[d][n].id \in Excused' \cup {0}
  <2>1. target[d][n].id \in Excused' \cup {0, t}
    BY <1>2, <1>3, <1>5 DEF OwnMade, Grows
  <2> QED
    BY <1>8, <2>1 DEF Excused, Accounted
<1>12. PlaceInv(h)' /\ pc'[h] \in UndoLabels
  BY <1>2, <1>3, <1>9, <1>10, <1>11, UndoLunPlace DEF UndoTarget
<1> QED
  BY <1>1, <1>2, <1>3, <1>4, <1>7, <1>9, <1>12, BuildStep DEF UndoLabels

\* A LUN the rollback does not find, it reports.
LEMMA UndoLunGetLeaves ==
    ASSUME LInv, IInv, NEW h \in Handlers, UndoLunGet(h)
    PROVE  LInv'
<1>1. pc[h] = "undoLunGet" /\ pc[h] \in CreateLabels /\ pc[h] # "idle"
  BY DEF UndoLunGet, CreateLabels
<1>2. PICK n \in Names, d \in Dsms : /\ n = call[h].name /\ d = vol[h].dsm /\ TypeOK
                                     /\ RestReported(n, d)
                                     /\ target[d][n].id \in Excused \cup {0}
  BY <1>1, AtWork DEF LInv, PlaceInv
<1>3. UNCHANGED <<lun, target, nextId, unanswered, call>> /\ Grows
  BY DEF UndoLunGet, dsmVars, Grows, Excused, Accounted
<1>4. Steady(h) /\ SteadyLun(h)
  BY <1>2, <1>3 DEF UndoLunGet, Goto, Steady, SteadyLun, lookVars, undoVars, TypeOK
<1>5. Untouched(n)
  BY <1>3 DEF Untouched
<1>6. RestReported(n, d)' /\ target'[d][n].id \in Excused' \cup {0}
  BY <1>2, <1>3, NameKept DEF Grows
<1>7. pc \in [Handlers -> Labels] /\ vol \in [Handlers -> Volume]
  BY <1>2 DEF TypeOK
<1>8. CASE pc'[h] = "undoLunDelete" /\ vol'[h].dsm = d /\ vol'[h].uuid = lun[d][n].uuid
  <2>1. PlaceInv(h)'
    BY <1>2, <1>3, <1>6, <1>8 DEF PlaceInv, Building
  <2> QED
    BY <1>1, <1>2, <1>3, <1>4, <1>5, <1>6, <1>8, <2>1, BuildStep
<1>9. CASE pc'[h] = "pick" /\ lun[d][n].uuid \in logged'
  <2>1. AllReported(n)'
    BY <1>3, <1>6, <1>9 DEF AllReported, RestReported, Reported, Excused, Accounted
  <2>2. PlaceInv(h)'
    BY <1>2, <1>3, <1>9, <2>1 DEF PlaceInv, Building
  <2> QED
    BY <1>1, <1>2, <1>3, <1>4, <1>5, <1>6, <1>9, <2>2, BuildStep
<1> QED
  BY <1>2, <1>7, <1>8, <1>9 DEF UndoLunGet, Goto, WithLun

\* A LUN the rollback does not delete, it reports.
LEMMA UndoLunDeleteLeaves ==
    ASSUME LInv, IInv, NEW h \in Handlers, UndoLunDelete(h)
    PROVE  LInv'
<1>1. pc[h] = "undoLunDelete" /\ pc[h] \in CreateLabels /\ pc[h] # "idle"
  BY DEF UndoLunDelete, CreateLabels
<1>2. PICK n \in Names, d \in Dsms, u \in Nat :
         /\ n = call[h].name /\ d = vol[h].dsm /\ u = vol[h].uuid /\ TypeOK /\ DsmInv
         /\ RestReported(n, d) /\ OwnsLun(n, u)
         /\ target[d][n].id \in Excused \cup {0} /\ lun[d][n].uuid = u
  BY <1>1, AtWork, FieldTypes, Mine DEF LInv, PlaceInv, OwnInv
<1>3. UNCHANGED <<unanswered, call, vol>> /\ Grows
  BY DEF UndoLunDelete, Grows, Excused, Accounted
<1>4. Steady(h) /\ SteadyLun(h)
  BY <1>2, <1>3 DEF UndoLunDelete, Goto, Steady, SteadyLun, lookVars, undoVars, TypeOK
<1>5. \/ u # 0 /\ RemoveLun(d, u)
      \/ UNCHANGED <<lun, target, nextId>> /\ u \in logged'
  BY <1>2 DEF UndoLunDelete, HasLun, dsmVars
<1>6. Untouched(n)
  BY <1>2, <1>5, RemoveLunKeeps DEF Untouched
<1>7. /\ \A e \in Dsms : target'[e][n].id = target[e][n].id
      /\ \A e \in Dsms : e # d => lun'[e][n].uuid = lun[e][n].uuid
      /\ lun'[d][n].uuid \in logged' \cup {0}
  BY <1>2, <1>5, RemoveLunKeeps
<1>8. RestReported(n, d)'
  BY <1>2, <1>3, <1>7, RestKept
<1>9. AllReported(n)'
  <2>1. target'[d][n].id \in Excused' \cup {0}
    BY <1>2, <1>3, <1>7 DEF Grows
  <2> QED
    BY <1>7, <1>8, <2>1 DEF AllReported, RestReported, Reported, Excused, Accounted
<1>10. pc'[h] = "pick"
  BY <1>2 DEF UndoLunDelete, Goto, TypeOK
<1>11. PlaceInv(h)'
  BY <1>2, <1>3, <1>9, <1>10 DEF PlaceInv, Building
<1> QED
  BY <1>1, <1>2, <1>3, <1>4, <1>6, <1>8, <1>10, <1>11, BuildStep

-----------------------------------------------------------------------------
(* Lookups.                                                                *)

\* A name keeps one unreported volume while none of its targets gains a LUN.
LEMMA OneUnreportedKept ==
    ASSUME Grows, NEW n \in Names, OneUnreported(n),
           \A d \in Dsms : /\ target'[d][n].luns # {} => target[d][n].luns # {}
                           /\ lun'[d][n].uuid \in {0, lun[d][n].uuid}
                           /\ target'[d][n].id \in {0, target[d][n].id}
    PROVE  OneUnreported(n)'
  BY ReportedKept DEF OneUnreported

\* A step that leaves handler h in its call, and maps nothing.
LEMMA CallStep ==
    ASSUME LInv, IInv, NEW h \in Handlers, pc[h] # "idle", pc'[h] # "idle",
           call' = call, Grows, NEW n \in Names, n = call[h].name,
           Untouched(n), Steady(h), SteadyLun(h),
           \A d \in Dsms : /\ target'[d][n].luns # {} => target[d][n].luns # {}
                           /\ lun'[d][n].uuid \in {0, lun[d][n].uuid}
                           /\ target'[d][n].id \in {0, target[d][n].id},
           PlaceInv(h)', LookInv(h)'
    PROVE  LInv'
<1>1. TypeOK /\ \A g \in Handlers : g # h /\ pc[g] # "idle" => call[g].name # n
  BY Mine
<1>2. OneUnreported(n)'
  BY OneUnreportedKept DEF LInv, NameInv
<1> QED
  BY <1>1, <1>2, FrameStep

\* A step of handler h that asks a DSM, and changes nothing there.
LEMMA AskStep ==
    ASSUME LInv, IInv, NEW h \in Handlers, pc[h] # "idle", pc'[h] # "idle",
           UNCHANGED <<lun, target, call>>, Grows, Steady(h), SteadyLun(h),
           PlaceInv(h)', LookInv(h)'
    PROVE  LInv'
<1>1. PICK n \in Names : n = call[h].name
  BY Mine
<1>2. Untouched(n)
  BY DEF Untouched
<1> QED
  BY <1>1, <1>2, CallStep

\* A handler that answers, or looks on, with the name settled.
LEMMA SettledPlace ==
    ASSUME NEW h \in Handlers, NEW n \in Names, call'[h].name = n, AllSettled(n)',
           pc'[h] \in {"reply", "lunUpdate"}
    PROVE  PlaceInv(h)' /\ LookInv(h)'
  BY DEF PlaceInv, LookInv, Building

\* A step of findVolume.
LEMMA SearchStep ==
    ASSUME LInv, IInv, NEW h \in Handlers, pc[h] = "lookup",
           UNCHANGED <<lun, target, logged, unanswered, abandoned, pc, call, vol, madeLun>>,
           Steady(h), LookInv(h)'
    PROVE  LInv'
<1>1. Grows
  BY DEF Grows, Excused, Accounted
<1>2. SteadyLun(h)
  BY DEF SteadyLun
<1>3. PICK n \in Names : n = call[h].name /\ AllSettled(n)
  BY Mine DEF LInv, PlaceInv
<1>4. AllSettled(n)'
  BY <1>1, <1>3, NameKept
<1>5. PlaceInv(h)'
  BY <1>3, <1>4 DEF PlaceInv, Building
<1> QED
  BY <1>1, <1>2, <1>5, AskStep

\* A target maps one LUN, the one of its name; so does a mapping of it.
LEMMA MappingsSingle ==
    ASSUME DsmInv, NEW d \in Dsms
    PROVE  \A m \in Mappings(d) : m.luns = {m.uuid}
<1>1. TAKE m \in Mappings(d)
<1>2. PICK n \in Names : m \in {[dsm |-> d, uuid |-> u, tgt |-> target[d][n].id,
                                 luns |-> target[d][n].luns] : u \in target[d][n].luns}
  BY DEF Mappings
<1>3. m.luns = target[d][n].luns /\ m.uuid \in target[d][n].luns
  BY <1>2
<1>4. \A u \in target[d][n].luns : u = lun[d][n].uuid
  BY DEF DsmInv
<1> QED
  BY <1>3, <1>4

\* A DSM that was listed leaves a mapping for the volume it shows.
LEMMA ListTargetsLeaves ==
    ASSUME LInv, IInv, NEW h \in Handlers, ListTargets(h)
    PROVE  LInv'
<1>1. /\ pc[h] = "lookup" /\ pc[h] # "idle" /\ maps[h] = {}
      /\ TypeOK /\ DsmInv /\ LookInv(h)
  BY Mine DEF ListTargets, LInv
<1>2. /\ todo \in [Handlers -> SUBSET Dsms] /\ maps \in [Handlers -> SUBSET Mapping]
      /\ listErr \in [Handlers -> {"nil", "incomplete"}]
  BY <1>1 DEF TypeOK
<1>3. /\ UNCHANGED <<lun, target, logged, unanswered, abandoned, pc, call, vol, madeLun>>
      /\ UNCHANGED <<found, res, madeTgt>>
  BY DEF ListTargets, dsmVars, undoVars, ledger
<1>4. Steady(h)
  BY <1>2, <1>3 DEF ListTargets, Steady
<1>5. PICK n \in Names : n = call[h].name
  BY <1>1, FieldTypes
<1>6. PICK d \in todo[h] :
        /\ todo' = [todo EXCEPT ![h] = todo[h] \ {d}]
        /\ \/ maps' = [maps EXCEPT ![h] = Mappings(d)] /\ listErr' = listErr
           \/ listErr' = [listErr EXCEPT ![h] = "incomplete"] /\ maps' = maps
  BY DEF ListTargets
<1>7. d \in Dsms /\ todo'[h] = todo[h] \ {d}
  BY <1>2, <1>6
<1>8. CASE listErr'[h] = "incomplete" /\ maps' = maps
  <2>1. LookInv(h)'
    BY <1>1, <1>3, <1>8 DEF LookInv
  <2> QED
    BY <1>1, <1>3, <1>4, <2>1, SearchStep
<1>9. CASE maps'[h] = Mappings(d) /\ listErr' = listErr
  <2>1. \A m \in maps'[h] : m.luns = {m.uuid}
    BY <1>1, <1>7, <1>9, MappingsSingle
  <2>2. \A v \in found'[h] : v.luns = {v.uuid}
    BY <1>1, <1>3 DEF LookInv
  <2>3. ASSUME call[h].op = "create", listErr[h] = "nil", found[h] = {},
               NEW e \in Dsms, target[e][n].luns # {}
        PROVE  \/ e \in todo'[h]
               \/ \E m \in maps'[h] : m.dsm = e /\ m.uuid = lun[e][n].uuid
    <3>1. e \in todo[h]
      BY <1>1, <1>5, <2>3 DEF LookInv
    <3>2. CASE e # d
      BY <1>7, <3>1, <3>2
    <3>3. CASE e = d
      <4>1. PICK u \in target[e][n].luns : TRUE
        BY <2>3
      <4>2. u = lun[e][n].uuid
        BY <1>1 DEF DsmInv
      <4> QED
        BY <1>9, <3>3, <4>2, MappingsFacts
    <3> QED
      BY <3>2, <3>3
  <2>4. LookInv(h)'
    BY <1>3, <1>5, <1>9, <2>1, <2>2, <2>3 DEF LookInv
  <2> QED
    BY <1>1, <1>3, <1>4, <2>4, SearchStep
<1> QED
  BY <1>2, <1>6, <1>8, <1>9

\* A mapping is dropped only for the volume it leads to, or with an error.
LEMMA GetMappedLunLeaves ==
    ASSUME LInv, IInv, NEW h \in Handlers, GetMappedLun(h)
    PROVE  LInv'
<1>1. /\ pc[h] = "lookup" /\ pc[h] # "idle" /\ TypeOK /\ DsmInv /\ LookInv(h) /\ MapsInv(h)
  BY Mine DEF GetMappedLun, LInv
<1>2. /\ maps \in [Handlers -> SUBSET Mapping] /\ found \in [Handlers -> SUBSET Volume]
      /\ listErr \in [Handlers -> {"nil", "incomplete"}]
  BY <1>1 DEF TypeOK
<1>3. /\ UNCHANGED <<lun, target, logged, unanswered, abandoned, pc, call, vol, madeLun>>
      /\ UNCHANGED <<todo, res, madeTgt>>
  BY DEF GetMappedLun, dsmVars, undoVars, ledger
<1>4. Steady(h)
  BY <1>2, <1>3 DEF GetMappedLun, Steady
<1>5. PICK n \in Names : n = call[h].name
  BY <1>1, FieldTypes
<1>6. PICK m \in maps[h] :
         /\ maps' = [maps EXCEPT ![h] = maps[h] \ {m}]
         /\ \/ \E k \in Names :
                 /\ lun[m.dsm][k].uuid = m.uuid
                 /\ found' = IF Matches(call[h], k, m.uuid)
                             THEN [found EXCEPT ![h] = found[h] \cup {VolumeOf(m, k)}]
                             ELSE found
                 /\ UNCHANGED listErr
            \/ listErr' = [listErr EXCEPT ![h] = "incomplete"] /\ UNCHANGED found
  BY DEF GetMappedLun
<1>7. maps'[h] = maps[h] \ {m} /\ m.dsm \in Dsms /\ m.uuid # 0 /\ m.luns = {m.uuid}
  BY <1>1, <1>2, <1>6 DEF Mapping, MapsInv, LookInv
<1>8. \A x \in maps'[h] : x.luns = {x.uuid}
  BY <1>1, <1>7 DEF LookInv
<1>9. CASE listErr'[h] = "incomplete" /\ found' = found
  <2>1. LookInv(h)'
    BY <1>1, <1>3, <1>8, <1>9 DEF LookInv
  <2> QED
    BY <1>1, <1>3, <1>4, <2>1, SearchStep
<1>10. ASSUME NEW k \in Names, lun[m.dsm][k].uuid = m.uuid,
              ~Matches(call[h], k, m.uuid), found' = found, listErr' = listErr
       PROVE  LInv'
  <2>1. ASSUME call[h].op = "create", listErr[h] = "nil", found[h] = {},
               NEW e \in Dsms, target[e][n].luns # {}
        PROVE  \/ e \in todo[h]
               \/ \E x \in maps'[h] : x.dsm = e /\ x.uuid = lun[e][n].uuid
    <3>1. k # n
      BY <1>5, <1>10, <2>1 DEF Matches
    <3>2. e \in todo[h] \/ \E x \in maps[h] : x.dsm = e /\ x.uuid = lun[e][n].uuid
      BY <1>1, <1>5, <2>1 DEF LookInv
    <3>3. m.dsm = e => m.uuid # lun[e][n].uuid
      BY <1>1, <1>7, <1>10, <3>1 DEF DsmInv
    <3> QED
      BY <1>7, <3>2, <3>3
  <2>2. LookInv(h)'
    BY <1>1, <1>3, <1>5, <1>8, <1>10, <2>1 DEF LookInv
  <2> QED
    BY <1>1, <1>3, <1>4, <2>2, SearchStep
<1>11. ASSUME NEW k \in Names, found'[h] = found[h] \cup {VolumeOf(m, k)}
       PROVE  LInv'
  <2>1. VolumeOf(m, k).luns = {VolumeOf(m, k).uuid}
    BY <1>7 DEF VolumeOf
  <2>2. LookInv(h)'
    BY <1>1, <1>3, <1>8, <1>11, <2>1 DEF LookInv
  <2> QED
    BY <1>1, <1>3, <1>4, <2>2, SearchStep
<1> QED
  BY <1>2, <1>6, <1>9, <1>10, <1>11

\* What a finished lookup leaves of its handler's facts.
LEMMA LookedUpFacts ==
    ASSUME LInv, IInv, NEW h \in Handlers, NEW op, LookedUp(h, op)
    PROVE  /\ pc[h] = "lookup" /\ pc[h] # "idle" /\ TypeOK /\ DsmInv /\ LookInv(h)
           /\ call[h].name \in Names /\ AllSettled(call[h].name)
           /\ call[h].op = op /\ todo[h] = {} /\ maps[h] = {}
           /\ todo' = todo /\ maps' = maps
<1>1. pc[h] = "lookup" /\ pc[h] # "idle"
  BY DEF LookedUp
<1>2. PlaceInv(h) /\ LookInv(h)
  BY <1>1 DEF LInv
<1>3. TypeOK /\ DsmInv /\ call[h].name \in Names
  BY <1>1, Mine
<1> QED
  BY <1>1, <1>2, <1>3 DEF LookedUp, PlaceInv

\* A creation begins only when every object of its name is accounted for.
LEMMA CreateLookedUpLeaves ==
    ASSUME LInv, IInv, NEW h \in Handlers, CreateLookedUp(h)
    PROVE  LInv'
<1>1. PICK n \in Names :
        /\ n = call[h].name /\ pc[h] # "idle" /\ TypeOK /\ LookInv(h) /\ AllSettled(n)
        /\ pc[h] = "lookup" /\ call[h].op = "create" /\ todo[h] = {} /\ maps[h] = {}
        /\ todo' = todo /\ maps' = maps
  BY LookedUpFacts DEF CreateLookedUp
<1>2. UNCHANGED <<lun, target, logged, unanswered, abandoned, call, vol, madeLun, madeTgt>>
  BY DEF CreateLookedUp, dsmVars, undoVars, ledger
<1>3. Grows
  BY <1>2 DEF Grows, Excused, Accounted
<1>4. Steady(h) /\ SteadyLun(h)
  BY <1>1, <1>2 DEF CreateLookedUp, LookedUp, RespondVolume, Respond, Goto, Steady, SteadyLun,
                    TypeOK
<1>5. AllSettled(n)'
  BY <1>1, <1>2, <1>3, NameKept
<1>6. pc'[h] = "reply" \/ (pc'[h] = "pick" /\ Absent(h))
  BY <1>1 DEF CreateLookedUp, RespondVolume, Respond, Goto, TypeOK
<1>7. Absent(h) => AllReported(n)'
  BY <1>1, <1>2, <1>5 DEF LookInv, Absent, AllSettled, AllReported, Settled
<1>8. PlaceInv(h)' /\ LookInv(h)'
  BY <1>1, <1>2, <1>5, <1>6, <1>7 DEF PlaceInv, LookInv, Building
<1> QED
  BY <1>1, <1>2, <1>3, <1>4, <1>6, <1>8, AskStep

\* A deletion sets out with a volume whose target maps nothing else.
LEMMA DeleteLookedUpLeaves ==
    ASSUME LInv, IInv, NEW h \in Handlers, DeleteLookedUp(h)
    PROVE  LInv'
<1>1. PICK n \in Names :
        /\ n = call[h].name /\ pc[h] # "idle" /\ TypeOK /\ LookInv(h) /\ AllSettled(n)
        /\ pc[h] = "lookup" /\ call[h].op = "delete" /\ FoundInv(h)
        /\ todo' = todo /\ maps' = maps
  BY LookedUpFacts, Mine DEF DeleteLookedUp
<1>2. UNCHANGED <<lun, target, logged, unanswered, abandoned, call, madeLun, madeTgt>>
  BY DEF DeleteLookedUp, dsmVars, undoVars, ledger
<1>3. Grows
  BY <1>2 DEF Grows, Excused, Accounted
<1>4. Steady(h) /\ SteadyLun(h)
  BY <1>1, <1>2 DEF DeleteLookedUp, LookedUp, Respond, Goto, Steady, SteadyLun, TypeOK
<1>5. AllSettled(n)'
  BY <1>1, <1>2, <1>3, NameKept
<1>6. CASE pc'[h] = "reply"
  <2>1. PlaceInv(h)' /\ LookInv(h)'
    BY <1>1, <1>2, <1>5, <1>6, SettledPlace
  <2> QED
    BY <1>1, <1>2, <1>3, <1>4, <1>6, <2>1, AskStep
<1>7. ASSUME NEW v \in found[h], vol'[h] = v, pc'[h] = "lunDelete"
      PROVE  LInv'
  <2>1. v.luns = {v.uuid} /\ lun[v.dsm][n].uuid = v.uuid /\ target[v.dsm][n].id = v.tgt
    BY <1>1 DEF LookInv, FoundInv
  <2>2. PlaceInv(h)' /\ LookInv(h)'
    BY <1>1, <1>2, <1>5, <1>7, <2>1 DEF PlaceInv, LookInv, Building
  <2> QED
    BY <1>1, <1>2, <1>3, <1>4, <1>7, <2>2, AskStep
<1> QED
  BY <1>1, <1>6, <1>7 DEF DeleteLookedUp, Respond, Goto, TypeOK

\* An expansion begins, or is refused, without touching anything.
LEMMA ExpandLookedUpLeaves ==
    ASSUME LInv, IInv, NEW h \in Handlers, ExpandLookedUp(h)
    PROVE  LInv'
<1>1. PICK n \in Names :
        n = call[h].name /\ pc[h] # "idle" /\ TypeOK /\ AllSettled(n) /\ todo' = todo /\ maps' = maps
  BY LookedUpFacts DEF ExpandLookedUp
<1>2. UNCHANGED <<lun, target, logged, unanswered, abandoned, call, madeLun, madeTgt>>
  BY DEF ExpandLookedUp, dsmVars, undoVars, ledger
<1>3. Grows
  BY <1>2 DEF Grows, Excused, Accounted
<1>4. Steady(h) /\ SteadyLun(h)
  BY <1>1, <1>2 DEF ExpandLookedUp, LookedUp, Respond, Goto, Steady, SteadyLun, TypeOK
<1>5. AllSettled(n)'
  BY <1>1, <1>2, <1>3, NameKept
<1>6. pc'[h] \in {"reply", "lunUpdate"}
  BY <1>1 DEF ExpandLookedUp, Respond, Goto, TypeOK
<1>7. PlaceInv(h)' /\ LookInv(h)'
  BY <1>1, <1>2, <1>5, <1>6, SettledPlace
<1> QED
  BY <1>1, <1>2, <1>3, <1>4, <1>6, <1>7, AskStep

-----------------------------------------------------------------------------
(* Deletion and expansion.                                                 *)

\* The LUN goes first; its target is deleted next, or left to LunCheck.
LEMMA LunDeleteLeaves ==
    ASSUME LInv, IInv, NEW h \in Handlers, LunDelete(h)
    PROVE  LInv'
<1>1. pc[h] = "lunDelete" /\ pc[h] # "idle"
  BY DEF LunDelete
<1>2. PICK n \in Names, d \in Dsms, u \in Nat :
        /\ n = call[h].name /\ d = vol[h].dsm /\ u = vol[h].uuid /\ TypeOK /\ DsmInv
        /\ AllSettled(n) /\ vol[h].luns = {u} /\ lun[d][n].uuid = u
        /\ target[d][n].id = vol[h].tgt /\ OwnsLun(n, u)
  BY <1>1, FieldTypes, Mine DEF LInv, PlaceInv, OwnInv
<1>3. UNCHANGED <<call, vol>> /\ Grows
  BY DEF LunDelete, ledger, Grows, Excused, Accounted
<1>4. Steady(h) /\ SteadyLun(h)
  BY <1>2, <1>3 DEF LunDelete, AfterLunDelete, Respond, Goto, Steady, SteadyLun, lookVars,
                    undoVars, TypeOK
<1>5. pc \in [Handlers -> Labels] /\ target \in [Dsms -> [Names -> Target]]
  BY <1>2 DEF TypeOK
<1>6. CASE UNCHANGED <<lun, target, nextId>> /\ pc'[h] = "lunCheck"
  <2>1. AllSettled(n)'
    BY <1>2, <1>3, <1>6, NameKept
  <2>2. call'[h].name = n /\ vol'[h].dsm = d
    BY <1>2, <1>3
  <2>3. PlaceInv(h)' /\ LookInv(h)'
    BY <1>2, <1>6, <2>1, <2>2 DEF PlaceInv, LookInv, Building, AllSettled
  <2>4. lun' = lun /\ target' = target /\ call' = call
    BY <1>3, <1>6, Zenon
  <2>5. pc'[h] # "idle"
    BY <1>6
  <2> QED
    BY <1>1, <1>3, <1>4, <2>3, <2>4, <2>5, AskStep
<1>7. CASE u # 0 /\ RemoveLun(d, u) /\ pc'[h] \in {"targetDelete", "lunCheck"}
  <2>1. Untouched(n)
    BY <1>2, <1>7, RemoveLunKeeps
  <2>2. /\ lun'[d][n].uuid = 0
        /\ \A e \in Dsms : e # d => lun'[e][n].uuid = lun[e][n].uuid
        /\ \A e \in Dsms : target'[e][n].id = target[e][n].id
    BY <1>2, <1>7, RemoveLunKeeps
  <2>3. \A e \in Dsms : e # d => target'[e][n] = target[e][n]
    BY <1>5, <1>7 DEF RemoveLun
  <2>4. target'[d][n].luns # {} => target[d][n].luns # {}
    BY <1>5, <1>7 DEF RemoveLun
  <2>5. \A e \in Dsms : e # d => Settled(e, n)'
    BY <1>2, <1>3, <2>2, <2>3, SettledKept DEF AllSettled
  <2>6. LookInv(h)'
    BY <1>7 DEF LookInv
  <2>7. PlaceInv(h)'
    <3>1. /\ call'[h].name = n /\ vol'[h].dsm = d /\ vol'[h].tgt = vol[h].tgt
          /\ target'[d][n].id = vol[h].tgt
      BY <1>2, <1>3, <2>2
    <3> QED
      BY <1>7, <2>2, <2>5, <3>1 DEF PlaceInv, Building
  <2> QED
    BY <1>1, <1>2, <1>3, <1>4, <1>7, <2>1, <2>2, <2>3, <2>4, <2>6, <2>7, CallStep
<1>8. \/ UNCHANGED <<lun, target, nextId>> /\ pc'[h] = "lunCheck"
      \/ u # 0 /\ RemoveLun(d, u) /\ pc'[h] \in {"targetDelete", "lunCheck"}
  BY <1>2, <1>5 DEF LunDelete, AfterLunDelete, Goto, HasLun, dsmVars
<1> QED
  BY <1>6, <1>7, <1>8

\* A failed LunDelete leaves the volume whole, or its target accounted for.
LEMMA LunCheckLeaves ==
    ASSUME LInv, IInv, NEW h \in Handlers, LunCheck(h)
    PROVE  LInv'
<1>1. pc[h] = "lunCheck" /\ pc[h] # "idle"
  BY DEF LunCheck
<1>2. PICK n \in Names, d \in Dsms :
        /\ n = call[h].name /\ d = vol[h].dsm /\ TypeOK /\ OwnsLun(n, vol[h].uuid)
        /\ \A e \in Dsms : e # d => Settled(e, n)
        /\ Settled(d, n) \/ (lun[d][n].uuid = 0 /\ target[d][n].id \in {0, vol[h].tgt})
  BY <1>1, FieldTypes, Mine DEF LInv, PlaceInv, OwnInv
<1>3. UNCHANGED <<lun, target, call, vol>> /\ Grows
  BY DEF LunCheck, dsmVars, Grows, Excused, Accounted
<1>4. Steady(h) /\ SteadyLun(h) /\ pc'[h] = "reply"
  BY <1>2, <1>3 DEF LunCheck, Respond, Goto, Steady, SteadyLun, lookVars, undoVars, TypeOK
<1>5. Settled(d, n)'
  <2>1. CASE Settled(d, n)
    BY <1>2, <1>3, <2>1, SettledKept
  <2>2. CASE lun[d][n].uuid = 0 /\ target[d][n].id \in {0, vol[h].tgt}
    <3>1. ~HasLun(d, vol[h].uuid)
      BY <1>2, <2>2 DEF HasLun, OwnsLun
    <3>2. vol[h].tgt \in abandoned'
      BY <1>2, <3>1 DEF LunCheck
    <3> QED
      BY <1>3, <2>2, <3>2 DEF Settled, Reported, Excused
  <2> QED
    BY <1>2, <2>1, <2>2
<1>6. AllSettled(n)'
  BY <1>2, <1>3, <1>5, SettledKept DEF AllSettled
<1>7. PlaceInv(h)' /\ LookInv(h)'
  BY <1>2, <1>3, <1>4, <1>6, SettledPlace
<1> QED
  BY <1>1, <1>3, <1>4, <1>7, AskStep

\* Once the target is gone too, the DSM holds nothing of the name.
LEMMA TargetDeleteLeaves ==
    ASSUME LInv, IInv, NEW h \in Handlers, TargetDelete(h)
    PROVE  LInv'
<1>1. pc[h] = "targetDelete" /\ pc[h] # "idle"
  BY DEF TargetDelete
<1>2. PICK n \in Names, d \in Dsms, t \in Nat :
        /\ n = call[h].name /\ d = vol[h].dsm /\ t = vol[h].tgt /\ TypeOK /\ DsmInv
        /\ OwnsTgt(n, t) /\ lun[d][n].uuid = 0 /\ target[d][n].id \in {0, t}
        /\ \A e \in Dsms : e # d => Settled(e, n)
  BY <1>1, FieldTypes, Mine DEF LInv, PlaceInv, OwnInv
<1>3. UNCHANGED <<call, vol, logged, unanswered, abandoned>>
  BY DEF TargetDelete, ledger
<1>4. Grows
  BY <1>3 DEF Grows, Excused, Accounted
<1>5. Steady(h) /\ SteadyLun(h)
  BY <1>2, <1>3 DEF TargetDelete, Respond, Goto, Steady, SteadyLun, lookVars, undoVars, TypeOK
<1>6. CASE UNCHANGED <<lun, target, nextId>> /\ pc'[h] = "targetCheck"
  <2>1. \A e \in Dsms : e # d => Settled(e, n)'
    BY <1>2, <1>4, <1>6, SettledKept
  <2>2. PlaceInv(h)' /\ LookInv(h)'
    BY <1>2, <1>3, <1>6, <2>1 DEF PlaceInv, LookInv, Building
  <2> QED
    BY <1>1, <1>3, <1>4, <1>5, <1>6, <2>2, AskStep
<1>7. CASE /\ t # 0 /\ RemoveTarget(d, t) /\ pc'[h] \in {"reply", "targetCheck"}
  <2>1. Untouched(n)
    BY <1>2, <1>7, RemoveTargetKeeps
  <2>2. /\ lun' = lun
        /\ \A e \in Dsms : target'[e][n] =
             IF e = d /\ target[d][n].id = t THEN NoTarget ELSE target[e][n]
    BY <1>2, <1>7, RemoveTargetRow
  <2>3. target'[d][n].id = 0 /\ lun'[d][n].uuid = 0
    BY <1>2, <2>2 DEF NoTarget
  <2>4. \A e \in Dsms : e # d => Settled(e, n)'
    BY <1>2, <1>4, <2>2, SettledKept
  <2>5. AllSettled(n)'
    BY <2>3, <2>4 DEF AllSettled, Settled, Reported
  <2>6. PlaceInv(h)' /\ LookInv(h)'
    BY <1>2, <1>3, <1>7, <2>3, <2>4, <2>5 DEF PlaceInv, LookInv, Building
  <2>7. \A e \in Dsms : /\ target'[e][n].luns # {} => target[e][n].luns # {}
                        /\ target'[e][n].id \in {0, target[e][n].id}
    BY <2>2 DEF NoTarget
  <2> QED
    BY <1>1, <1>2, <1>3, <1>4, <1>5, <1>7, <2>1, <2>2, <2>6, <2>7, CallStep
<1>8. pc \in [Handlers -> Labels]
  BY <1>2 DEF TypeOK
<1>9. \/ UNCHANGED <<lun, target, nextId>> /\ pc'[h] = "targetCheck"
      \/ t # 0 /\ RemoveTarget(d, t) /\ pc'[h] \in {"reply", "targetCheck"}
  BY <1>2, <1>8 DEF TargetDelete, Respond, Goto, HasTarget, dsmVars
<1> QED
  BY <1>6, <1>7, <1>9

\* A target that may have stayed is reported, or given up.
LEMMA TargetCheckLeaves ==
    ASSUME LInv, IInv, NEW h \in Handlers, TargetCheck(h)
    PROVE  LInv'
<1>1. pc[h] = "targetCheck" /\ pc[h] # "idle"
  BY DEF TargetCheck
<1>2. PICK n \in Names, d \in Dsms :
        /\ n = call[h].name /\ d = vol[h].dsm /\ TypeOK
        /\ lun[d][n].uuid = 0 /\ target[d][n].id \in {0, vol[h].tgt}
        /\ \A e \in Dsms : e # d => Settled(e, n)
  BY <1>1, FieldTypes, Mine DEF LInv, PlaceInv
<1>3. UNCHANGED <<lun, target, call, vol>> /\ Grows
  BY DEF TargetCheck, dsmVars, Grows, Excused, Accounted
<1>4. Steady(h) /\ SteadyLun(h) /\ pc'[h] = "reply"
  BY <1>2, <1>3 DEF TargetCheck, Respond, Goto, Steady, SteadyLun, lookVars, undoVars, TypeOK
<1>5. vol[h].tgt \in Excused'
  BY DEF TargetCheck, Excused, Accounted
<1>6. Settled(d, n)'
  BY <1>2, <1>3, <1>5 DEF Settled, Reported
<1>7. AllSettled(n)'
  BY <1>2, <1>3, <1>6, SettledKept DEF AllSettled
<1>8. PlaceInv(h)' /\ LookInv(h)'
  BY <1>2, <1>3, <1>4, <1>7, SettledPlace
<1> QED
  BY <1>1, <1>3, <1>4, <1>8, AskStep

\* An expansion makes, maps and removes nothing.
LEMMA LunUpdateLeaves ==
    ASSUME LInv, IInv, NEW h \in Handlers, LunUpdate(h)
    PROVE  LInv'
<1>1. pc[h] = "lunUpdate" /\ pc[h] # "idle"
  BY DEF LunUpdate
<1>2. PICK n \in Names, d \in Dsms, u \in Nat, s \in Nat :
        /\ n = call[h].name /\ d = vol[h].dsm /\ u = vol[h].uuid /\ s = call[h].size
        /\ TypeOK /\ DsmInv /\ AllSettled(n) /\ OwnsLun(n, u)
  BY <1>1, FieldTypes, Mine DEF LInv, PlaceInv, OwnInv
<1>3. UNCHANGED <<call, vol, logged, unanswered, abandoned>>
  BY DEF LunUpdate, ledger
<1>4. Grows
  BY <1>3 DEF Grows, Excused, Accounted
<1>5. Steady(h) /\ SteadyLun(h) /\ pc'[h] = "reply"
  BY <1>2, <1>3 DEF LunUpdate, Respond, Goto, Steady, SteadyLun, lookVars, undoVars, TypeOK
<1>6. (u # 0 /\ SetLunSize(d, u, s)) \/ UNCHANGED <<lun, target, nextId>>
  BY <1>2 DEF LunUpdate, SetLunSize, HasLun, dsmVars
<1>7. /\ Untouched(n) /\ target' = target
      /\ \A e \in Dsms : lun'[e][n].uuid = lun[e][n].uuid
  BY <1>2, <1>6, SetLunSizeKeeps DEF Untouched
<1>8. AllSettled(n)'
  BY <1>2, <1>4, <1>7, SettledKept DEF AllSettled
<1>9. PlaceInv(h)' /\ LookInv(h)'
  BY <1>2, <1>3, <1>5, <1>8, SettledPlace
<1> QED
  BY <1>1, <1>2, <1>3, <1>4, <1>5, <1>7, <1>9, CallStep

-----------------------------------------------------------------------------
(* The CO and the driver process.                                          *)

\* A call that ends leaves nothing unmapped that is not accounted for.
LEMMA DeliverLeaves ==
    ASSUME LInv, IInv, NEW h \in Handlers, Deliver(h)
    PROVE  LInv'
<1>1. pc[h] = "reply" /\ pc[h] # "idle"
  BY DEF Deliver
<1>2. PICK n \in Names : /\ n = call[h].name /\ TypeOK /\ AllSettled(n) /\ NameInv(n)
                         /\ \A g \in Handlers : g # h /\ pc[g] # "idle" => call[g].name # n
  BY <1>1, Mine DEF LInv, PlaceInv
<1>3. UNCHANGED <<lun, target, logged, unanswered, abandoned>>
  BY DEF Deliver, dsmVars, ledger
<1>4. Grows
  BY <1>3 DEF Grows, Excused, Accounted
<1>5. Untouched(n)
  BY <1>3 DEF Untouched
<1>6. Steady(h) /\ SteadyLun(h) /\ pc'[h] = "idle"
  BY <1>2 DEF Deliver, Goto, Steady, SteadyLun, lookVars, TypeOK
<1>7. AllSettled(n)' /\ OneUnreported(n)'
  BY <1>2, <1>3, <1>4, NameKept DEF NameInv
<1> QED
  BY <1>2, <1>4, <1>5, <1>6, <1>7, FrameStep

\* A call begins when no other call of its name runs, with every DSM to visit.
LEMMA StartLeaves ==
    ASSUME SerialCalls, LInv, IInv, NEW h \in Handlers, NEW n \in Names,
           CreateVolume(h, n) \/ ControllerExpandVolume(h, n) \/ DeleteVolume(h, n)
    PROVE  LInv'
<1>1. PICK op, s, id : Start(h, op, n, s, id)
  BY DEF CreateVolume, ControllerExpandVolume, DeleteVolume
<1>2. TypeOK /\ dsms = Dsms /\ pc[h] = "idle" /\ maps[h] = {} /\ found[h] = {} /\ NameInv(n)
  BY <1>1 DEF Start, IInv, HandlerInv, LInv
<1>3. Active(n) = {} /\ AllSettled(n)
  BY <1>1, <1>2 DEF Start, NameInv
<1>4. UNCHANGED <<lun, target, logged, unanswered, abandoned, maps, found, vol, madeLun, madeTgt, res>>
  BY <1>1 DEF Start, dsmVars, ledger, undoVars
<1>5. Grows
  BY <1>4 DEF Grows, Excused, Accounted
<1>6. Untouched(n)
  BY <1>4 DEF Untouched
<1>7. call'[h].name = n /\ pc'[h] = "lookup" /\ todo'[h] = Dsms
  BY <1>1, <1>2 DEF Start, Goto, TypeOK
<1>8. Steady(h) /\ SteadyLun(h)
  BY <1>1, <1>2, <1>4 DEF Start, Goto, Steady, SteadyLun, TypeOK
<1>9. AllSettled(n)' /\ OneUnreported(n)'
  BY <1>2, <1>3, <1>4, <1>5, NameKept DEF NameInv
<1>10. PlaceInv(h)'
  BY <1>7, <1>9 DEF PlaceInv, Building
<1>11. LookInv(h)'
  BY <1>2, <1>4, <1>7 DEF LookInv
<1>12. \A g \in Handlers : g # h /\ pc[g] # "idle" => call[g].name # n
  BY <1>3 DEF Active
<1> QED
  BY <1>2, <1>5, <1>6, <1>7, <1>8, <1>9, <1>10, <1>11, <1>12, FrameStep

\* A restart forgets the calls that run: their requests stay unanswered.
LEMMA CrashLeaves ==
    ASSUME LInv, IInv, Crash
    PROVE  LInv'
<1>1. UNCHANGED <<lun, target, logged>>
  BY DEF Crash, dsmVars
<1>2. Grows
  BY <1>1 DEF Crash, Grows, Excused, Accounted
<1>3. \A h \in Handlers : pc'[h] = "idle"
  BY DEF Crash
<1>4. ASSUME NEW n \in Names PROVE NameInv(n)'
  <2>1. OneUnreported(n)'
    BY <1>1, <1>2, <1>4, NameKept DEF LInv, NameInv
  <2>2. AllSettled(n)'
    <3>1. CASE Active(n) = {}
      BY <1>1, <1>2, <1>4, <3>1, NameKept DEF LInv, NameInv
    <3>2. CASE Active(n) # {}
      <4>1. n \in InFlight
        BY <1>4, <3>2 DEF InFlight
      <4>2. \A d \in Dsms : lun[d][n].uuid \in unanswered' /\ target[d][n].id \in unanswered'
        BY <4>1 DEF Crash
      <4> QED
        BY <1>1, <4>2 DEF AllSettled, Settled, Reported, Excused, Accounted
    <3> QED
      BY <3>1, <3>2
  <2> QED
    BY <2>1, <2>2 DEF NameInv
<1> QED
  BY <1>3, <1>4 DEF LInv

-----------------------------------------------------------------------------
(* The invariant, and what it says.                                        *)

\* The DSMs hold nothing at the start.
LEMMA LInvInit == Init => LInv
<1> SUFFICES ASSUME Init PROVE LInv
  OBVIOUS
<1>1. \A d \in Dsms, n \in Names : Reported(d, n) /\ target[d][n].luns = {}
  BY DEF Init, Reported, NoLun, NoTarget
<1>2. \A h \in Handlers : pc[h] = "idle"
  BY DEF Init
<1> QED
  BY <1>1, <1>2 DEF LInv, NameInv, OneUnreported, AllSettled, Settled

\* Every step keeps the invariant.
LEMMA LInvNext ==
    ASSUME SerialCalls, LInv, IInv, [Next]_vars
    PROVE  LInv'
<1>1. CASE UNCHANGED vars
  <2>1. /\ UNCHANGED <<lun, target, pc, call, vol, madeLun, madeTgt, logged, unanswered, abandoned>>
        /\ UNCHANGED <<todo, maps, found, listErr>>
    BY <1>1 DEF vars
  <2>2. Grows
    BY <2>1 DEF Grows, Excused, Accounted
  <2>3. ASSUME NEW n \in Names PROVE NameInv(n)'
    BY <2>1, <2>2, <2>3, NameKept DEF LInv, NameInv, Active
  <2>4. ASSUME NEW h \in Handlers, pc'[h] # "idle" PROVE PlaceInv(h)' /\ LookInv(h)'
    <3>1. PlaceInv(h) /\ LookInv(h)
      BY <2>1, <2>4 DEF LInv
    <3>2. PlaceInv(h)' = PlaceInv(h)
      BY <2>1, Zenon DEF PlaceInv, AllSettled, AllReported, RestReported, OwnMade, Settled,
                         Reported, Excused, Accounted
    <3>3. LookInv(h)'
      BY <2>1, <3>1 DEF LookInv
    <3> QED
      BY <3>1, <3>2, <3>3
  <2> QED
    BY <2>3, <2>4 DEF LInv
<1>2. ASSUME NEW h \in Handlers, HandlerStep(h) PROVE LInv'
  BY <1>2, ListTargetsLeaves, GetMappedLunLeaves, CreateLookedUpLeaves,
     DeleteLookedUpLeaves, ExpandLookedUpLeaves, PickDsmLeaves, LunCreateLeaves, LunGetLeaves,
     TargetCreateLeaves, TargetGetLeaves, LunMapTargetLeaves, UndoTargetLeaves,
     UndoLunGetLeaves, UndoLunDeleteLeaves, LunDeleteLeaves, LunCheckLeaves,
     TargetDeleteLeaves, TargetCheckLeaves, LunUpdateLeaves, DeliverLeaves
  DEF HandlerStep
<1> QED
  BY <1>1, <1>2, StartLeaves, CrashLeaves DEF Next

\* The inductive invariant holds throughout.
LEMMA LInvCorrect == Supported /\ Spec => [](IInv /\ LInv)
<1> SUFFICES ASSUME Supported PROVE Spec => [](IInv /\ LInv)
  OBVIOUS
<1>1. Init => IInv /\ LInv
  BY IInvInit, LInvInit DEF Supported
<1>2. (IInv /\ LInv) /\ [Next]_vars => (IInv /\ LInv)'
  BY IInvNext, LInvNext DEF Supported
<1> QED
  BY <1>1, <1>2, PTL DEF Spec

\* Once no call for a name runs, every LUN without a target of that name is
\* named in a log line, or a request about it was never answered; so is every
\* target without a LUN, except one that DeleteVolume gave up at dsm.go:758-764
\* or 772-775.  Failed attempts, rollbacks, deletions and restarts forget nothing
\* else, for any number of DSMs, volumes and handlers.
THEOREM NothingForgotten == Supported /\ Spec => []LeftoversAccounted
<1>1. IInv /\ LInv => LeftoversAccounted
  <2> SUFFICES ASSUME IInv, LInv, NEW d \in Dsms, NEW n \in Names, Active(n) = {}
               PROVE  /\ lun[d][n] # NoLun /\ ~Visible(d, n) => lun[d][n].uuid \in Accounted
                      /\ target[d][n] # NoTarget /\ target[d][n].luns = {} =>
                             target[d][n].id \in Excused
    BY DEF LeftoversAccounted, Excused
  <2>1. Settled(d, n) /\ DsmInv
    BY DEF LInv, NameInv, AllSettled, IInv
  <2>2. /\ lun[d][n] # NoLun => lun[d][n].uuid # 0
        /\ target[d][n] # NoTarget => target[d][n].id # 0
    BY <2>1, HeldIds
  <2>3. target[d][n].luns # {} => lun[d][n].uuid \in target[d][n].luns
    BY <2>1 DEF DsmInv
  <2> QED
    BY <2>1, <2>2, <2>3 DEF Settled, Reported, Visible
<1> QED
  BY <1>1, LInvCorrect, PTL

\* Two DSMs show a volume of one name only if the log, or a request that was
\* never answered, accounts for one of them: no failed attempt of CreateVolume
\* makes a second volume that nobody knows of.
THEOREM SecondVolumeKnown == Supported /\ Spec => []SecondVolumeAccounted
<1>1. IInv /\ LInv => SecondVolumeAccounted
  <2> SUFFICES ASSUME IInv, LInv, NEW n \in Names, NEW d \in Dsms, NEW e \in Dsms,
                      d # e, Visible(d, n), Visible(e, n)
               PROVE  {lun[d][n].uuid, target[d][n].id, lun[e][n].uuid, target[e][n].id}
                          \cap Accounted # {}
    BY DEF SecondVolumeAccounted
  <2>1. Reported(d, n) \/ Reported(e, n)
    BY DEF LInv, NameInv, OneUnreported, Visible
  <2>2. lun[d][n].uuid # 0 /\ lun[e][n].uuid # 0
    BY HeldIds DEF Visible, IInv
  <2> QED
    BY <2>1, <2>2 DEF Reported
<1> QED
  BY <1>1, LInvCorrect, PTL
=============================================================================
