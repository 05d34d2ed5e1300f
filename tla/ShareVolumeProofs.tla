------------------------- MODULE ShareVolumeProofs -------------------------
(* ShareVolume keeps VolumeContract and accounts for the shares that stand *)
(* in the way of their name, with one call in flight for the volume, for   *)
(* every set of sizes and sources, any number of handlers and every bound. *)
EXTENDS ShareVolume, TLAPS

Accounted == logged \cup unanswered

\* One call at a time.
SerialInv == \A g, h \in Handlers : pc[g] # "idle" /\ pc[h] # "idle" => g = h

\* The share of the name, before the CO has the volume.
ShareInv ==
    /\ share.id = 0 => share = NoShare
    /\ co = "creating" /\ share # NoShare =>
         /\ share.quota \in {request.size} \cup FirstQuotas
         /\ request.kind = "volume" => request.size >= request.source

\* The CO's view of the volume.
CoInv ==
    /\ co # "creating" => pv # 0
    /\ co = "bound" => share.id = pv
    /\ co = "deleting" => share = NoShare \/ share.id = pv
    /\ co = "deleted" => share = NoShare

\* What a call that creates, expands or deletes knows of the share.
Creates(h) ==
    /\ co = "creating" /\ call[h].op = "create"
    /\ pc[h] \in {"create", "get", "quota", "undo", "reply"}
    /\ pc[h] \in {"create", "get", "quota"} => call[h].size = request.size
    /\ pc[h] = "create" => call[h].made = 0
    /\ request.kind = "volume" => request.size >= request.source \/ share # NoShare
    /\ pc[h] \in {"quota", "reply"} => share # NoShare /\ call[h].id = share.id
    /\ pc[h] = "reply" => share.quota = request.size
    /\ share # NoShare /\ share.quota # request.size =>
         share.id \in Accounted \cup {call[h].made}

Expands(h) ==
    /\ co = "bound" /\ call[h].op = "expand"
    /\ pc[h] \in {"quota", "reply"}
    /\ pc[h] = "quota" => share.quota <= call[h].size

Deletes(h) ==
    /\ co = "deleting" /\ call[h].op = "delete"
    /\ pc[h] \in {"delete", "reply"}
    /\ pc[h] = "reply" => share = NoShare

HandlerInv(h) ==
    IF pc[h] = "idle" THEN call[h] = NoCall
                      ELSE Creates(h) \/ Expands(h) \/ Deletes(h)

IInv ==
    /\ TypeOK /\ SerialInv /\ ShareInv /\ CoInv
    /\ \A h \in Handlers : HandlerInv(h)
    /\ ObstaclesAccounted

-----------------------------------------------------------------------------
(* What the steps are made of.                                             *)

\* The types of the parts.
LEMMA FieldTypes ==
    ASSUME TypeOK
    PROVE  /\ request.size \in Sizes /\ request.size \in Nat /\ request.size # 0
           /\ request.source \in Sources /\ request.source \in Nat
           /\ request.kind \in Kinds
           /\ share.id \in Ids /\ share.quota \in Amounts /\ share.quota \in Nat
           /\ \A h \in Handlers :
                /\ call[h] \in Call /\ call[h].op \in {"create", "delete", "expand"}
                /\ call[h].size \in Amounts /\ call[h].size \in Nat
                /\ call[h].id \in Ids /\ call[h].made \in Ids
<1>1. /\ request.size \in Sizes /\ request.source \in Sources /\ request.kind \in Kinds
      /\ share.id \in Ids /\ share.quota \in Amounts
  BY DEF TypeOK, Share
<1>2. \A h \in Handlers : call[h] \in Call
  BY DEF TypeOK
<1>3. \A h \in Handlers :
        /\ call[h].op \in {"create", "delete", "expand"} /\ call[h].size \in Amounts
        /\ call[h].id \in Ids /\ call[h].made \in Ids
  BY <1>2 DEF Call
<1>4. Amounts \subseteq Nat /\ Sources \subseteq Nat /\ Sizes \subseteq Nat \ {0}
  BY ConstantsAssumption DEF Amounts
<1> QED
  BY <1>1, <1>2, <1>3, <1>4

\* The records a step builds.
LEMMA RecordTypes ==
    /\ 0 \in Ids /\ 0 \in Amounts /\ Sizes \subseteq Amounts /\ Sources \subseteq Amounts
    /\ NoShare \in Share /\ NoShare.id = 0 /\ NoShare.quota = 0
    /\ NoCall \in Call /\ NoCall.op = "create" /\ NoCall.made = 0
    /\ \A op \in {"create", "delete", "expand"}, n \in Amounts :
         /\ NewCall(op, n) \in Call
         /\ NewCall(op, n).op = op /\ NewCall(op, n).size = n
         /\ NewCall(op, n).id = 0 /\ NewCall(op, n).made = 0
<1>1. 0 \in Ids
  BY ConstantsAssumption DEF Ids
<1> QED
  BY <1>1 DEF Share, Call, NoShare, NoCall, NewCall, Amounts

\* A new uuid is one nothing and nobody knows.
LEMMA NewIdFree ==
    ASSUME CanMake
    PROVE  NewId \in Ids /\ NewId # 0
<1>1. NewId \in FreeIds
  BY DEF CanMake, NewId
<1>2. FreeIds \subseteq 1..MaxObjects
  BY DEF FreeIds
<1> QED
  BY <1>1, <1>2, ConstantsAssumption DEF Ids

\* Handler h moves to l and has gathered this; the others wait.
Moves(h, l, op, n, i, m) ==
    /\ pc' \in [Handlers -> Labels] /\ call' \in [Handlers -> Call]
    /\ pc'[h] = l
    /\ call'[h].op = op /\ call'[h].size = n /\ call'[h].id = i /\ call'[h].made = m
    /\ \A g \in Handlers \ {h} : pc'[g] = pc[g] /\ call'[g] = call[g]

Stays(h, l) == Moves(h, l, call[h].op, call[h].size, call[h].id, call[h].made)

Fails(h) ==
    /\ pc' \in [Handlers -> Labels] /\ call' \in [Handlers -> Call]
    /\ pc'[h] = "idle" /\ call'[h] = NoCall
    /\ \A g \in Handlers \ {h} : pc'[g] = pc[g] /\ call'[g] = call[g]

Undoes(h) ==
    \/ call[h].op = "create" /\ call[h].made # 0 /\ Stays(h, "undo")
    \/ (call[h].op # "create" \/ call[h].made = 0) /\ Fails(h)

\* Only the handler's own entry changes.
LEMMA GotIs ==
    ASSUME TypeOK, NEW h \in Handlers, NEW l \in Labels, NEW c \in Call, Got(h, l, c)
    PROVE  /\ pc' \in [Handlers -> Labels] /\ call' \in [Handlers -> Call]
           /\ pc'[h] = l /\ call'[h] = c
           /\ \A g \in Handlers \ {h} : pc'[g] = pc[g] /\ call'[g] = call[g]
  BY DEF TypeOK, Got

\* What the call has gathered is what the step puts there.
LEMMA MovesIs ==
    ASSUME TypeOK, NEW h \in Handlers, NEW l \in Labels, NEW c \in Call, Got(h, l, c)
    PROVE  Moves(h, l, c.op, c.size, c.id, c.made)
  BY GotIs DEF Moves

\* A call that fails forgets what it has gathered.
LEMMA FailIs ==
    ASSUME TypeOK, NEW h \in Handlers, Fail(h)
    PROVE  Fails(h)
  BY GotIs, RecordTypes DEF Fail, Fails, Labels

\* A step that gathers nothing.
LEMMA GotoIs ==
    ASSUME TypeOK, NEW h \in Handlers, NEW l \in Labels, Goto(h, l)
    PROVE  Stays(h, l)
  BY MovesIs, FieldTypes DEF Goto, Stays

\* A failed creation undoes what it made; other calls just fail.
LEMMA UndoIs ==
    ASSUME TypeOK, NEW h \in Handlers, Undo(h)
    PROVE  Undoes(h)
<1>1. "undo" \in Labels
  BY DEF Labels
<1> QED
  BY <1>1, GotoIs, FailIs DEF Undo, Undoes

\* The call gets the share's id.
LEMMA GotShareIs ==
    ASSUME TypeOK, NEW h \in Handlers, NEW l \in Labels, NEW i \in Ids,
           Got(h, l, [call[h] EXCEPT !.id = i])
    PROVE  Moves(h, l, call[h].op, call[h].size, i, call[h].made)
<1>1. call[h] \in Call
  BY DEF TypeOK
<1> DEFINE c == [call[h] EXCEPT !.id = i]
<1>2. /\ c \in Call /\ c.op = call[h].op /\ c.size = call[h].size /\ c.id = i
      /\ c.made = call[h].made
  BY <1>1 DEF Call
<1>3. Got(h, l, c)
  OBVIOUS
<1> HIDE DEF c
<1> QED
  BY <1>2, <1>3, MovesIs

\* CreateVolume answers with the share, or fails.
LEMMA RespondIs ==
    ASSUME TypeOK, NEW h \in Handlers, NEW i \in Ids, NEW q, RespondVolume(h, i, q)
    PROVE  \/ /\ q = request.size
              /\ Moves(h, "reply", call[h].op, call[h].size, i, call[h].made)
           \/ q # request.size /\ Fails(h)
<1>1. "reply" \in Labels
  BY DEF Labels
<1> QED
  BY <1>1, GotShareIs, FailIs DEF RespondVolume

\* A request that fails is counted.
LEMMA FaultIs == TypeOK /\ (Fault \/ NoFault) => faults' \in 0..MaxFaults
  BY ConstantsAssumption DEF TypeOK, Fault, NoFault

\* With one call in flight a call starts when no other runs.
LEMMA BeginIs ==
    ASSUME SerialCalls, NEW h \in Handlers, Begin(h)
    PROVE  \A g \in Handlers : pc[g] = "idle"
  BY DEF Begin

-----------------------------------------------------------------------------
(* The steps, field by field: what a step makes of a part of the state.    *)

\* CreateVolume finds the share, whose quota fits or not, or starts to make it.
LEMMA CreateVolumeIs ==
    ASSUME TypeOK, NEW h \in Handlers, CreateVolume(h)
    PROVE  /\ pc[h] = "idle" /\ co = "creating"
           /\ UNCHANGED <<request, share, co, pv, faults, crashes, logged, unanswered>>
           /\ \/ /\ share # NoShare /\ share.quota = request.size
                 /\ Moves(h, "reply", call[h].op, call[h].size, share.id, call[h].made)
              \/ share # NoShare /\ share.quota # request.size /\ Fails(h)
              \/ /\ share = NoShare
                 /\ request.kind = "volume" => request.size >= request.source
                 /\ Moves(h, "create", "create", request.size, 0, 0)
<1>1. share.id \in Ids /\ request.size \in Amounts
  BY FieldTypes, RecordTypes
<1>2. "create" \in Labels
  BY DEF Labels
<1>3. ASSUME Got(h, "create", NewCall("create", request.size))
      PROVE  Moves(h, "create", "create", request.size, 0, 0)
  <2>1. /\ NewCall("create", request.size) \in Call
        /\ NewCall("create", request.size).op = "create"
        /\ NewCall("create", request.size).size = request.size
        /\ NewCall("create", request.size).id = 0
        /\ NewCall("create", request.size).made = 0
    BY <1>1, RecordTypes
  <2> QED
    BY <1>2, <1>3, <2>1, MovesIs
<1> QED
  BY <1>1, <1>3, RespondIs DEF CreateVolume, Begin, coVars, ledger

\* A share is made, its answer arriving or not, or is there already, or the
\* request fails.
LEMMA ShareCreateIs ==
    ASSUME TypeOK, NEW h \in Handlers, ShareCreate(h)
    PROVE  /\ pc[h] = "create"
           /\ UNCHANGED <<request, co, pv, crashes, logged>>
           /\ faults' \in 0..MaxFaults
           /\ \/ /\ share = NoShare /\ CanMake
                 /\ share' \in Share /\ share'.id = NewId /\ share'.quota \in FirstQuotas
                 /\ \/ /\ Moves(h, "get", call[h].op, call[h].size, call[h].id, NewId)
                       /\ UNCHANGED unanswered
                    \/ Fails(h) /\ unanswered' = unanswered \cup {NewId}
              \/ share # NoShare /\ Stays(h, "get") /\ UNCHANGED <<share, unanswered>>
              \/ Fails(h) /\ UNCHANGED <<share, unanswered>>
<1>1. "get" \in Labels
  BY DEF Labels
<1>2. ASSUME AddShare
      PROVE  /\ share = NoShare /\ CanMake
             /\ share' \in Share /\ share'.id = NewId /\ share'.quota \in FirstQuotas
  <2>1. FirstQuotas \subseteq Amounts
    BY FieldTypes, RecordTypes DEF FirstQuotas
  <2> QED
    BY <1>2, <2>1, NewIdFree DEF AddShare, Share
<1>3. ASSUME CanMake, Got(h, "get", [call[h] EXCEPT !.made = NewId])
      PROVE  Moves(h, "get", call[h].op, call[h].size, call[h].id, NewId)
  <2>1. call[h] \in Call /\ NewId \in Ids
    BY <1>3, NewIdFree DEF TypeOK
  <2> DEFINE c == [call[h] EXCEPT !.made = NewId]
  <2>2. /\ c \in Call /\ c.op = call[h].op /\ c.size = call[h].size
        /\ c.id = call[h].id /\ c.made = NewId
    BY <2>1 DEF Call
  <2>3. Got(h, "get", c)
    BY <1>3
  <2> HIDE DEF c
  <2> QED
    BY <1>1, <2>2, <2>3, MovesIs
<1> QED
  BY <1>1, <1>2, <1>3, GotoIs, FailIs, FaultIs DEF ShareCreate, coVars

\* The share is fetched: its quota is too small, fits, or is too large.
LEMMA ShareGetIs ==
    ASSUME TypeOK, NEW h \in Handlers, ShareGet(h)
    PROVE  /\ pc[h] = "get"
           /\ UNCHANGED <<request, share, co, pv, crashes, logged, unanswered>>
           /\ faults' \in 0..MaxFaults
           /\ \/ /\ share # NoShare
                 /\ Moves(h, "quota", call[h].op, call[h].size, share.id, call[h].made)
              \/ /\ share # NoShare /\ share.quota = request.size
                 /\ Moves(h, "reply", call[h].op, call[h].size, share.id, call[h].made)
              \/ /\ share # NoShare /\ share.quota # request.size /\ Fails(h)
                 /\ \/ request.kind = "none"
                    \/ /\ share.quota # 0 /\ share.quota >= request.size
                       /\ request.kind = "snapshot" => share.quota <= request.size
              \/ Undoes(h)
<1>1. share.id \in Ids /\ share.quota \in Nat /\ request.size \in Nat
  BY FieldTypes
<1>2. "quota" \in Labels
  BY DEF Labels
<1> DEFINE clone == request.kind # "none"
           short == clone /\ (share.quota = 0 \/ share.quota < request.size)
           large == request.kind = "snapshot" /\ share.quota > request.size
<1>3. CASE share # NoShare /\ short /\ NoFault
             /\ Got(h, "quota", [call[h] EXCEPT !.id = share.id])
  BY <1>1, <1>2, <1>3, GotShareIs, FaultIs DEF ShareGet, coVars, ledger
<1>4. CASE share # NoShare /\ ~short /\ ~large /\ RespondVolume(h, share.id, share.quota)
             /\ NoFault
  <2>1. \/ /\ share.quota = request.size
           /\ Moves(h, "reply", call[h].op, call[h].size, share.id, call[h].made)
        \/ share.quota # request.size /\ Fails(h)
    BY <1>1, <1>4, RespondIs
  <2>2. \/ request.kind = "none"
        \/ /\ share.quota # 0 /\ share.quota >= request.size
           /\ request.kind = "snapshot" => share.quota <= request.size
    BY <1>1, <1>4
  <2>3. /\ pc[h] = "get" /\ faults' \in 0..MaxFaults
        /\ UNCHANGED <<request, share, co, pv, crashes, logged, unanswered>>
    BY <1>4, FaultIs DEF ShareGet, coVars, ledger
  <2> QED
    BY <1>4, <2>1, <2>2, <2>3
<1>5. CASE Undo(h) /\ (Fault \/ NoFault)
  BY <1>5, UndoIs, FaultIs DEF ShareGet, coVars, ledger
<1> QED
  BY <1>3, <1>4, <1>5 DEF ShareGet

\* The quota is set and the call answers, or it undoes what it made, or both.
LEMMA SetShareQuotaIs ==
    ASSUME TypeOK, NEW h \in Handlers, SetShareQuota(h)
    PROVE  /\ pc[h] = "quota"
           /\ UNCHANGED <<request, co, pv, crashes, logged, unanswered>>
           /\ faults' \in 0..MaxFaults
           /\ \/ /\ share # NoShare /\ share' \in Share
                 /\ share'.id = share.id /\ share'.quota = call[h].size
                 /\ Stays(h, "reply") \/ Undoes(h)
              \/ UNCHANGED share /\ Undoes(h)
<1>1. call[h].size \in Amounts /\ share \in Share /\ "reply" \in Labels
  BY FieldTypes DEF TypeOK, Labels
<1>2. share' = [share EXCEPT !.quota = call[h].size] =>
         share' \in Share /\ share'.id = share.id /\ share'.quota = call[h].size
  BY <1>1 DEF Share
<1> QED
  BY <1>1, <1>2, GotoIs, UndoIs, FaultIs DEF SetShareQuota, coVars, ledger

\* The share is deleted, or a log line names it, or both.
LEMMA UndoShareIs ==
    ASSUME TypeOK, NEW h \in Handlers, UndoShare(h)
    PROVE  /\ pc[h] = "undo" /\ Fails(h)
           /\ UNCHANGED <<request, co, pv, crashes, unanswered>>
           /\ faults' \in 0..MaxFaults
           /\ \/ UNCHANGED share /\ logged' = logged \cup {call[h].made}
              \/ /\ share' = NoShare
                 /\ logged' = logged \/ logged' = logged \cup {call[h].made}
  BY FailIs, FaultIs DEF UndoShare, coVars

\* A deletion looks for the share by its id.
LEMMA DeleteVolumeIs ==
    ASSUME TypeOK, NEW h \in Handlers, DeleteVolume(h)
    PROVE  /\ pc[h] = "idle" /\ co \in {"bound", "deleting"} /\ co' = "deleting"
           /\ UNCHANGED <<request, share, pv, faults, crashes, logged, unanswered>>
           /\ Moves(h, IF share.id = pv THEN "delete" ELSE "reply", "delete", 0, 0, 0)
<1>1. 0 \in Amounts /\ (IF share.id = pv THEN "delete" ELSE "reply") \in Labels
  BY RecordTypes DEF Labels
<1>2. /\ NewCall("delete", 0) \in Call /\ NewCall("delete", 0).op = "delete"
      /\ NewCall("delete", 0).size = 0 /\ NewCall("delete", 0).id = 0
      /\ NewCall("delete", 0).made = 0
  BY <1>1, RecordTypes
<1>3. Got(h, IF share.id = pv THEN "delete" ELSE "reply", NewCall("delete", 0))
  BY DEF DeleteVolume
<1> QED
  BY <1>1, <1>2, <1>3, MovesIs DEF DeleteVolume, Begin, ledger

\* The share is deleted, its answer arriving or not, or the request fails.
LEMMA ShareDeleteIs ==
    ASSUME TypeOK, NEW h \in Handlers, ShareDelete(h)
    PROVE  /\ pc[h] = "delete"
           /\ UNCHANGED <<request, co, pv, crashes, logged, unanswered>>
           /\ faults' \in 0..MaxFaults
           /\ \/ share' = NoShare /\ (Stays(h, "reply") \/ Fails(h))
              \/ UNCHANGED share /\ Fails(h)
<1>1. "reply" \in Labels
  BY DEF Labels
<1> QED
  BY <1>1, GotoIs, FailIs, FaultIs DEF ShareDelete, coVars, ledger

\* An expansion asks for no less than the share has.
LEMMA ExpandIs ==
    ASSUME TypeOK, NEW h \in Handlers, ControllerExpandVolume(h)
    PROVE  /\ pc[h] = "idle" /\ co = "bound"
           /\ UNCHANGED <<request, share, co, pv, faults, crashes, logged, unanswered>>
           /\ \E n \in Sizes : share.quota <= n /\ Moves(h, "quota", "expand", n, 0, 0)
<1>1. PICK n \in Sizes : share.quota <= n /\ Got(h, "quota", NewCall("expand", n))
  BY DEF ControllerExpandVolume
<1>2. n \in Amounts /\ "quota" \in Labels
  BY RecordTypes DEF Labels
<1>3. /\ NewCall("expand", n) \in Call /\ NewCall("expand", n).op = "expand"
      /\ NewCall("expand", n).size = n /\ NewCall("expand", n).id = 0
      /\ NewCall("expand", n).made = 0
  BY <1>2, RecordTypes
<1>4. Moves(h, "quota", "expand", n, 0, 0)
  BY <1>1, <1>2, <1>3, MovesIs
<1> QED
  BY <1>1, <1>4 DEF ControllerExpandVolume, Begin, coVars, ledger

\* The CO learns of a success, or not.
LEMMA DeliverIs ==
    ASSUME TypeOK, NEW h \in Handlers, Deliver(h)
    PROVE  /\ pc[h] = "reply" /\ Fails(h)
           /\ UNCHANGED <<request, share, crashes, logged, unanswered>>
           /\ faults' \in 0..MaxFaults
           /\ \/ /\ call[h].op = "create" /\ co = "creating"
                 /\ co' = "bound" /\ pv' = call[h].id
              \/ /\ call[h].op = "delete" /\ co = "deleting"
                 /\ co' = "deleted" /\ pv' = pv
              \/ UNCHANGED <<co, pv>>
  BY FailIs, FaultIs DEF Deliver, coVars, ledger

-----------------------------------------------------------------------------
(* Every step keeps the types.                                             *)

\* The types hold at first.
LEMMA TypeInit == Init => TypeOK
  BY RecordTypes, ConstantsAssumption DEF Init, TypeOK, Labels

\* Every step keeps the types.
LEMMA TypeNext == TypeOK /\ [Next]_vars => TypeOK'
<1> SUFFICES ASSUME TypeOK, [Next]_vars PROVE TypeOK'
  OBVIOUS
<1> USE FieldTypes, RecordTypes
<1>1. ASSUME NEW h \in Handlers, CreateVolume(h) PROVE TypeOK'
  BY <1>1, CreateVolumeIs DEF TypeOK, Moves, Fails
<1>2. ASSUME NEW h \in Handlers, ShareCreate(h) PROVE TypeOK'
  BY <1>2, ShareCreateIs, NewIdFree DEF TypeOK, Moves, Fails, Stays
<1>3. ASSUME NEW h \in Handlers, ShareGet(h) PROVE TypeOK'
  BY <1>3, ShareGetIs DEF TypeOK, Moves, Fails, Stays, Undoes
<1>4. ASSUME NEW h \in Handlers, SetShareQuota(h) PROVE TypeOK'
  BY <1>4, SetShareQuotaIs DEF TypeOK, Moves, Fails, Stays, Undoes
<1>5. ASSUME NEW h \in Handlers, UndoShare(h) PROVE TypeOK'
  BY <1>5, UndoShareIs DEF TypeOK, Fails
<1>6. ASSUME NEW h \in Handlers, DeleteVolume(h) PROVE TypeOK'
  BY <1>6, DeleteVolumeIs DEF TypeOK, Moves
<1>7. ASSUME NEW h \in Handlers, ShareDelete(h) PROVE TypeOK'
  BY <1>7, ShareDeleteIs DEF TypeOK, Moves, Fails, Stays
<1>8. ASSUME NEW h \in Handlers, ControllerExpandVolume(h) PROVE TypeOK'
  BY <1>8, ExpandIs DEF TypeOK, Moves
<1>9. ASSUME NEW h \in Handlers, Deliver(h) PROVE TypeOK'
  BY <1>9, DeliverIs DEF TypeOK, Fails
<1>10. CASE Crash
  BY <1>10, ConstantsAssumption DEF Crash, TypeOK, Labels, coVars
<1>11. CASE UNCHANGED vars
  BY <1>11 DEF vars, TypeOK
<1> QED
  BY <1>1, <1>2, <1>3, <1>4, <1>5, <1>6, <1>7, <1>8, <1>9, <1>10, <1>11 DEF
     Next, HandlerStep

-----------------------------------------------------------------------------
(* Every step keeps the invariant.                                         *)

\* What is left to show of a step of handler h.
LEMMA StepKeeps ==
    ASSUME IInv, TypeOK', NEW h \in Handlers,
           \A g \in Handlers \ {h} :
             pc[g] = "idle" /\ pc'[g] = pc[g] /\ call'[g] = call[g],
           ShareInv', CoInv', HandlerInv(h)', ObstaclesAccounted'
    PROVE  IInv'
<1>1. \A g \in Handlers \ {h} : HandlerInv(g)'
  BY DEF IInv, HandlerInv
<1>2. SerialInv'
  BY DEF SerialInv
<1> QED
  BY <1>1, <1>2 DEF IInv

\* Who takes a step is the only one that runs.
LEMMA Alone ==
    ASSUME IInv, NEW h \in Handlers, pc[h] # "idle"
    PROVE  \A g \in Handlers \ {h} : pc[g] = "idle"
  BY DEF IInv, SerialInv

LEMMA CreateVolumeKeeps ==
    ASSUME IInv, TypeOK', SerialCalls, NEW h \in Handlers, CreateVolume(h) PROVE IInv'
<1>1. TypeOK /\ HandlerInv(h) /\ ShareInv /\ CoInv /\ ObstaclesAccounted
  BY DEF IInv
<1>2. \A g \in Handlers \ {h} : pc[g] = "idle" /\ pc'[g] = pc[g] /\ call'[g] = call[g]
  BY <1>1, CreateVolumeIs, BeginIs DEF CreateVolume, Moves, Fails
<1> USE <1>1, CreateVolumeIs, FieldTypes, RecordTypes
<1>3. ShareInv'
  BY DEF ShareInv, HandlerInv, Creates, Expands, Deletes, Moves, Fails, FirstQuotas
<1>4. CoInv'
  BY DEF ShareInv, CoInv, HandlerInv, Creates, Expands, Deletes, Moves, Fails
<1>5. HandlerInv(h)'
  BY DEF ShareInv, CoInv, HandlerInv, Creates, Expands, Deletes, Accounted,
     ObstaclesAccounted, Moves, Fails
<1>6. ObstaclesAccounted'
  BY <1>2 DEF ObstaclesAccounted, ShareInv, CoInv, HandlerInv, Creates, Expands,
     Deletes, Accounted, Moves, Fails
<1> QED
  BY <1>2, <1>3, <1>4, <1>5, <1>6, StepKeeps

LEMMA ShareCreateKeeps ==
    ASSUME IInv, TypeOK', NEW h \in Handlers, ShareCreate(h) PROVE IInv'
<1>1. TypeOK /\ HandlerInv(h) /\ ShareInv /\ CoInv /\ ObstaclesAccounted
  BY DEF IInv
<1>2. \A g \in Handlers \ {h} : pc[g] = "idle" /\ pc'[g] = pc[g] /\ call'[g] = call[g]
  BY <1>1, ShareCreateIs, Alone DEF Moves, Fails, Stays
<1> USE <1>1, ShareCreateIs, FieldTypes, RecordTypes, NewIdFree
<1>3. ShareInv'
  BY DEF ShareInv, HandlerInv, Creates, Expands, Deletes, Moves, Fails, Stays,
     FirstQuotas
<1>4. CoInv'
  BY DEF ShareInv, CoInv, HandlerInv, Creates, Expands, Deletes, Moves, Fails, Stays
<1>5. HandlerInv(h)'
  BY DEF ShareInv, CoInv, HandlerInv, Creates, Expands, Deletes, Accounted,
     ObstaclesAccounted, Moves, Fails, Stays, FirstQuotas
<1>6. ObstaclesAccounted'
  BY <1>2 DEF ObstaclesAccounted, ShareInv, CoInv, HandlerInv, Creates, Expands,
     Deletes, Accounted, Moves, Fails, Stays, FirstQuotas
<1> QED
  BY <1>2, <1>3, <1>4, <1>5, <1>6, StepKeeps

LEMMA ShareGetKeeps ==
    ASSUME IInv, TypeOK', NEW h \in Handlers, ShareGet(h) PROVE IInv'
<1>1. TypeOK /\ HandlerInv(h) /\ ShareInv /\ CoInv /\ ObstaclesAccounted
  BY DEF IInv
<1>2. \A g \in Handlers \ {h} : pc[g] = "idle" /\ pc'[g] = pc[g] /\ call'[g] = call[g]
  BY <1>1, ShareGetIs, Alone DEF Moves, Fails, Stays, Undoes
<1> USE <1>1, ShareGetIs, FieldTypes, RecordTypes
<1>3. ShareInv'
  BY DEF ShareInv, HandlerInv, Creates, Expands, Deletes, Moves, Fails, Stays,
     Undoes, FirstQuotas
<1>4. CoInv'
  BY DEF ShareInv, CoInv, HandlerInv, Creates, Expands, Deletes, Moves, Fails,
     Stays, Undoes
<1>5. HandlerInv(h)'
  BY DEF ShareInv, CoInv, HandlerInv, Creates, Expands, Deletes, Accounted,
     ObstaclesAccounted, Moves, Fails, Stays, Undoes, FirstQuotas
<1>6. ObstaclesAccounted'
  <2>1. co = "creating" => Creates(h)
    BY DEF HandlerInv, Expands, Deletes
  <2>2. ASSUME co = "creating", share # NoShare, request.kind \in {"none", "snapshot", "volume"},
               \/ request.kind = "none"
               \/ /\ share.quota # 0 /\ share.quota >= request.size
                  /\ request.kind = "snapshot" => share.quota <= request.size
        PROVE  share.quota = request.size
    BY <2>2 DEF ShareInv, FirstQuotas
  <2>3. request.kind \in {"none", "snapshot", "volume"}
    BY ConstantsAssumption
  <2>4. CASE Undoes(h)
    BY <1>2, <2>1, <2>4 DEF ObstaclesAccounted, ShareInv, Creates, Accounted,
       Undoes, Fails, Stays, Moves
  <2>5. CASE ~Undoes(h)
    BY <1>2, <2>1, <2>2, <2>3, <2>5 DEF ObstaclesAccounted, Creates, Accounted,
       Fails, Moves
  <2> QED
    BY <2>4, <2>5
<1> QED
  BY <1>2, <1>3, <1>4, <1>5, <1>6, StepKeeps

LEMMA SetShareQuotaKeeps ==
    ASSUME IInv, TypeOK', NEW h \in Handlers, SetShareQuota(h) PROVE IInv'
<1>1. TypeOK /\ HandlerInv(h) /\ ShareInv /\ CoInv /\ ObstaclesAccounted
  BY DEF IInv
<1>2. \A g \in Handlers \ {h} : pc[g] = "idle" /\ pc'[g] = pc[g] /\ call'[g] = call[g]
  BY <1>1, SetShareQuotaIs, Alone DEF Moves, Fails, Stays, Undoes
<1> USE <1>1, SetShareQuotaIs, FieldTypes, RecordTypes
<1>3. ShareInv'
  BY DEF ShareInv, HandlerInv, Creates, Expands, Deletes, Moves, Fails, Stays,
     Undoes, FirstQuotas
<1>4. CoInv'
  BY DEF ShareInv, CoInv, HandlerInv, Creates, Expands, Deletes, Moves, Fails,
     Stays, Undoes
<1>5. HandlerInv(h)'
  BY DEF ShareInv, CoInv, HandlerInv, Creates, Expands, Deletes, Accounted,
     ObstaclesAccounted, Moves, Fails, Stays, Undoes
<1>6. ObstaclesAccounted'
  BY <1>2 DEF ObstaclesAccounted, ShareInv, CoInv, HandlerInv, Creates, Expands,
     Deletes, Accounted, Moves, Fails, Stays, Undoes
<1> QED
  BY <1>2, <1>3, <1>4, <1>5, <1>6, StepKeeps

LEMMA UndoShareKeeps ==
    ASSUME IInv, TypeOK', NEW h \in Handlers, UndoShare(h) PROVE IInv'
<1>1. TypeOK /\ HandlerInv(h) /\ ShareInv /\ CoInv /\ ObstaclesAccounted
  BY DEF IInv
<1>2. \A g \in Handlers \ {h} : pc[g] = "idle" /\ pc'[g] = pc[g] /\ call'[g] = call[g]
  BY <1>1, UndoShareIs, Alone DEF Fails
<1> USE <1>1, UndoShareIs, FieldTypes, RecordTypes
<1>3. ShareInv'
  BY DEF ShareInv, HandlerInv, Creates, Expands, Deletes, Fails, FirstQuotas
<1>4. CoInv'
  BY DEF ShareInv, CoInv, HandlerInv, Creates, Expands, Deletes, Fails
<1>5. HandlerInv(h)'
  BY DEF ShareInv, CoInv, HandlerInv, Creates, Expands, Deletes, Accounted,
     ObstaclesAccounted, Fails
<1>6. ObstaclesAccounted'
  BY <1>2 DEF ObstaclesAccounted, ShareInv, CoInv, HandlerInv, Creates, Expands,
     Deletes, Accounted, Fails
<1> QED
  BY <1>2, <1>3, <1>4, <1>5, <1>6, StepKeeps

LEMMA DeleteVolumeKeeps ==
    ASSUME IInv, TypeOK', SerialCalls, NEW h \in Handlers, DeleteVolume(h) PROVE IInv'
<1>1. TypeOK /\ HandlerInv(h) /\ ShareInv /\ CoInv /\ ObstaclesAccounted
  BY DEF IInv
<1>2. \A g \in Handlers \ {h} : pc[g] = "idle" /\ pc'[g] = pc[g] /\ call'[g] = call[g]
  BY <1>1, DeleteVolumeIs, BeginIs DEF DeleteVolume, Moves
<1> USE <1>1, DeleteVolumeIs, FieldTypes, RecordTypes
<1>3. ShareInv'
  BY DEF ShareInv, HandlerInv, Creates, Expands, Deletes, Moves, FirstQuotas
<1>4. CoInv'
  BY DEF ShareInv, CoInv, HandlerInv, Creates, Expands, Deletes, Moves
<1>5. HandlerInv(h)'
  BY DEF ShareInv, CoInv, HandlerInv, Creates, Expands, Deletes, Accounted,
     ObstaclesAccounted, Moves
<1>6. ObstaclesAccounted'
  BY <1>2 DEF ObstaclesAccounted, ShareInv, CoInv, HandlerInv, Creates, Expands,
     Deletes, Accounted, Moves
<1> QED
  BY <1>2, <1>3, <1>4, <1>5, <1>6, StepKeeps

LEMMA ShareDeleteKeeps ==
    ASSUME IInv, TypeOK', NEW h \in Handlers, ShareDelete(h) PROVE IInv'
<1>1. TypeOK /\ HandlerInv(h) /\ ShareInv /\ CoInv /\ ObstaclesAccounted
  BY DEF IInv
<1>2. \A g \in Handlers \ {h} : pc[g] = "idle" /\ pc'[g] = pc[g] /\ call'[g] = call[g]
  BY <1>1, ShareDeleteIs, Alone DEF Moves, Fails, Stays
<1> USE <1>1, ShareDeleteIs, FieldTypes, RecordTypes
<1>3. ShareInv'
  BY DEF ShareInv, HandlerInv, Creates, Expands, Deletes, Moves, Fails, Stays,
     FirstQuotas
<1>4. CoInv'
  BY DEF ShareInv, CoInv, HandlerInv, Creates, Expands, Deletes, Moves, Fails, Stays
<1>5. HandlerInv(h)'
  BY DEF ShareInv, CoInv, HandlerInv, Creates, Expands, Deletes, Accounted,
     ObstaclesAccounted, Moves, Fails, Stays
<1>6. ObstaclesAccounted'
  BY <1>2 DEF ObstaclesAccounted, ShareInv, CoInv, HandlerInv, Creates, Expands,
     Deletes, Accounted, Moves, Fails, Stays
<1> QED
  BY <1>2, <1>3, <1>4, <1>5, <1>6, StepKeeps

LEMMA ControllerExpandVolumeKeeps ==
    ASSUME IInv, TypeOK', SerialCalls, NEW h \in Handlers, ControllerExpandVolume(h) PROVE IInv'
<1>1. TypeOK /\ HandlerInv(h) /\ ShareInv /\ CoInv /\ ObstaclesAccounted
  BY DEF IInv
<1>2. \A g \in Handlers \ {h} : pc[g] = "idle" /\ pc'[g] = pc[g] /\ call'[g] = call[g]
  BY <1>1, ExpandIs, BeginIs DEF ControllerExpandVolume, Moves
<1> USE <1>1, ExpandIs, FieldTypes, RecordTypes
<1>3. ShareInv'
  BY DEF ShareInv, HandlerInv, Creates, Expands, Deletes, Moves, FirstQuotas
<1>4. CoInv'
  BY DEF ShareInv, CoInv, HandlerInv, Creates, Expands, Deletes, Moves
<1>5. HandlerInv(h)'
  BY DEF ShareInv, CoInv, HandlerInv, Creates, Expands, Deletes, Accounted,
     ObstaclesAccounted, Moves
<1>6. ObstaclesAccounted'
  BY <1>2 DEF ObstaclesAccounted, ShareInv, CoInv, HandlerInv, Creates, Expands,
     Deletes, Accounted, Moves
<1> QED
  BY <1>2, <1>3, <1>4, <1>5, <1>6, StepKeeps

LEMMA DeliverKeeps ==
    ASSUME IInv, TypeOK', NEW h \in Handlers, Deliver(h) PROVE IInv'
<1>1. TypeOK /\ HandlerInv(h) /\ ShareInv /\ CoInv /\ ObstaclesAccounted
  BY DEF IInv
<1>2. \A g \in Handlers \ {h} : pc[g] = "idle" /\ pc'[g] = pc[g] /\ call'[g] = call[g]
  BY <1>1, DeliverIs, Alone DEF Fails
<1> USE <1>1, DeliverIs, FieldTypes, RecordTypes
<1>3. ShareInv'
  BY DEF ShareInv, HandlerInv, Creates, Expands, Deletes, Fails, FirstQuotas
<1>4. CoInv'
  BY DEF ShareInv, CoInv, HandlerInv, Creates, Expands, Deletes, Fails
<1>5. HandlerInv(h)'
  BY DEF ShareInv, CoInv, HandlerInv, Creates, Expands, Deletes, Accounted,
     ObstaclesAccounted, Fails
<1>6. ObstaclesAccounted'
  BY <1>2 DEF ObstaclesAccounted, ShareInv, CoInv, HandlerInv, Creates, Expands,
     Deletes, Accounted, Fails
<1> QED
  BY <1>2, <1>3, <1>4, <1>5, <1>6, StepKeeps

\* A restart forgets the calls; what they knew of counts as unanswered.
LEMMA CrashKeeps ==
    ASSUME IInv, TypeOK', Crash PROVE IInv'
<1>1. /\ \A h \in Handlers : pc'[h] = "idle" /\ call'[h] = NoCall
      /\ UNCHANGED <<request, share, co, pv, logged>>
  BY DEF Crash, coVars
<1>2. \A h \in Handlers : HandlerInv(h)'
  BY <1>1 DEF HandlerInv
<1>3. SerialInv' /\ ShareInv' /\ CoInv'
  BY <1>1 DEF IInv, SerialInv, ShareInv, CoInv, FirstQuotas
<1>4. ObstaclesAccounted'
  BY <1>1 DEF IInv, ObstaclesAccounted, Crash
<1> QED
  BY <1>2, <1>3, <1>4 DEF IInv

\* The invariant holds at first.
LEMMA InitInv == Init => IInv
<1> SUFFICES ASSUME Init PROVE IInv
  OBVIOUS
<1>1. TypeOK
  BY TypeInit
<1>2. SerialInv /\ ShareInv /\ CoInv /\ ObstaclesAccounted
  BY DEF Init, SerialInv, ShareInv, CoInv, ObstaclesAccounted
<1>3. \A h \in Handlers : HandlerInv(h)
  BY DEF Init, HandlerInv
<1> QED
  BY <1>1, <1>2, <1>3 DEF IInv

\* With one call in flight every step keeps the invariant.
LEMMA NextInv == SerialCalls /\ IInv /\ [Next]_vars => IInv'
<1> SUFFICES ASSUME SerialCalls, IInv, [Next]_vars PROVE IInv'
  OBVIOUS
<1>1. TypeOK'
  BY TypeNext DEF IInv
<1>2. CASE \E h \in Handlers :
        CreateVolume(h) \/ DeleteVolume(h) \/ ControllerExpandVolume(h) \/ HandlerStep(h)
  BY <1>1, <1>2, CreateVolumeKeeps, DeleteVolumeKeeps, ControllerExpandVolumeKeeps,
     ShareCreateKeeps, ShareGetKeeps, SetShareQuotaKeeps, UndoShareKeeps,
     ShareDeleteKeeps, DeliverKeeps DEF HandlerStep
<1>3. CASE Crash
  BY <1>1, <1>3, CrashKeeps
<1>4. CASE UNCHANGED vars
  BY <1>4 DEF vars, IInv, TypeOK, SerialInv, ShareInv, CoInv, HandlerInv,
     Creates, Expands,
     Deletes, ObstaclesAccounted, Accounted, FirstQuotas
<1> QED
  BY <1>2, <1>3, <1>4 DEF Next

\* Every variable has its type, however the calls overlap.
THEOREM TypeCorrect == Spec => []TypeOK
  BY TypeInit, TypeNext, PTL DEF Spec

\* With one call in flight the invariant holds in every reachable state.
LEMMA InvAlways == SerialCalls /\ Spec => []IInv
<1> SUFFICES ASSUME SerialCalls PROVE Spec => []IInv
  OBVIOUS
<1>1. IInv /\ [Next]_vars => IInv'
  BY NextInv
<1> QED
  BY <1>1, InitInv, PTL DEF Spec

\* With one call in flight, a share that stands in the way of its name is in the
\* log, or a request about it went unanswered (createRollback.run).
THEOREM NothingInTheWay == SerialCalls /\ Spec => []ObstaclesAccounted
<1>1. IInv => ObstaclesAccounted
  BY DEF IInv
<1> QED
  BY <1>1, InvAlways, PTL

-----------------------------------------------------------------------------
(* ShareVolume implements VolumeContract.                                  *)

\* The contract's initial states are those of ShareVolume, seen through the mapping.
LEMMA ContractInit == Init => Contract!Init
<1> SUFFICES ASSUME Init PROVE Contract!Init
  OBVIOUS
<1>1. request.size \in Nat /\ request.size # 0
  BY TypeInit, FieldTypes
<1>2. co = "creating" /\ Shown = 0
  BY DEF Init, Shown
<1> QED
  BY <1>1, <1>2 DEF Contract!Init

\* What changes neither the share nor the CO's view is not seen.
LEMMA QuietStutters ==
    ASSUME UNCHANGED <<request, share, co, pv>>
    PROVE  UNCHANGED Contract!vars
  BY DEF Contract!vars, Shown

\* Before the CO has the volume the contract sees nothing.
LEMMA CreatingStutters ==
    ASSUME co = "creating", UNCHANGED <<request, co>>
    PROVE  UNCHANGED Contract!vars
  BY DEF Contract!vars, Shown

\* The steps of a creation are not seen.
LEMMA CreationIsQuiet ==
    ASSUME IInv, NEW h \in Handlers,
           CreateVolume(h) \/ ShareCreate(h) \/ ShareGet(h) \/ UndoShare(h)
    PROVE  UNCHANGED Contract!vars
<1>1. TypeOK /\ HandlerInv(h)
  BY DEF IInv
<1>2. co = "creating" /\ UNCHANGED <<request, co>>
  BY <1>1, CreateVolumeIs, ShareCreateIs, ShareGetIs, UndoShareIs
     DEF HandlerInv, Creates, Expands, Deletes
<1> QED
  BY <1>2, CreatingStutters

\* A quota is set before the CO has the volume, or to expand it.
LEMMA QuotaKeepsContract ==
    ASSUME IInv, NEW h \in Handlers, SetShareQuota(h)
    PROVE  [Contract!Next]_(Contract!vars)
<1>1. TypeOK /\ HandlerInv(h) /\ CoInv
  BY DEF IInv
<1>2. pc[h] = "quota" /\ UNCHANGED <<request, co, pv>>
  BY <1>1, SetShareQuotaIs
<1>3. CASE co = "creating"
  BY <1>2, <1>3, CreatingStutters
<1>4. CASE co # "creating"
  <2>1. co = "bound" /\ share.id = pv /\ share.quota <= call[h].size
    BY <1>1, <1>2, <1>4 DEF HandlerInv, Creates, Expands, Deletes, CoInv
  <2>2. CASE UNCHANGED share
    BY <1>2, <2>2, QuietStutters
  <2>3. CASE share'.id = share.id /\ share'.quota = call[h].size
    <3>1. Shown = share.quota /\ Shown' = call[h].size
      BY <1>2, <2>1, <2>3 DEF Shown
    <3>2. call[h].size \in Nat /\ share.quota \in Nat
      BY <1>1, FieldTypes
    <3>3. CASE call[h].size = share.quota
      BY <1>2, <3>1, <3>3 DEF Contract!vars
    <3>4. CASE call[h].size > share.quota
      BY <1>2, <2>1, <3>1, <3>2, <3>4 DEF Contract!Next, Contract!Expand
    <3> QED
      BY <2>1, <3>2, <3>3, <3>4
  <2> QED
    BY <1>1, <2>2, <2>3, SetShareQuotaIs
<1> QED
  BY <1>3, <1>4

\* A success the CO learns of is the contract's Create or Forget.
LEMMA DeliverKeepsContract ==
    ASSUME IInv, NEW h \in Handlers, Deliver(h)
    PROVE  [Contract!Next]_(Contract!vars)
<1>1. TypeOK /\ HandlerInv(h) /\ CoInv
  BY DEF IInv
<1>2. pc[h] = "reply" /\ UNCHANGED <<request, share>>
  BY <1>1, DeliverIs
<1>3. CASE UNCHANGED <<co, pv>>
  BY <1>2, <1>3, QuietStutters
<1>4. CASE co = "creating" /\ co' = "bound" /\ pv' = call[h].id
  <2>1. share.id = call[h].id /\ share.quota = request.size
    BY <1>1, <1>2, <1>4 DEF HandlerInv, Creates, Expands, Deletes
  <2>2. Shown' = request.size
    BY <1>2, <1>4, <2>1 DEF Shown
  <2> QED
    BY <1>2, <1>4, <2>2 DEF Contract!Next, Contract!Create
<1>5. CASE co = "deleting" /\ co' = "deleted" /\ pv' = pv
  <2>1. share = NoShare
    BY <1>1, <1>2, <1>5 DEF HandlerInv, Creates, Expands, Deletes
  <2>2. share.quota = 0
    BY <2>1, RecordTypes
  <2>3. Shown = 0 /\ Shown' = 0
    BY <1>2, <2>2 DEF Shown
  <2> QED
    BY <1>2, <1>5, <2>3 DEF Contract!Next, Contract!Forget
<1> QED
  BY <1>1, <1>3, <1>4, <1>5, DeliverIs

\* A deletion is called, and takes the share away, as the contract says.
LEMMA DeletionKeepsContract ==
    ASSUME IInv, NEW h \in Handlers, DeleteVolume(h) \/ ShareDelete(h)
    PROVE  [Contract!Next]_(Contract!vars)
<1>1. TypeOK /\ HandlerInv(h) /\ CoInv
  BY DEF IInv
<1>2. CASE DeleteVolume(h)
  <2>1. /\ co \in {"bound", "deleting"} /\ co' = "deleting"
        /\ UNCHANGED <<request, share, pv>>
    BY <1>1, <1>2, DeleteVolumeIs
  <2>2. Shown' = Shown
    BY <2>1 DEF Shown
  <2> QED
    BY <2>1, <2>2 DEF Contract!vars, Contract!Next, Contract!Delete
<1>3. CASE ShareDelete(h)
  <2>1. pc[h] = "delete" /\ UNCHANGED <<request, co, pv>>
    BY <1>1, <1>3, ShareDeleteIs
  <2>2. co = "deleting" /\ pv # 0
    BY <1>1, <2>1 DEF HandlerInv, Creates, Expands, Deletes, CoInv
  <2>3. CASE UNCHANGED share
    BY <2>1, <2>3, QuietStutters
  <2>4. CASE share' = NoShare
    <3>1. share'.id = 0
      BY <2>4, RecordTypes
    <3>2. Shown' = 0
      BY <2>1, <2>2, <3>1 DEF Shown
    <3> QED
      BY <2>1, <2>2, <3>2 DEF Contract!Next, Contract!Remove
  <2> QED
    BY <1>1, <1>3, <2>3, <2>4, ShareDeleteIs
<1> QED
  BY <1>2, <1>3

\* Every step is a step of the contract, or is not seen.
LEMMA ContractNext ==
    IInv /\ [Next]_vars => [Contract!Next]_(Contract!vars)
<1> SUFFICES ASSUME IInv, [Next]_vars PROVE [Contract!Next]_(Contract!vars)
  OBVIOUS
<1>1. ASSUME NEW h \in Handlers, ControllerExpandVolume(h)
      PROVE  UNCHANGED Contract!vars
  BY <1>1, ExpandIs, QuietStutters DEF IInv
<1>2. CASE Crash \/ UNCHANGED vars
  BY <1>2, QuietStutters DEF Crash, vars, coVars
<1> QED
  BY <1>1, <1>2, CreationIsQuiet, QuotaKeepsContract, DeliverKeepsContract,
     DeletionKeepsContract DEF Next, HandlerStep

\* With one call in flight the share the CO was handed stays, does not shrink
\* and does not come back (CreateVolume, ExpandVolume, DeleteVolume):
\* ShareVolume implements VolumeContract.
THEOREM ContractKept == SerialCalls /\ Spec => KeepsContract
<1>1. SerialCalls /\ Spec => Init /\ [][Next]_vars /\ []IInv
  BY InvAlways DEF Spec
<1> QED
  BY <1>1, ContractInit, ContractNext, PTL DEF KeepsContract, Contract!Spec
=============================================================================
