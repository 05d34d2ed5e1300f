-------------------------- MODULE NodeIscsiProofs --------------------------
(***************************************************************************)
(* Safety of NodeIscsi, for any number of volumes, portals and kernel disk *)
(* names, and every bound.                                                 *)
(***************************************************************************)
EXTENDS NodeIscsi, FiniteSetTheorems, TLAPS

CallData == [op : Ops, left : SUBSET Portals, legs : SUBSET Portals,
             mpath : Volumes \cup {None}, flushed : BOOLEAN]

\* A disk is the session's that got it.
DisksDistinct == \A v, w \in Volumes, p, q \in Portals :
    disk[v][p] # None /\ disk[v][p] = disk[w][q] => v = w /\ p = q

\* The kubelet knows which call is at work.
Working(v) ==
    \/ pc[v] = "idle"
    \/ /\ call[v].op = "stage" /\ kubelet[v] = "staging"
       /\ pc[v] \in {"lookup", "login", "wait", "resolve", "verify", "mount", "grow"}
    \/ /\ call[v].op = "publish" /\ kubelet[v] = "publishing"
       /\ pc[v] \in {"lookup", "login", "wait", "resolve", "verify", "bind"}
    \/ /\ call[v].op = "unstage" /\ kubelet[v] = "staging"
       /\ pc[v] \in {"lookup", "flush", "logout", "deleteNode"}
    \/ /\ call[v].op = "expand" /\ kubelet[v] = "published"
       /\ pc[v] \in {"lookup", "rescan", "resize"}

\* The device a call has resolved is the volume's own or gone.
OwnDevice(v) ==
    IF call[v].mpath # None
    THEN call[v].mpath = v
    ELSE \/ link[v][DsmPortal] = None
         \/ \E p \in Portals : disk[v][p] = link[v][DsmPortal]

Pure(v) ==
    /\ staged[v] \in {v, None} /\ published[v] \in {v, None}
    /\ pc[v] \in {"mount", "bind"} => OwnDevice(v)

\* A record at the DSM's own address that no other volume's discovery has made.
Leftover(v) == DsmPortal \in record[v] /\ v \notin remade

LocalInv(v) ==
    /\ Working(v)
    /\ kubelet[v] \in {"out", "staging", "staged"} => published[v] = None
    /\ v \notin unverified => Pure(v)
    /\ pc[v] = "wait" => call[v].left # {}
    /\ pc[v] = "deleteNode" /\ v \notin swallowed => Session(v) = {}
    /\ kubelet[v] = "out" /\ v \notin swallowed =>
         Session(v) = {} /\ ~Leftover(v)

IInv ==
    /\ TypeOK
    /\ DisksDistinct
    /\ \A v \in Volumes : LocalInv(v)

-----------------------------------------------------------------------------
(* What the helpers say.                                                   *)

LEMMA NewCallIs ==
    ASSUME NEW o \in Ops
    PROVE  NewCall(o) \in CallData /\ NewCall(o).op = o
  BY DEF NewCall, CallData

LEMMA NoCallIs == NoCall \in CallData
  BY NewCallIs DEF NoCall, Ops

LEMMA Types ==
    ASSUME TypeOK, NEW v \in Volumes
    PROVE  /\ call \in [Volumes -> CallData] /\ call[v] \in CallData /\ call[v].op \in Ops
           /\ call[v].left \subseteq Portals /\ call[v].legs \subseteq Portals
           /\ disk[v] \in [Portals -> Disks \cup {None}]
           /\ link[v] \in [Portals -> Disks \cup {None}]
           /\ record[v] \subseteq Portals
           /\ kubelet[v] \in Phases /\ pc[v] \in Labels
           /\ staged[v] \in Volumes \cup {None} /\ published[v] \in Volumes \cup {None}
<1>1. call \in [Volumes -> CallData]
  BY DEF TypeOK, CallData
<1>2. call[v] \in CallData
  BY <1>1
<1> QED
  BY <1>1, <1>2, ConstantsAssumption DEF TypeOK, CallData

\* A disk that is not free belongs to the volume that has it.
LEMMA OwnerIs ==
    ASSUME TypeOK, NEW d \in Disks \cup {None}, Owner(d) # None
    PROVE  d # None /\ Owner(d) \in Volumes /\ \E p \in Portals : disk[Owner(d)][p] = d
<1>1. d # None /\ d \in Disks /\ d \notin Free
  BY DEF Owner
<1>2. \E v \in Volumes : \E p \in Portals : disk[v][p] = d
  BY <1>1 DEF Free
<1> QED
  BY <1>1, <1>2 DEF Owner

LEMMA OwnerOwns ==
    ASSUME TypeOK, DisksDistinct, NEW v \in Volumes, NEW p \in Portals, disk[v][p] # None
    PROVE  Owner(disk[v][p]) = v
<1>1. disk[v][p] \in Disks /\ disk[v][p] \notin Free
  BY Types DEF Free
<1>2. \A w \in Volumes : (\E q \in Portals : disk[w][q] = disk[v][p]) => w = v
  BY DEF DisksDistinct
<1> QED
  BY <1>1, <1>2 DEF Owner

\* What a resolved device is.
LEMMA DeviceIs ==
    ASSUME TypeOK, DisksDistinct, NEW v \in Volumes
    PROVE  /\ OwnDevice(v) => Device(v) \in {v, None}
           /\ Device(v) = v => OwnDevice(v)
           /\ Device(v) \in Volumes \cup {None}
<1>1. link[v][DsmPortal] \in Disks \cup {None} /\ None \notin Volumes
  BY Types, ConstantsAssumption
<1>2. CASE call[v].mpath # None
  BY <1>1, <1>2, Types DEF OwnDevice, Device, CallData
<1>3. CASE call[v].mpath = None
  <2>1. Device(v) = Owner(link[v][DsmPortal])
    BY <1>3 DEF Device
  <2>2. Owner(None) = None
    BY DEF Owner
  <2>3. Device(v) \in Volumes \cup {None}
    BY <1>1, <2>1, OwnerIs
  <2>4. OwnDevice(v) => Device(v) \in {v, None}
    BY <1>3, <2>1, <2>2, OwnerOwns DEF OwnDevice
  <2>5. Device(v) = v => OwnDevice(v)
    BY <1>1, <1>3, <2>1, OwnerIs DEF OwnDevice
  <2> QED
    BY <2>3, <2>4, <2>5
<1> QED
  BY <1>2, <1>3

\* A step about one volume leaves the others alone, but for the records a
\* discovery makes.
Alone(v) == \A w \in Volumes : w # v =>
    /\ disk'[w] = disk[w] /\ link'[w] = link[w]
    /\ kubelet[w] = "out" /\ Leftover(w)' => Leftover(w)
    /\ staged'[w] = staged[w] /\ published'[w] = published[w]
    /\ pc'[w] = pc[w] /\ call'[w] = call[w] /\ kubelet'[w] = kubelet[w]
    /\ w \in unverified' <=> w \in unverified
    /\ w \in swallowed' <=> w \in swallowed

Kept(v) == TypeOK' /\ Alone(v) /\ DisksDistinct' /\ LocalInv(v)'

LEMMA KeptIsEnough ==
    ASSUME IInv, NEW v \in Volumes, Kept(v)
    PROVE  IInv'
<1>1. ASSUME NEW w \in Volumes, w # v PROVE LocalInv(w)'
  <2>1. LocalInv(w)
    BY DEF IInv
  <2>2. /\ disk'[w] = disk[w] /\ link'[w] = link[w]
        /\ kubelet[w] = "out" /\ Leftover(w)' => Leftover(w)
        /\ staged'[w] = staged[w] /\ published'[w] = published[w]
        /\ pc'[w] = pc[w] /\ call'[w] = call[w] /\ kubelet'[w] = kubelet[w]
        /\ w \in unverified' <=> w \in unverified
        /\ w \in swallowed' <=> w \in swallowed
    BY <1>1 DEF Kept, Alone
  <2>3. Working(w)' <=> Working(w)
    BY <2>2 DEF Working
  <2>4. (Pure(w)' <=> Pure(w)) /\ (Session(w)' = Session(w))
    BY <2>2 DEF Pure, OwnDevice, Session
  <2> QED
    BY <2>1, <2>2, <2>3, <2>4 DEF LocalInv
<1> QED
  BY <1>1 DEF IInv, Kept

-----------------------------------------------------------------------------
(* How a step leaves the call.                                             *)

\* Where the call for v is left, with what, and what the kubelet takes it for.
Moves(v, l, c, k) ==
    /\ pc' = [pc EXCEPT ![v] = l]
    /\ call' = [call EXCEPT ![v] = c]
    /\ kubelet' = [kubelet EXCEPT ![v] = k]

\* What a step of the call for v does to the records: those of the volumes that
\* are off the node come from its discovery.
Records(v) ==
    /\ record' \in [Volumes -> SUBSET Portals] /\ remade' \subseteq Volumes
    /\ \A w \in Volumes \ {v} : kubelet[w] = "out" /\ Leftover(w)' => Leftover(w)

\* What a step of the call for v does to the host.
Host(v) ==
    /\ UNCHANGED disk \/ \E f \in [Portals -> Disks \cup {None}] : disk' = [disk EXCEPT ![v] = f]
    /\ UNCHANGED link \/ \E f \in [Portals -> Disks \cup {None}] : link' = [link EXCEPT ![v] = f]
    /\ UNCHANGED <<record, remade>> \/ Records(v)
    /\ UNCHANGED staged \/ \E o \in Volumes \cup {None} : staged' = [staged EXCEPT ![v] = o]
    /\ UNCHANGED published
       \/ \E o \in Volumes \cup {None} : published' = [published EXCEPT ![v] = o]
    /\ unverified' \in {unverified, unverified \cup {v}, unverified \ {v}}
    /\ swallowed' \in {swallowed, swallowed \cup {v}, swallowed \ {v}}

Rest ==
    /\ small' \subseteq Volumes /\ stale' \subseteq Volumes /\ dirty' \subseteq Volumes
    /\ wanted' \subseteq Volumes /\ pod' \in [Volumes -> BOOLEAN]
    /\ faults' \in 0..MaxFaults /\ crashes' \in 0..MaxCrashes

LEMMA HostIs ==
    ASSUME TypeOK, NEW v \in Volumes, Host(v), Rest,
           NEW l \in Labels, NEW c \in CallData, NEW k \in Phases, Moves(v, l, c, k)
    PROVE  /\ TypeOK' /\ Alone(v)
           /\ pc'[v] = l /\ call'[v] = c /\ kubelet'[v] = k
<1>1. Alone(v)
  BY DEF TypeOK, Host, Records, Leftover, Moves, Alone
<1>2. pc'[v] = l /\ call'[v] = c /\ kubelet'[v] = k
  BY DEF TypeOK, Moves
<1>3. /\ disk' \in [Volumes -> [Portals -> Disks \cup {None}]]
      /\ link' \in [Volumes -> [Portals -> Disks \cup {None}]]
      /\ record' \in [Volumes -> SUBSET Portals]
      /\ staged' \in [Volumes -> Volumes \cup {None}]
      /\ published' \in [Volumes -> Volumes \cup {None}]
      /\ unverified' \subseteq Volumes /\ swallowed' \subseteq Volumes
      /\ remade' \subseteq Volumes
  <2>1. disk' \in [Volumes -> [Portals -> Disks \cup {None}]]
    <3>1. disk \in [Volumes -> [Portals -> Disks \cup {None}]]
      BY DEF TypeOK
    <3>2. CASE UNCHANGED disk
      BY <3>1, <3>2
    <3>3. ASSUME NEW f \in [Portals -> Disks \cup {None}], disk' = [disk EXCEPT ![v] = f]
          PROVE  disk' \in [Volumes -> [Portals -> Disks \cup {None}]]
      BY <3>1, <3>3
    <3> QED
      BY <3>2, <3>3 DEF Host
  <2>2. link' \in [Volumes -> [Portals -> Disks \cup {None}]]
    <3>1. link \in [Volumes -> [Portals -> Disks \cup {None}]]
      BY DEF TypeOK
    <3>2. CASE UNCHANGED link
      BY <3>1, <3>2
    <3>3. ASSUME NEW f \in [Portals -> Disks \cup {None}], link' = [link EXCEPT ![v] = f]
          PROVE  link' \in [Volumes -> [Portals -> Disks \cup {None}]]
      BY <3>1, <3>3
    <3> QED
      BY <3>2, <3>3 DEF Host
  <2>3. record' \in [Volumes -> SUBSET Portals] /\ remade' \subseteq Volumes
    BY DEF TypeOK, Host, Records
  <2>4. staged' \in [Volumes -> Volumes \cup {None}]
    <3>1. staged \in [Volumes -> Volumes \cup {None}]
      BY DEF TypeOK
    <3>2. CASE UNCHANGED staged
      BY <3>1, <3>2
    <3>3. ASSUME NEW o \in Volumes \cup {None}, staged' = [staged EXCEPT ![v] = o]
          PROVE  staged' \in [Volumes -> Volumes \cup {None}]
      BY <3>1, <3>3
    <3> QED
      BY <3>2, <3>3 DEF Host
  <2>5. published' \in [Volumes -> Volumes \cup {None}]
    <3>1. published \in [Volumes -> Volumes \cup {None}]
      BY DEF TypeOK
    <3>2. CASE UNCHANGED published
      BY <3>1, <3>2
    <3>3. ASSUME NEW o \in Volumes \cup {None}, published' = [published EXCEPT ![v] = o]
          PROVE  published' \in [Volumes -> Volumes \cup {None}]
      BY <3>1, <3>3
    <3> QED
      BY <3>2, <3>3 DEF Host
  <2>6. unverified' \subseteq Volumes /\ swallowed' \subseteq Volumes
    BY DEF TypeOK, Host
  <2> QED
    BY <2>1, <2>2, <2>3, <2>4, <2>5, <2>6
<1>4. pc' \in [Volumes -> Labels] /\ kubelet' \in [Volumes -> Phases]
  BY DEF TypeOK, Moves
<1>5. call' \in [Volumes -> CallData]
  BY Types DEF Moves
<1>6. TypeOK'
  BY <1>3, <1>4, <1>5 DEF TypeOK, Rest, CallData
<1> QED
  BY <1>1, <1>2, <1>6

LEMMA Same ==
    ASSUME TypeOK, NEW v \in Volumes
    PROVE  /\ disk = [disk EXCEPT ![v] = disk[v]] /\ link = [link EXCEPT ![v] = link[v]]
           /\ staged = [staged EXCEPT ![v] = staged[v]]
           /\ published = [published EXCEPT ![v] = published[v]]
           /\ pc = [pc EXCEPT ![v] = pc[v]] /\ call = [call EXCEPT ![v] = call[v]]
           /\ kubelet = [kubelet EXCEPT ![v] = kubelet[v]]
           /\ small \subseteq Volumes /\ stale \subseteq Volumes /\ dirty \subseteq Volumes
           /\ wanted \subseteq Volumes /\ pod \in [Volumes -> BOOLEAN]
           /\ faults \in 0..MaxFaults /\ crashes \in 0..MaxCrashes
  BY DEF TypeOK

LEMMA FaultIs ==
    ASSUME TypeOK, Fault \/ NoFault
    PROVE  faults' \in 0..MaxFaults
  BY ConstantsAssumption DEF TypeOK, Fault, NoFault

\* How a call ends, or goes on.
LEMMA LeaveIs ==
    ASSUME IInv, NEW v \in Volumes, pc[v] # "idle"
    PROVE  /\ Return(v) => /\ \/ Moves(v, "idle", NoCall, Reached(call[v].op))
                              \/ Moves(v, "idle", NoCall, kubelet[v])
                           /\ wanted' \subseteq Volumes /\ pod' = pod
                           /\ faults' \in 0..MaxFaults
           /\ Fail(v) => Moves(v, "idle", NoCall, kubelet[v]) /\ UNCHANGED <<wanted, pod>>
           /\ Swallow(v) => /\ Moves(v, "idle", NoCall, "out") /\ UNCHANGED <<wanted, pod>>
                            /\ swallowed' = swallowed \cup {v}
           /\ \A l, c : GotoWith(v, l, c) =>
                Moves(v, l, c, kubelet[v]) /\ UNCHANGED <<wanted, pod>>
           /\ \A l : Goto(v, l) =>
                Moves(v, l, call[v], kubelet[v]) /\ UNCHANGED <<wanted, pod>>
<1>1. TypeOK
  BY DEF IInv
<1>2. wanted \subseteq Volumes /\ (Fault \/ NoFault => faults' \in 0..MaxFaults)
  BY <1>1, Same, FaultIs
<1>3. UNCHANGED kubelet => kubelet' = [kubelet EXCEPT ![v] = kubelet[v]]
  BY <1>1, Same
<1>4. Return(v) => /\ \/ Moves(v, "idle", NoCall, Reached(call[v].op))
                      \/ Moves(v, "idle", NoCall, kubelet[v])
                   /\ wanted' \subseteq Volumes /\ pod' = pod
                   /\ faults' \in 0..MaxFaults
  BY <1>2, <1>3 DEF Return, Leave, OK, Moves
<1>5. Fail(v) => Moves(v, "idle", NoCall, kubelet[v]) /\ UNCHANGED <<wanted, pod>>
  BY <1>3 DEF Fail, Leave, Moves, orch
<1>6. Swallow(v) => /\ Moves(v, "idle", NoCall, "out") /\ UNCHANGED <<wanted, pod>>
                    /\ swallowed' = swallowed \cup {v}
  BY DEF Swallow, Leave, Moves
<1>7. \A l, c : GotoWith(v, l, c) =>
        Moves(v, l, c, kubelet[v]) /\ UNCHANGED <<wanted, pod>>
  BY <1>3 DEF GotoWith, Moves, orch
<1> QED
  BY <1>4, <1>5, <1>6, <1>7 DEF Goto

-----------------------------------------------------------------------------
(* Steps that leave the host's disks and mounts as they are.               *)

Still == UNCHANGED <<disk, link, record, remade, staged, published>>

Verdicts(v) ==
    /\ unverified' \in {unverified, unverified \cup {v}}
    /\ swallowed' \in {swallowed, swallowed \cup {v}}

LEMMA StillHost ==
    ASSUME IInv, NEW v \in Volumes, Still, Verdicts(v)
    PROVE  Host(v) /\ DisksDistinct' /\ (Session(v)' = Session(v))
<1>1. Host(v)
  BY DEF Still, Verdicts, Host
<1> QED
  BY <1>1 DEF IInv, Still, DisksDistinct, Session

\* The call ends, without the unstage having succeeded or with a failure on record.
LEMMA EndKeeps ==
    ASSUME IInv, NEW v \in Volumes, pc[v] # "idle", Still, Verdicts(v), Rest,
           NEW k \in Phases, Moves(v, "idle", NoCall, k),
           \/ k = kubelet[v]
           \/ k = Reached(call[v].op) /\ call[v].op # "unstage"
           \/ k = "out" /\ call[v].op = "unstage" /\ v \in swallowed'
    PROVE  Kept(v)
<1>1. LocalInv(v) /\ TypeOK /\ (v \in unverified => v \in unverified')
  BY DEF IInv, Verdicts
<1>2. Host(v) /\ DisksDistinct' /\ (Session(v)' = Session(v))
  BY StillHost
<1>3. "idle" \in Labels
  BY DEF Labels
<1>4. /\ TypeOK' /\ Alone(v)
      /\ pc'[v] = "idle" /\ call'[v] = NoCall /\ kubelet'[v] = k
  BY <1>1, <1>2, <1>3, HostIs, NoCallIs
<1>5. k = "out" => v \in swallowed'
  BY <1>1 DEF LocalInv, Working, Reached
<1>6. k \in {"out", "staging", "staged"} => published[v] = None
  BY <1>1 DEF LocalInv, Working, Reached
<1>7. LocalInv(v)'
  BY <1>1, <1>4, <1>5, <1>6 DEF LocalInv, Working, Pure, Still, IInv
<1> QED
  BY <1>2, <1>4, <1>7 DEF Kept

Follows(o, l) ==
    \/ o = "stage" /\ l \in {"login", "wait", "resolve", "verify", "mount", "grow"}
    \/ o = "publish" /\ l \in {"login", "wait", "resolve", "verify", "bind"}
    \/ o = "unstage" /\ l \in {"flush", "logout", "deleteNode"}
    \/ o = "expand" /\ l \in {"rescan", "resize"}

\* The call goes on.
LEMMA GoOnKeeps ==
    ASSUME IInv, NEW v \in Volumes, pc[v] # "idle", Still, Verdicts(v), Rest,
           NEW l, NEW c \in CallData, Moves(v, l, c, kubelet[v]),
           c.op = call[v].op, Follows(c.op, l),
           l = "deleteNode" => v \in swallowed',
           l = "wait" => c.left # {},
           l \in {"mount", "bind"} /\ v \notin unverified' =>
             OwnDevice(v) /\ c.mpath = call[v].mpath
    PROVE  Kept(v)
<1>1. LocalInv(v) /\ TypeOK /\ (v \in unverified => v \in unverified')
      /\ (v \in swallowed => v \in swallowed')
  BY DEF IInv, Verdicts
<1>2. Host(v) /\ DisksDistinct' /\ (Session(v)' = Session(v))
  BY StillHost
<1>3. l \in Labels /\ l # "idle" /\ kubelet[v] \in Phases
  BY <1>1, Types DEF Labels, Follows
<1>4. /\ TypeOK' /\ Alone(v)
      /\ pc'[v] = l /\ call'[v] = c /\ kubelet'[v] = kubelet[v]
  BY <1>1, <1>2, <1>3, HostIs
<1>5. Working(v)'
  BY <1>1, <1>3, <1>4 DEF LocalInv, Working, Follows
<1>6. v \notin unverified' => Pure(v)'
  <2> SUFFICES ASSUME v \notin unverified' PROVE Pure(v)'
    OBVIOUS
  <2>1. Pure(v)
    BY <1>1 DEF LocalInv
  <2>2. l \in {"mount", "bind"} => OwnDevice(v)'
    BY <1>4 DEF OwnDevice, Still
  <2> QED
    BY <1>4, <2>1, <2>2 DEF Pure, Still
<1>7. LocalInv(v)'
  BY <1>1, <1>2, <1>4, <1>5, <1>6 DEF LocalInv, Leftover, Still
<1> QED
  BY <1>2, <1>4, <1>7 DEF Kept

LEMMA SameRest ==
    ASSUME TypeOK
    PROVE  /\ small \subseteq Volumes /\ stale \subseteq Volumes /\ dirty \subseteq Volumes
           /\ wanted \subseteq Volumes /\ pod \in [Volumes -> BOOLEAN]
           /\ faults \in 0..MaxFaults /\ crashes \in 0..MaxCrashes
  BY DEF TypeOK

\* What the labels of a call say about it.
LEMMA AtWork ==
    ASSUME IInv, NEW v \in Volumes, pc[v] # "idle"
    PROVE  /\ TypeOK /\ LocalInv(v)
           /\ call[v] \in CallData /\ call[v].op \in Ops /\ kubelet[v] \in Phases
           /\ Reached(call[v].op) \in Phases
           /\ pc[v] \in {"login", "wait", "resolve", "verify"} =>
                call[v].op \in {"stage", "publish"}
           /\ pc[v] \in {"mount", "grow"} => call[v].op = "stage"
           /\ pc[v] = "bind" => call[v].op = "publish"
           /\ pc[v] \in {"flush", "logout", "deleteNode"} => call[v].op = "unstage"
           /\ pc[v] \in {"rescan", "resize"} => call[v].op = "expand"
<1>1. TypeOK /\ LocalInv(v)
  BY DEF IInv
<1>2. call[v] \in CallData /\ call[v].op \in Ops /\ kubelet[v] \in Phases
  BY <1>1, Types
<1>3. Reached(call[v].op) \in Phases
  BY <1>2 DEF Reached, Ops, Phases
<1> QED
  BY <1>1, <1>2, <1>3 DEF LocalInv, Working

LEMMA LegsIs ==
    ASSUME NEW c \in CallData, NEW S \in SUBSET Portals
    PROVE  LET f == [c EXCEPT !.left = S] IN f \in CallData /\ f.op = c.op
  BY DEF CallData

LEMMA PathIs ==
    ASSUME NEW c \in CallData, NEW p \in Portals
    PROVE  LET f == [c EXCEPT !.left = @ \ {p}, !.legs = @ \cup {p}] IN
           f \in CallData /\ f.op = c.op
  BY DEF CallData

LEMMA MpathIs ==
    ASSUME NEW c \in CallData, NEW o \in Volumes \cup {None}
    PROVE  LET f == [c EXCEPT !.mpath = o] IN f \in CallData /\ f.op = c.op
  BY DEF CallData

LEMMA FlushedIs ==
    ASSUME NEW c \in CallData
    PROVE  LET f == [c EXCEPT !.flushed = TRUE] IN f \in CallData /\ f.op = c.op
  BY DEF CallData

LEMMA LookupKeeps ==
    ASSUME IInv, NEW v \in Volumes, Lookup(v)
    PROVE  Kept(v)
<1>1. pc[v] = "lookup" /\ pc[v] # "idle" /\ TypeOK
  BY DEF Lookup, IInv
<1>2. Still /\ Verdicts(v) /\ Rest
  BY <1>1, SameRest, FaultIs, LeaveIs
     DEF Lookup, kernel, mounts, sizes, Still, Verdicts, Rest
<1>3. ASSUME NEW S \in SUBSET Portals, S # {}, call[v].op \in {"stage", "publish"},
             GotoWith(v, "login", [call[v] EXCEPT !.left = S])
      PROVE  Kept(v)
  <2> DEFINE c == [call[v] EXCEPT !.left = S]
  <2>1. c \in CallData /\ c.op = call[v].op
    BY <1>1, AtWork, LegsIs
  <2>2. Moves(v, "login", c, kubelet[v])
    BY <1>1, <1>3, LeaveIs
  <2>3. Follows(c.op, "login")
    BY <1>3, <2>1 DEF Follows
  <2> HIDE DEF c
  <2> QED
    BY <1>1, <1>2, <2>1, <2>2, <2>3, GoOnKeeps
<1>4. ASSUME call[v].op \in {"unstage", "expand"},
             Goto(v, IF call[v].op = "unstage" THEN "flush" ELSE "rescan")
      PROVE  Kept(v)
  BY <1>1, <1>2, <1>4, GoOnKeeps, AtWork, LeaveIs DEF Follows
<1>5. CASE Fail(v)
  BY <1>1, <1>2, <1>5, EndKeeps, AtWork, LeaveIs
<1>6. CASE call[v].op = "unstage" /\ Swallow(v)
  <2>1. "out" \in Phases /\ v \in swallowed'
    BY <1>6 DEF Swallow, Phases
  <2> QED
    BY <1>1, <1>2, <1>6, <2>1, EndKeeps, AtWork, LeaveIs
<1> QED
  BY <1>3, <1>4, <1>5, <1>6, ConstantsAssumption DEF Lookup

LEMMA WaitPathKeeps ==
    ASSUME IInv, NEW v \in Volumes, WaitPath(v)
    PROVE  Kept(v)
<1> DEFINE p == NextPortal(call[v].left)
           c == [call[v] EXCEPT !.left = @ \ {p}, !.legs = @ \cup {p}]
<1>1. pc[v] = "wait" /\ pc[v] # "idle" /\ TypeOK
  BY DEF WaitPath, IInv
<1>2. Still /\ Verdicts(v) /\ Rest
  BY <1>1, SameRest, LeaveIs
     DEF WaitPath, kernel, mounts, sizes, ledger, Still, Verdicts, Rest
<1>3. p \in Portals
  BY <1>1, AtWork, Types, ConstantsAssumption DEF NextPortal, LocalInv
<1>4. CASE GotoWith(v, "login", c)
  <2>1. c \in CallData /\ c.op = call[v].op
    BY <1>1, <1>3, AtWork, PathIs
  <2> HIDE DEF c
  <2> QED
    BY <1>1, <1>2, <1>4, <2>1, GoOnKeeps, AtWork, LeaveIs DEF Follows
<1>5. CASE Fail(v)
  BY <1>1, <1>2, <1>5, EndKeeps, AtWork, LeaveIs
<1> QED
  BY <1>4, <1>5 DEF WaitPath

LEMMA ResolveKeeps ==
    ASSUME IInv, NEW v \in Volumes, Resolve(v)
    PROVE  Kept(v)
<1>1. pc[v] = "resolve" /\ pc[v] # "idle" /\ TypeOK
  BY DEF Resolve, IInv
<1>2. Still /\ Verdicts(v) /\ Rest
  BY <1>1, SameRest, FaultIs, LeaveIs
     DEF Resolve, kernel, mounts, sizes, ledger, Still, Verdicts, Rest
<1>3. ASSUME NEW o \in Volumes,
             GotoWith(v, "verify", [call[v] EXCEPT !.mpath =
                        IF Cardinality(call[v].legs) > 1 THEN o ELSE None])
      PROVE  Kept(v)
  <2> DEFINE m == IF Cardinality(call[v].legs) > 1 THEN o ELSE None
             c == [call[v] EXCEPT !.mpath = m]
  <2>1. m \in Volumes \cup {None}
    OBVIOUS
  <2>2. GotoWith(v, "verify", c)
    BY <1>3
  <2> HIDE DEF m
  <2>3. c \in CallData /\ c.op = call[v].op
    BY <1>1, <2>1, AtWork, MpathIs
  <2> HIDE DEF c
  <2> QED
    BY <1>1, <1>2, <2>2, <2>3, GoOnKeeps, AtWork, LeaveIs DEF Follows
<1>4. CASE Fail(v)
  BY <1>1, <1>2, <1>4, EndKeeps, AtWork, LeaveIs
<1> QED
  BY <1>3, <1>4 DEF Resolve

\* Only here a call learns whose device it has.
LEMMA VerifyKeeps ==
    ASSUME IInv, NEW v \in Volumes, Verify(v)
    PROVE  Kept(v)
<1> DEFINE l == IF call[v].op = "stage" THEN "mount" ELSE "bind"
<1>1. pc[v] = "verify" /\ pc[v] # "idle" /\ TypeOK /\ DisksDistinct
  BY DEF Verify, IInv
<1>2. Still /\ Verdicts(v) /\ Rest
  BY <1>1, SameRest, FaultIs, LeaveIs
     DEF Verify, kernel, mounts, sizes, Still, Verdicts, Rest
<1>3. Follows(call[v].op, l) /\ l \notin {"wait", "deleteNode"}
  BY <1>1, AtWork DEF Follows
<1>4. CASE Goto(v, l) /\ (Device(v) = v \/ v \in unverified')
  <2>1. v \notin unverified' => OwnDevice(v)
    BY <1>1, <1>4, DeviceIs
  <2> QED
    BY <1>1, <1>2, <1>3, <1>4, <2>1, GoOnKeeps, AtWork, LeaveIs
<1>5. CASE Fail(v)
  BY <1>1, <1>2, <1>5, EndKeeps, AtWork, LeaveIs
<1> QED
  BY <1>4, <1>5 DEF Verify

LEMMA GrowKeeps ==
    ASSUME IInv, NEW v \in Volumes, Grow(v)
    PROVE  Kept(v)
<1>1. pc[v] = "grow" /\ pc[v] # "idle" /\ TypeOK
  BY DEF Grow, IInv
<1>2. Still /\ Verdicts(v) /\ Rest
  BY <1>1, SameRest, FaultIs, LeaveIs
     DEF Grow, kernel, mounts, ledger, Still, Verdicts, Rest
<1> QED
  BY <1>1, <1>2, EndKeeps, AtWork, LeaveIs DEF Grow

LEMMA FlushKeeps ==
    ASSUME IInv, NEW v \in Volumes, Flush(v)
    PROVE  Kept(v)
<1>1. pc[v] = "flush" /\ pc[v] # "idle" /\ TypeOK
  BY DEF Flush, IInv
<1>2. Still /\ Verdicts(v) /\ Rest
  BY <1>1, SameRest, FaultIs, LeaveIs
     DEF Flush, kernel, mounts, sizes, ledger, Still, Verdicts, Rest
<1>3. CASE GotoWith(v, "logout", [call[v] EXCEPT !.flushed = TRUE])
  BY <1>1, <1>2, <1>3, GoOnKeeps, AtWork, FlushedIs, LeaveIs DEF Follows
<1>4. CASE Goto(v, "logout")
  BY <1>1, <1>2, <1>4, GoOnKeeps, AtWork, LeaveIs DEF Follows
<1> QED
  BY <1>3, <1>4 DEF Flush

LEMMA RescanKeeps ==
    ASSUME IInv, NEW v \in Volumes, Rescan(v)
    PROVE  Kept(v)
<1>1. pc[v] = "rescan" /\ pc[v] # "idle" /\ TypeOK
  BY DEF Rescan, IInv
<1>2. Still /\ Verdicts(v) /\ Rest
  BY <1>1, SameRest, FaultIs, LeaveIs
     DEF Rescan, kernel, mounts, ledger, Still, Verdicts, Rest
<1>3. CASE Goto(v, "resize")
  BY <1>1, <1>2, <1>3, GoOnKeeps, AtWork, LeaveIs DEF Follows
<1>4. CASE Fail(v)
  BY <1>1, <1>2, <1>4, EndKeeps, AtWork, LeaveIs
<1> QED
  BY <1>3, <1>4 DEF Rescan

LEMMA ResizeKeeps ==
    ASSUME IInv, NEW v \in Volumes, Resize(v)
    PROVE  Kept(v)
<1>1. pc[v] = "resize" /\ pc[v] # "idle" /\ TypeOK
  BY DEF Resize, IInv
<1>2. Still /\ Verdicts(v) /\ Rest
  BY <1>1, SameRest, FaultIs, LeaveIs
     DEF Resize, kernel, mounts, ledger, Still, Verdicts, Rest
<1> QED
  BY <1>1, <1>2, EndKeeps, AtWork, LeaveIs DEF Resize

-----------------------------------------------------------------------------
(* Steps that change the host's disks and mounts.                          *)

\* A step at work on the host keeps what a call's labels rest on.
LEMMA HostKeeps ==
    ASSUME IInv, NEW v \in Volumes, Host(v), Rest, DisksDistinct',
           NEW l \in Labels, NEW c \in CallData, NEW k \in Phases, Moves(v, l, c, k),
           pc'[v] = l /\ call'[v] = c /\ kubelet'[v] = k => LocalInv(v)'
    PROVE  Kept(v)
<1>1. /\ TypeOK' /\ Alone(v)
      /\ pc'[v] = l /\ call'[v] = c /\ kubelet'[v] = k
  BY HostIs DEF IInv
<1> QED
  BY <1>1 DEF Kept

LEMMA Changed ==
    ASSUME TypeOK, NEW v \in Volumes
    PROVE  /\ \A f : disk' = [disk EXCEPT ![v] = f] => disk'[v] = f
           /\ \A f : link' = [link EXCEPT ![v] = f] => link'[v] = f
           /\ \A o : staged' = [staged EXCEPT ![v] = o] => staged'[v] = o
           /\ \A o : published' = [published EXCEPT ![v] = o] => published'[v] = o
  BY DEF TypeOK

\* A discovery makes no record of a volume that is off the node but counts it.
LEMMA DiscoverIs ==
    ASSUME TypeOK, NEW v \in Volumes, NEW p \in Portals, Discover(v, p)
    PROVE  Records(v)
<1>1. PICK shown \in {{p}, Portals} :
        /\ record' = [w \in Volumes |-> record[w] \cup shown]
        /\ remade' = remade \cup {w \in Volumes \ {v} :
                                kubelet[w] = "out" /\ DsmPortal \in shown \ record[w]}
  BY DEF Discover
<1>2. record \in [Volumes -> SUBSET Portals] /\ remade \subseteq Volumes
  BY DEF TypeOK
<1>3. record' \in [Volumes -> SUBSET Portals] /\ remade' \subseteq Volumes
  BY <1>1, <1>2
<1>4. \A w \in Volumes \ {v} : kubelet[w] = "out" /\ Leftover(w)' => Leftover(w)
  BY <1>1, <1>2 DEF Leftover
<1> QED
  BY <1>3, <1>4 DEF Records

LEMMA LoginPortalKeeps ==
    ASSUME IInv, NEW v \in Volumes, LoginPortal(v)
    PROVE  Kept(v)
<1> DEFINE p == NextPortal(call[v].left)
<1>1. pc[v] = "login" /\ pc[v] # "idle" /\ TypeOK /\ LocalInv(v)
  BY DEF LoginPortal, IInv
<1>2. Rest
  BY <1>1, SameRest, FaultIs, LeaveIs DEF LoginPortal, Rest
<1>3. call[v].left # {} => p \in Portals
  BY <1>1, Types, ConstantsAssumption DEF NextPortal
<1>4. UNCHANGED <<link, staged, published, unverified, swallowed>>
  BY DEF LoginPortal, mounts, ledger
<1>5. CASE /\ UNCHANGED <<disk, record, remade>>
           /\ Goto(v, "resolve") \/ (call[v].left # {} /\ Goto(v, "wait"))
  <2>1. Still /\ Verdicts(v)
    BY <1>4, <1>5 DEF Still, Verdicts
  <2> QED
    BY <1>1, <1>2, <1>5, <2>1, GoOnKeeps, AtWork, LeaveIs DEF Follows
<1>6. ASSUME call[v].left # {}, p \notin Session(v), NEW d \in Free,
             disk' = [disk EXCEPT ![v][p] = d],
             Discover(v, p), Goto(v, "wait")
      PROVE  Kept(v)
  <2> HIDE DEF p
  <2>1. d \in Disks /\ \A w \in Volumes, q \in Portals : disk[w][q] # d
    BY DEF Free
  <2>2. DisksDistinct'
    BY <1>1, <1>3, <1>6, <2>1 DEF IInv, TypeOK, DisksDistinct
  <2>3. Host(v)
    <3> DEFINE f == [disk[v] EXCEPT ![p] = d]
    <3>1. f \in [Portals -> Disks \cup {None}]
      BY <1>1, <1>3, <1>6, <2>1, Types
    <3>2. disk' = [disk EXCEPT ![v] = f]
      BY <1>6
    <3>3. Records(v)
      BY <1>1, <1>3, <1>6, DiscoverIs
    <3> HIDE DEF f
    <3> QED
      BY <1>1, <1>4, <3>1, <3>2, <3>3 DEF Host
  <2>4. Moves(v, "wait", call[v], kubelet[v]) /\ "wait" \in Labels
    BY <1>1, <1>6, LeaveIs DEF Labels
  <2>5. call[v].op \in {"stage", "publish"} /\ kubelet[v] # "out"
    BY <1>1, AtWork DEF LocalInv, Working
  <2>6. ASSUME pc'[v] = "wait" /\ call'[v] = call[v] /\ kubelet'[v] = kubelet[v]
        PROVE  LocalInv(v)'
    BY <1>1, <1>4, <1>6, <2>5, <2>6 DEF LocalInv, Working, Pure
  <2> QED
    BY <1>1, <1>2, <2>2, <2>3, <2>4, <2>6, HostKeeps, AtWork
<1>7. ASSUME call[v].left # {}, Discover(v, p) \/ UNCHANGED <<record, remade>>,
             Fail(v), UNCHANGED disk
      PROVE  Kept(v)
  <2> HIDE DEF p
  <2>1. DisksDistinct'
    BY <1>7 DEF IInv, DisksDistinct
  <2>2. Records(v) \/ UNCHANGED <<record, remade>>
    BY <1>1, <1>3, <1>7, DiscoverIs
  <2>3. Host(v)
    BY <1>4, <1>7, <2>2 DEF Host
  <2>4. Moves(v, "idle", NoCall, kubelet[v]) /\ "idle" \in Labels
    BY <1>1, <1>7, LeaveIs DEF Labels
  <2>5. kubelet[v] # "out"
    BY <1>1 DEF LocalInv, Working
  <2>6. ASSUME pc'[v] = "idle" /\ call'[v] = NoCall /\ kubelet'[v] = kubelet[v]
        PROVE  LocalInv(v)'
    BY <1>1, <1>4, <1>7, <2>5, <2>6 DEF LocalInv, Working, Pure
  <2> QED
    BY <1>1, <1>2, <2>1, <2>3, <2>4, <2>6, HostKeeps, AtWork, NoCallIs
<1> QED
  BY <1>5, <1>6, <1>7 DEF LoginPortal

LEMMA MountKeeps ==
    ASSUME IInv, NEW v \in Volumes, Mount(v)
    PROVE  Kept(v)
<1>1. pc[v] = "mount" /\ pc[v] # "idle" /\ TypeOK /\ DisksDistinct /\ LocalInv(v)
  BY DEF Mount, IInv
<1>2. Rest
  BY <1>1, SameRest, FaultIs, LeaveIs DEF Mount, sizes, Rest
<1>3. UNCHANGED <<disk, link, record, remade, published, unverified, swallowed>>
  BY DEF Mount, kernel, ledger
<1>4. CASE UNCHANGED staged /\ (Return(v) \/ Fail(v))
  <2>1. Still /\ Verdicts(v)
    BY <1>3, <1>4 DEF Still, Verdicts
  <2> QED
    BY <1>1, <1>2, <1>4, <2>1, EndKeeps, AtWork, LeaveIs
<1>5. ASSUME staged' = [staged EXCEPT ![v] = Device(v)], Goto(v, "grow")
      PROVE  Kept(v)
  <2>1. Device(v) \in Volumes \cup {None} /\ (OwnDevice(v) => Device(v) \in {v, None})
    BY <1>1, DeviceIs
  <2>2. Host(v) /\ disk'[v] = disk[v] /\ staged'[v] = Device(v) /\ published'[v] = published[v]
    BY <1>1, <1>3, <1>5, <2>1, Changed DEF Host
  <2>3. Moves(v, "grow", call[v], kubelet[v]) /\ "grow" \in Labels
    BY <1>1, <1>5, LeaveIs DEF Labels
  <2>4. call[v].op = "stage" /\ kubelet[v] # "out"
    BY <1>1, AtWork DEF LocalInv, Working
  <2>5. ASSUME pc'[v] = "grow" /\ call'[v] = call[v] /\ kubelet'[v] = kubelet[v]
        PROVE  LocalInv(v)'
    BY <1>1, <1>3, <2>1, <2>2, <2>4, <2>5 DEF LocalInv, Working, Pure
  <2>6. DisksDistinct'
    BY <1>1, <1>3 DEF DisksDistinct
  <2> QED
    BY <1>1, <1>2, <2>2, <2>3, <2>5, <2>6, HostKeeps, AtWork
<1> QED
  BY <1>4, <1>5 DEF Mount

\* A filesystem is bound from where it is staged, a raw block volume from its device.
LEMMA BindKeeps ==
    ASSUME IInv, NEW v \in Volumes, Bind(v)
    PROVE  Kept(v)
<1> DEFINE source == IF v \in Block THEN Device(v) ELSE staged[v]
<1>1. pc[v] = "bind" /\ pc[v] # "idle" /\ TypeOK /\ DisksDistinct /\ LocalInv(v)
  BY DEF Bind, IInv
<1>2. Rest
  BY <1>1, SameRest, FaultIs, LeaveIs DEF Bind, sizes, Rest
<1>3. UNCHANGED <<disk, link, record, remade, staged, unverified, swallowed>>
  BY DEF Bind, kernel, ledger
<1>4. CASE UNCHANGED published /\ Fail(v)
  <2>1. Still /\ Verdicts(v)
    BY <1>3, <1>4 DEF Still, Verdicts
  <2> QED
    BY <1>1, <1>2, <1>4, <2>1, EndKeeps, AtWork, LeaveIs
<1>5. ASSUME published' = [published EXCEPT ![v] = source], Return(v)
      PROVE  Kept(v)
  <2>1. source \in Volumes \cup {None} /\ (Pure(v) => source \in {v, None})
    BY <1>1, DeviceIs, Types DEF Pure
  <2> HIDE DEF source
  <2>2. Host(v) /\ disk'[v] = disk[v] /\ staged'[v] = staged[v] /\ published'[v] = source
    BY <1>1, <1>3, <1>5, <2>1, Changed DEF Host
  <2>3. call[v].op = "publish" /\ kubelet[v] = "publishing" /\ Reached(call[v].op) = "published"
    BY <1>1, AtWork DEF LocalInv, Working, Reached
  <2>4. PICK k \in {"publishing", "published"} : Moves(v, "idle", NoCall, k)
    BY <1>1, <1>5, <2>3, LeaveIs
  <2>5. k \in Phases /\ "idle" \in Labels
    BY DEF Phases, Labels
  <2>6. ASSUME pc'[v] = "idle" /\ call'[v] = NoCall /\ kubelet'[v] = k
        PROVE  LocalInv(v)'
    BY <1>1, <1>3, <2>1, <2>2, <2>6 DEF LocalInv, Working, Pure
  <2>7. DisksDistinct'
    BY <1>1, <1>3 DEF DisksDistinct
  <2> QED
    BY <1>1, <1>2, <2>2, <2>4, <2>5, <2>6, <2>7, HostKeeps, NoCallIs
<1> QED
  BY <1>4, <1>5 DEF Bind

\* A logout that reports nothing wrong leaves no session.
LEMMA LogoutKeeps ==
    ASSUME IInv, NEW v \in Volumes, Logout(v)
    PROVE  Kept(v)
<1>1. pc[v] = "logout" /\ pc[v] # "idle" /\ TypeOK /\ DisksDistinct /\ LocalInv(v)
  BY DEF Logout, IInv
<1>2. Rest
  BY <1>1, SameRest, FaultIs, LeaveIs DEF Logout, sizes, Rest
<1>3. UNCHANGED <<link, record, remade, staged, published, unverified>>
  BY DEF Logout, mounts
<1>4. call[v].op = "unstage" /\ kubelet[v] = "staging"
  BY <1>1, AtWork DEF LocalInv, Working
<1>5. CASE UNCHANGED disk /\ swallowed' = swallowed \cup {v} /\ Goto(v, "deleteNode")
  <2>1. Still /\ Verdicts(v) /\ v \in swallowed'
    BY <1>3, <1>5 DEF Still, Verdicts
  <2> QED
    BY <1>1, <1>2, <1>4, <1>5, <2>1, GoOnKeeps, AtWork, LeaveIs DEF Follows
<1>6. ASSUME NEW keep \in SUBSET Session(v), NEW l \in Labels, NEW c \in CallData,
             NEW k \in Phases, Moves(v, l, c, k),
             disk' = [disk EXCEPT ![v] = [p \in Portals |->
                        IF p \in keep THEN disk[v][p] ELSE None]],
             \/ /\ l = "deleteNode" /\ c = call[v] /\ k = kubelet[v]
                /\ keep = {} /\ swallowed' = swallowed
             \/ l = "idle" /\ k = "out" /\ swallowed' = swallowed \cup {v}
      PROVE  Kept(v)
  <2> DEFINE f == [p \in Portals |-> IF p \in keep THEN disk[v][p] ELSE None]
  <2>1. f \in [Portals -> Disks \cup {None}] /\ \A p \in Portals : f[p] \in {disk[v][p], None}
    BY <1>1, Types
  <2>2. keep = {} => \A p \in Portals : f[p] = None
    OBVIOUS
  <2>3. disk' = [disk EXCEPT ![v] = f]
    BY <1>6
  <2> HIDE DEF f
  <2>4. Host(v) /\ disk'[v] = f /\ staged'[v] = staged[v] /\ published'[v] = published[v]
    BY <1>1, <1>3, <1>6, <2>1, <2>3, Changed DEF Host
  <2>5. DisksDistinct'
    BY <1>1, <2>1, <2>3 DEF TypeOK, DisksDistinct
  <2>6. ASSUME pc'[v] = l /\ call'[v] = c /\ kubelet'[v] = k
        PROVE  LocalInv(v)'
    <3>1. keep = {} => Session(v)' = {}
      BY <2>2, <2>4 DEF Session
    <3> QED
      BY <1>1, <1>3, <1>4, <1>6, <2>4, <2>6, <3>1 DEF LocalInv, Working, Pure
  <2> QED
    BY <1>2, <1>6, <2>4, <2>5, <2>6, HostKeeps
<1>7. CASE /\ disk' = [disk EXCEPT ![v] = [p \in Portals |-> None]]
           /\ Goto(v, "deleteNode") /\ UNCHANGED swallowed
  <2>1. {} \in SUBSET Session(v) /\ "deleteNode" \in Labels
    BY DEF Labels
  <2>2. disk' = [disk EXCEPT ![v] = [p \in Portals |->
                        IF p \in {} THEN disk[v][p] ELSE None]]
    BY <1>7
  <2>3. Moves(v, "deleteNode", call[v], kubelet[v])
    BY <1>1, <1>7, LeaveIs
  <2> QED
    BY <1>1, <1>6, <1>7, <2>1, <2>2, <2>3, AtWork
<1>8. ASSUME NEW keep \in SUBSET Session(v), Swallow(v),
             disk' = [disk EXCEPT ![v] = [p \in Portals |->
                        IF p \in keep THEN disk[v][p] ELSE None]]
      PROVE  Kept(v)
  <2>1. "idle" \in Labels /\ "out" \in Phases
    BY DEF Labels, Phases
  <2>2. Moves(v, "idle", NoCall, "out") /\ swallowed' = swallowed \cup {v}
    BY <1>1, <1>8, LeaveIs
  <2> QED
    BY <1>6, <1>8, <2>1, <2>2, NoCallIs
<1> QED
  BY <1>5, <1>7, <1>8 DEF Logout

LEMMA DeleteNodeKeeps ==
    ASSUME IInv, NEW v \in Volumes, DeleteNode(v)
    PROVE  Kept(v)
<1>1. pc[v] = "deleteNode" /\ pc[v] # "idle" /\ TypeOK /\ DisksDistinct /\ LocalInv(v)
  BY DEF DeleteNode, IInv
<1>2. Rest
  BY <1>1, SameRest, FaultIs, LeaveIs DEF DeleteNode, sizes, Rest
<1>3. UNCHANGED <<disk, link, staged, published, unverified>>
  BY DEF DeleteNode, mounts
<1>4. call[v].op = "unstage" /\ kubelet[v] = "staging" /\ Reached(call[v].op) = "out"
  BY <1>1, AtWork DEF LocalInv, Working, Reached
<1>5. CASE Swallow(v) /\ UNCHANGED <<record, remade>>
  <2>1. Still /\ Verdicts(v) /\ "out" \in Phases /\ v \in swallowed'
    BY <1>3, <1>5 DEF Still, Verdicts, Phases, Swallow
  <2> QED
    BY <1>1, <1>2, <1>4, <1>5, <2>1, EndKeeps, AtWork, LeaveIs
<1>6. CASE /\ record' = [record EXCEPT ![v] = record[v] \ {DsmPortal}]
           /\ Return(v) /\ UNCHANGED <<swallowed, remade>>
  <2>1. Records(v) /\ DsmPortal \notin record'[v]
    <3>1. record \in [Volumes -> SUBSET Portals] /\ remade \subseteq Volumes
      BY <1>1 DEF TypeOK
    <3> QED
      BY <1>6, <3>1 DEF Records, Leftover
  <2>2. ~Leftover(v)'
    BY <2>1 DEF Leftover
  <2>3. /\ Host(v) /\ disk'[v] = disk[v]
        /\ staged'[v] = staged[v] /\ published'[v] = published[v]
    BY <1>3, <1>6, <2>1 DEF Host
  <2>4. PICK k \in {"staging", "out"} : Moves(v, "idle", NoCall, k)
    BY <1>1, <1>4, <1>6, LeaveIs
  <2>5. k \in Phases /\ "idle" \in Labels
    BY DEF Phases, Labels
  <2>6. ASSUME pc'[v] = "idle" /\ call'[v] = NoCall /\ kubelet'[v] = k
        PROVE  LocalInv(v)'
    <3>1. Session(v)' = Session(v)
      BY <1>3 DEF Session
    <3> QED
      BY <1>1, <1>3, <1>4, <1>6, <2>2, <2>3, <2>6, <3>1 DEF LocalInv, Working, Pure
  <2>7. DisksDistinct'
    BY <1>1, <1>3 DEF DisksDistinct
  <2> QED
    BY <1>2, <2>3, <2>4, <2>5, <2>6, <2>7, HostKeeps, NoCallIs
<1> QED
  BY <1>5, <1>6 DEF DeleteNode

-----------------------------------------------------------------------------
(* The kubelet's calls, and steps of the host, the DSM and the process.    *)

\* While no call is at work on v, only these of its parts are of account.
LEMMA AtRestKeeps ==
    ASSUME IInv, NEW v \in Volumes, Host(v), Rest, UNCHANGED disk,
           NEW l \in {"idle", "lookup"}, NEW c \in CallData, NEW k \in Phases,
           Moves(v, l, c, k),
           k = "out" => /\ kubelet[v] = "out" /\ UNCHANGED swallowed
                        /\ Leftover(v)' => Leftover(v),
           k \in {"out", "staging", "staged"} => published'[v] = None,
           v \notin unverified' => staged'[v] \in {v, None} /\ published'[v] \in {v, None},
           l = "lookup" => \/ c.op \in {"stage", "unstage"} /\ k = "staging"
                           \/ c.op = "publish" /\ k = "publishing"
                           \/ c.op = "expand" /\ k = "published"
    PROVE  Kept(v)
<1>1. l \in Labels /\ LocalInv(v)
  BY DEF Labels, IInv
<1>2. DisksDistinct'
  BY DEF IInv, DisksDistinct
<1>3. ASSUME pc'[v] = l /\ call'[v] = c /\ kubelet'[v] = k
      PROVE  LocalInv(v)'
  <2>1. Session(v)' = Session(v)
    BY DEF Session
  <2> QED
    BY <1>1, <1>3, <2>1 DEF LocalInv, Working, Pure
<1> QED
  BY <1>1, <1>2, <1>3, HostKeeps

LEMMA BeginIs ==
    ASSUME NEW v, NEW o \in Ops, NEW k, Begin(v, o, k)
    PROVE  /\ pc[v] = "idle" /\ Moves(v, "lookup", NewCall(o), k)
           /\ NewCall(o) \in CallData /\ NewCall(o).op = o
  BY NewCallIs DEF Begin, Moves

LEMMA OKIs ==
    ASSUME TypeOK, NEW v \in Volumes, NEW o \in Ops, OK(v, o), pc[v] = "idle",
           UNCHANGED <<pc, call>>
    PROVE  /\ Moves(v, "idle", call[v], Reached(o)) \/ Moves(v, "idle", call[v], kubelet[v])
           /\ wanted' \subseteq Volumes /\ faults' \in 0..MaxFaults
           /\ call[v] \in CallData /\ kubelet[v] \in Phases /\ Reached(o) \in Phases
<1>1. pc' = [pc EXCEPT ![v] = "idle"] /\ call' = [call EXCEPT ![v] = call[v]]
  BY Same
<1>2. kubelet = [kubelet EXCEPT ![v] = kubelet[v]] /\ wanted \subseteq Volumes
  BY Same
<1>3. faults' \in 0..MaxFaults
  BY FaultIs DEF OK
<1>4. Reached(o) \in Phases
  BY DEF Reached, Ops, Phases
<1> QED
  BY <1>1, <1>2, <1>3, <1>4, Types DEF OK, Moves

LEMMA StageKeeps ==
    ASSUME IInv, NEW v \in Volumes, NodeStageVolume(v)
    PROVE  Kept(v)
<1>1. TypeOK /\ LocalInv(v)
  BY DEF IInv
<1>2. /\ kubelet[v] \in {"out", "staging"} /\ published[v] = None
      /\ UNCHANGED <<disk, link, record, staged, published, unverified, swallowed, small,
                     stale, dirty, pod, crashes>>
      /\ remade' = {w \in remade : kubelet'[w] = "out"}
  BY <1>1 DEF NodeStageVolume, kernel, mounts, sizes, LocalInv
<1>3. ASSUME NEW k \in Phases, kubelet' = [kubelet EXCEPT ![v] = k]
      PROVE  /\ Host(v)
             /\ k = "out" => (Leftover(v)' => Leftover(v))
  <2>1. \A w \in Volumes : kubelet'[w] = "out" => (w \in remade' <=> w \in remade)
    BY <1>2
  <2>2. Records(v)
    BY <1>1, <1>2, <1>3, <2>1 DEF Records, Leftover, TypeOK
  <2>3. k = "out" => (Leftover(v)' => Leftover(v))
    BY <1>1, <1>2, <1>3, <2>1 DEF Leftover, TypeOK
  <2> QED
    BY <1>2, <2>2, <2>3 DEF Host
<1>4. v \notin unverified' => staged'[v] \in {v, None} /\ published'[v] \in {v, None}
  BY <1>1, <1>2 DEF LocalInv, Pure
<1>5. "stage" \in Ops /\ "staging" \in Phases
  BY DEF Ops, Phases
<1>6. CASE Begin(v, "stage", "staging") /\ NoFault /\ UNCHANGED wanted
  <2>1. Rest
    BY <1>1, <1>2, <1>6, SameRest, FaultIs DEF Rest
  <2>2. Host(v)
    BY <1>3, <1>5, <1>6 DEF Begin
  <2> QED
    BY <1>2, <1>4, <1>5, <1>6, <2>1, <2>2, BeginIs, AtRestKeeps
<1>7. CASE pc[v] = "idle" /\ OK(v, "stage") /\ UNCHANGED <<pc, call>>
  <2>1. Rest
    BY <1>1, <1>2, <1>5, <1>7, SameRest, OKIs DEF Rest
  <2>2. Reached("stage") = "staged"
    BY DEF Reached
  <2>3. PICK k \in {"staged", kubelet[v]} : k \in Phases /\ Moves(v, "idle", call[v], k)
    BY <1>1, <1>5, <1>7, <2>2, OKIs
  <2>4. Host(v) /\ (k = "out" => (Leftover(v)' => Leftover(v)))
    BY <1>3, <2>3 DEF Moves
  <2>5. k = "out" => kubelet[v] = "out"
    BY <2>3
  <2>6. call[v] \in CallData
    BY <1>1, Types
  <2> QED
    BY <1>1, <1>2, <1>4, <2>1, <2>3, <2>4, <2>5, <2>6, AtRestKeeps
<1> QED
  BY <1>6, <1>7 DEF NodeStageVolume

LEMMA PublishKeeps ==
    ASSUME IInv, NEW v \in Volumes, NodePublishVolume(v)
    PROVE  Kept(v)
<1>1. TypeOK /\ LocalInv(v)
  BY DEF IInv
<1>2. /\ kubelet[v] \in {"staged", "publishing"}
      /\ UNCHANGED <<disk, link, record, remade, staged, published, unverified, swallowed, small,
                     stale, dirty, pod, crashes>>
  BY DEF NodePublishVolume, kernel, mounts, sizes, ledger
<1>3. Host(v)
  BY <1>2 DEF Host
<1>4. v \notin unverified' => staged'[v] \in {v, None} /\ published'[v] \in {v, None}
  BY <1>1, <1>2 DEF LocalInv, Pure
<1>5. "publish" \in Ops /\ "publishing" \in Phases
  BY DEF Ops, Phases
<1>6. CASE Begin(v, "publish", "publishing") /\ NoFault /\ UNCHANGED wanted
  <2>1. Rest
    BY <1>1, <1>2, <1>6, SameRest, FaultIs DEF Rest
  <2> QED
    BY <1>2, <1>3, <1>4, <1>5, <1>6, <2>1, BeginIs, AtRestKeeps
<1>7. CASE published[v] # None /\ pc[v] = "idle" /\ OK(v, "publish") /\ UNCHANGED <<pc, call>>
  <2>1. Rest
    BY <1>1, <1>2, <1>5, <1>7, SameRest, OKIs DEF Rest
  <2>2. Reached("publish") = "published" /\ kubelet[v] = "publishing"
    BY <1>1, <1>2, <1>7 DEF Reached, LocalInv
  <2> QED
    BY <1>1, <1>2, <1>3, <1>4, <1>5, <1>7, <2>1, <2>2, OKIs, AtRestKeeps
<1> QED
  BY <1>6, <1>7 DEF NodePublishVolume

LEMMA UnpublishKeeps ==
    ASSUME IInv, NEW v \in Volumes, NodeUnpublishVolume(v)
    PROVE  Kept(v)
<1>1. TypeOK /\ LocalInv(v)
  BY DEF IInv
<1>2. /\ kubelet[v] \in {"publishing", "published"} /\ pc[v] = "idle"
      /\ UNCHANGED <<disk, link, record, remade, staged, unverified, swallowed, small,
                     stale, dirty, pod, crashes, pc, call>>
  BY DEF NodeUnpublishVolume, kernel, sizes, ledger
<1>3. "unpublish" \in Ops
  BY DEF Ops
<1>4. CASE published' = [published EXCEPT ![v] = None] /\ OK(v, "unpublish")
  <2>1. published'[v] = None
    BY <1>1, <1>4, Changed
  <2>2. Host(v)
    BY <1>2, <1>4 DEF Host
  <2>3. v \notin unverified' => staged'[v] \in {v, None} /\ published'[v] \in {v, None}
    BY <1>1, <1>2, <2>1 DEF LocalInv, Pure
  <2>4. Rest
    BY <1>1, <1>2, <1>3, <1>4, SameRest, OKIs DEF Rest
  <2>5. Reached("unpublish") = "staged"
    BY DEF Reached
  <2> QED
    BY <1>1, <1>2, <1>3, <1>4, <2>1, <2>2, <2>3, <2>4, <2>5, OKIs, AtRestKeeps
<1>5. CASE Fault /\ UNCHANGED <<published, kubelet, wanted>>
  <2>1. Host(v)
    BY <1>2, <1>5 DEF Host
  <2>2. v \notin unverified' => staged'[v] \in {v, None} /\ published'[v] \in {v, None}
    BY <1>1, <1>2, <1>5 DEF LocalInv, Pure
  <2>3. Rest
    BY <1>1, <1>2, <1>5, SameRest, FaultIs DEF Rest
  <2>4. Moves(v, "idle", call[v], kubelet[v])
    BY <1>1, <1>2, <1>5, Same DEF Moves
  <2> QED
    BY <1>1, <1>2, <1>5, <2>1, <2>2, <2>3, <2>4, Types, AtRestKeeps
<1> QED
  BY <1>4, <1>5 DEF NodeUnpublishVolume

\* What was not verified is gone from the pod before the volume is unstaged.
LEMMA UnstageKeeps ==
    ASSUME IInv, NEW v \in Volumes, NodeUnstageVolume(v)
    PROVE  Kept(v)
<1>1. TypeOK /\ LocalInv(v)
  BY DEF IInv
<1>2. /\ kubelet[v] \in {"staging", "staged"} /\ published[v] = None
      /\ UNCHANGED <<disk, link, record, remade, published, small, stale, dirty, pod, wanted,
                     crashes>>
  BY <1>1 DEF NodeUnstageVolume, kernel, sizes, ledger, LocalInv
<1>3. "unstage" \in Ops /\ "staging" \in Phases
  BY DEF Ops, Phases
<1>4. CASE /\ staged' = [staged EXCEPT ![v] = None] /\ Begin(v, "unstage", "staging")
           /\ unverified' = unverified \ {v} /\ swallowed' = swallowed \ {v} /\ NoFault
  <2>1. staged'[v] = None
    BY <1>1, <1>4, Changed
  <2>2. Host(v)
    BY <1>2, <1>4 DEF Host
  <2>3. Rest
    BY <1>1, <1>2, <1>4, SameRest, FaultIs DEF Rest
  <2> QED
    BY <1>2, <1>3, <1>4, <2>1, <2>2, <2>3, BeginIs, AtRestKeeps
<1>5. CASE /\ pc[v] = "idle" /\ kubelet' = [kubelet EXCEPT ![v] = "staging"] /\ Fault
           /\ UNCHANGED <<staged, pc, call, unverified, swallowed>>
  <2>1. Host(v)
    BY <1>2, <1>5 DEF Host
  <2>2. v \notin unverified' => staged'[v] \in {v, None} /\ published'[v] \in {v, None}
    BY <1>1, <1>2, <1>5 DEF LocalInv, Pure
  <2>3. Rest
    BY <1>1, <1>2, <1>5, SameRest, FaultIs DEF Rest
  <2>4. Moves(v, "idle", call[v], "staging")
    BY <1>1, <1>2, <1>5, Same DEF Moves
  <2> QED
    BY <1>1, <1>2, <1>3, <1>5, <2>1, <2>2, <2>3, <2>4, Types, AtRestKeeps
<1> QED
  BY <1>4, <1>5 DEF NodeUnstageVolume, ledger

LEMMA ExpandKeeps ==
    ASSUME IInv, NEW v \in Volumes, NodeExpandVolume(v)
    PROVE  Kept(v)
<1>1. TypeOK /\ LocalInv(v)
  BY DEF IInv
<1>2. UNCHANGED <<disk, link, record, remade, staged, published, unverified, swallowed, small,
                  stale, dirty, pod, wanted, faults, crashes>>
  BY DEF NodeExpandVolume, kernel, mounts, sizes, ledger
<1>3. Begin(v, "expand", "published") /\ "expand" \in Ops /\ "published" \in Phases
  BY DEF NodeExpandVolume, Ops, Phases
<1>4. Host(v) /\ Rest
  BY <1>1, <1>2, SameRest DEF Host, Rest
<1>5. v \notin unverified' => staged'[v] \in {v, None} /\ published'[v] \in {v, None}
  BY <1>1, <1>2 DEF LocalInv, Pure
<1> QED
  BY <1>2, <1>3, <1>4, <1>5, BeginIs, AtRestKeeps

\* udev brings a link to the session's own disk, or to none.
LEMMA UdevSyncKeeps ==
    ASSUME IInv, NEW v \in Volumes, NEW p \in Portals, UdevSync(v, p)
    PROVE  Kept(v)
<1>1. TypeOK /\ LocalInv(v)
  BY DEF IInv
<1>2. UNCHANGED <<disk, record, remade, staged, published, small, stale, dirty, pc, call, pod,
                  kubelet, wanted, unverified, swallowed, faults, crashes>>
  BY DEF UdevSync, mounts, sizes, orch, ledger
<1> DEFINE f == [link[v] EXCEPT ![p] = disk[v][p]]
<1>3. /\ f \in [Portals -> Disks \cup {None}]
      /\ f[DsmPortal] \in {link[v][DsmPortal], disk[v][DsmPortal]}
  BY <1>1, Types, ConstantsAssumption
<1>4. link' = [link EXCEPT ![v] = f]
  BY DEF UdevSync
<1> HIDE DEF f
<1>5. Host(v) /\ link'[v] = f
  BY <1>1, <1>2, <1>3, <1>4, Changed DEF Host
<1>6. Rest /\ DisksDistinct'
  BY <1>1, <1>2, SameRest DEF Rest, DisksDistinct, IInv
<1>7. Moves(v, pc[v], call[v], kubelet[v])
  BY <1>1, <1>2, Same DEF Moves
<1>8. OwnDevice(v) => OwnDevice(v)'
  BY <1>2, <1>3, <1>5, ConstantsAssumption DEF OwnDevice
<1>9. LocalInv(v)'
  <2>1. Session(v)' = Session(v)
    BY <1>2 DEF Session
  <2> QED
    BY <1>1, <1>2, <1>8, <2>1 DEF LocalInv, Leftover, Working, Pure
<1> QED
  BY <1>1, <1>5, <1>6, <1>7, <1>9, Types, HostKeeps

\* A step that no call and no mount has a part in.
Background ==
    /\ UNCHANGED <<disk, link, record, remade, staged, published, unverified, swallowed,
                   pc, call, kubelet>>
    /\ Rest

LEMMA BackgroundIs ==
    ASSUME TypeOK
    PROVE  /\ \A v \in Volumes :
                PodStart(v) \/ PodStop(v) \/ LunGrown(v) \/ Write(v) => Background
           /\ UNCHANGED vars => Background
<1>1. ASSUME NEW v \in Volumes, PodStart(v) \/ PodStop(v) PROVE Background
  BY <1>1, SameRest DEF PodStart, PodStop, kernel, mounts, sizes, ledger, Background, Rest
<1>2. ASSUME NEW v \in Volumes, LunGrown(v) \/ Write(v) PROVE Background
  BY <1>2, SameRest DEF LunGrown, Write, kernel, mounts, sizes, orch, ledger, Background, Rest
<1>3. UNCHANGED vars => Background
  BY SameRest DEF vars, Background, Rest
<1> QED
  BY <1>1, <1>2, <1>3

LEMMA BackgroundKeeps ==
    ASSUME IInv, Background
    PROVE  IInv'
<1>1. /\ UNCHANGED <<disk, link, record, remade, staged, published, unverified, swallowed,
                     pc, call, kubelet>>
      /\ Rest
  BY DEF Background
<1>2. TypeOK'
  BY <1>1 DEF IInv, TypeOK, Rest
<1>3. DisksDistinct'
  BY <1>1 DEF IInv, DisksDistinct
<1>4. ASSUME NEW v \in Volumes PROVE LocalInv(v)'
  <2>1. LocalInv(v)
    BY DEF IInv
  <2>2. (Working(v)' <=> Working(v)) /\ Session(v)' = Session(v) /\ (Pure(v)' <=> Pure(v))
    BY <1>1 DEF Working, Session, Pure, OwnDevice
  <2> QED
    BY <1>1, <2>1, <2>2 DEF LocalInv, Leftover
<1> QED
  BY <1>2, <1>3, <1>4 DEF IInv

\* A restart ends every call and touches nothing of the host's.
LEMMA CrashKeeps ==
    ASSUME IInv, Crash
    PROVE  IInv'
<1>1. /\ UNCHANGED <<disk, link, record, remade, staged, published, small, stale, dirty, pod,
                     kubelet, wanted, unverified, swallowed, faults>>
      /\ pc' = [v \in Volumes |-> "idle"] /\ call' = [v \in Volumes |-> NoCall]
  BY DEF Crash, kernel, mounts, sizes, orch, ledger
<1>2. TypeOK'
  <2>1. crashes' \in 0..MaxCrashes
    BY ConstantsAssumption DEF Crash, IInv, TypeOK
  <2>2. call' \in [Volumes -> CallData] /\ pc' \in [Volumes -> Labels]
    BY <1>1, NoCallIs DEF Labels
  <2> QED
    BY <1>1, <2>1, <2>2 DEF IInv, TypeOK, CallData
<1>3. DisksDistinct'
  BY <1>1 DEF IInv, DisksDistinct
<1>4. ASSUME NEW v \in Volumes PROVE LocalInv(v)'
  <2>1. LocalInv(v) /\ pc'[v] = "idle"
    BY <1>1 DEF IInv
  <2>2. Session(v)' = Session(v)
    BY <1>1 DEF Session
  <2> QED
    BY <1>1, <2>1, <2>2 DEF LocalInv, Leftover, Working, Pure
<1> QED
  BY <1>2, <1>3, <1>4 DEF IInv

-----------------------------------------------------------------------------
LEMMA IInvInit == Init => IInv
<1> SUFFICES ASSUME Init PROVE IInv
  OBVIOUS
<1>1. TypeOK
  <2>1. call \in [Volumes -> CallData]
    BY NoCallIs DEF Init
  <2> QED
    BY <2>1, ConstantsAssumption DEF Init, TypeOK, CallData, Labels, Phases
<1>2. DisksDistinct
  BY DEF Init, DisksDistinct
<1>3. ASSUME NEW v \in Volumes PROVE LocalInv(v)
  BY ConstantsAssumption DEF Init, LocalInv, Leftover, Working, Pure, Session
<1> QED
  BY <1>1, <1>2, <1>3 DEF IInv

LEMMA IInvNext == IInv /\ [Next]_vars => IInv'
<1> SUFFICES ASSUME IInv, [Next]_vars PROVE IInv'
  OBVIOUS
<1>1. TypeOK
  BY DEF IInv
<1>2. ASSUME NEW v \in Volumes, Call(v) PROVE IInv'
  <2>1. Kept(v)
    BY <1>2, StageKeeps, PublishKeeps, UnpublishKeeps, UnstageKeeps, ExpandKeeps DEF Call
  <2> QED
    BY <2>1, KeptIsEnough
<1>3. ASSUME NEW v \in Volumes, Step(v) PROVE IInv'
  <2>1. Kept(v)
    BY <1>3, LookupKeeps, LoginPortalKeeps, WaitPathKeeps, ResolveKeeps, VerifyKeeps,
       MountKeeps, GrowKeeps, BindKeeps, FlushKeeps, LogoutKeeps, DeleteNodeKeeps,
       RescanKeeps, ResizeKeeps DEF Step
  <2> QED
    BY <2>1, KeptIsEnough
<1>4. ASSUME NEW v \in Volumes, PodStart(v) \/ PodStop(v) \/ LunGrown(v) \/ Write(v)
      PROVE  IInv'
  BY <1>1, <1>4, BackgroundIs, BackgroundKeeps
<1>5. ASSUME NEW v \in Volumes, NEW p \in Portals, UdevSync(v, p) PROVE IInv'
  BY <1>5, UdevSyncKeeps, KeptIsEnough
<1>6. CASE UNCHANGED vars
  BY <1>1, <1>6, BackgroundIs, BackgroundKeeps
<1> QED
  BY <1>2, <1>3, <1>4, <1>5, <1>6, CrashKeeps DEF Next

LEMMA IInvAlways == Spec => []IInv
<1> QED
  BY IInvInit, IInvNext, PTL DEF Spec

-----------------------------------------------------------------------------
(* What it shows.                                                          *)

\* Every variable keeps its type, however the calls for different volumes interleave
\* (the handlers of nodeServer).
THEOREM TypeCorrect == Spec => []TypeOK
<1>1. IInv => TypeOK
  BY DEF IInv
<1> QED
  BY <1>1, IInvAlways, PTL

\* However kernel names are reused and links lag behind, what is mounted for a
\* volume is its own, unless the log says that it could not be verified
\* (verifyIscsiDevice).
THEOREM OwnDisks == Spec => []OwnDisk
<1>1. IInv => OwnDisk
  BY DEF IInv, LocalInv, Pure, OwnDisk
<1> QED
  BY <1>1, IInvAlways, PTL

\* A volume that is off the node has no session at any portal, unless its last
\* unstage met a failure and succeeded all the same (logoutTarget).
THEOREM NoSessionLeft == Spec => []SessionsAccounted
<1>1. IInv => SessionsAccounted
  BY DEF IInv, LocalInv, SessionsAccounted
<1> QED
  BY <1>1, IInvAlways, PTL

\* The node record at the DSM's own address goes with the volume's stay as well,
\* unless an unstage met a failure; what is there besides are the records that
\* discoveries for other volumes have made of it since (logout, deleteNode).
THEOREM NoRecordLeft == Spec => []RecordsAccounted
<1>1. IInv => RecordsAccounted
  BY DEF IInv, LocalInv, Leftover, RecordsAccounted
<1> QED
  BY <1>1, IInvAlways, PTL

-----------------------------------------------------------------------------
(* The device behind what is mounted.  While a volume's own data is        *)
(* mounted, the session at the DSM's own address lasts and the link to it  *)
(* names one of the volume's own disks: only a volume that was resolved    *)
(* and found its own is mounted, udev can only put the link right, and the *)
(* session ends in an unstage, which unmounts first.                       *)

SoundPath(v) ==
    /\ disk[v][DsmPortal] # None
    /\ \E p \in Portals : disk[v][p] # None /\ disk[v][p] = link[v][DsmPortal]

\* What a call has gathered about the path it will mount.
PathOfCall(v) ==
    /\ pc[v] \in {"login", "wait"} /\ DsmPortal \notin call[v].left =>
         disk[v][DsmPortal] # None /\ DsmPortal \in call[v].legs
    /\ pc[v] = "wait" /\ DsmPortal \in call[v].left => disk[v][DsmPortal] # None
    /\ pc[v] \in {"resolve", "verify", "mount", "bind"} =>
         disk[v][DsmPortal] # None /\ DsmPortal \in call[v].legs
    /\ pc[v] \in {"verify", "mount", "bind"} /\ call[v].mpath = v => SoundPath(v)
    /\ pc[v] = "grow" => staged[v] # None
    /\ pc[v] \in {"flush", "logout", "deleteNode"} => staged[v] = None
    /\ pc[v] = "lookup" /\ call[v].op = "unstage" => staged[v] = None

PathInv(v) ==
    /\ PathOfCall(v)
    /\ staged[v] = v => SoundPath(v)
    /\ v \in Block /\ published[v] = v => SoundPath(v)
    /\ v \notin Block /\ kubelet[v] \in {"staged", "publishing", "published"} =>
         staged[v] # None

PInv == \A v \in Volumes : PathInv(v)

\* The volume's disks stay, and its link at the DSM's own address stays or is put right.
DisksStay(v) ==
    /\ \A p \in Portals : disk[v][p] # None => disk'[v][p] = disk[v][p]
    /\ link'[v][DsmPortal] \in {link[v][DsmPortal], disk[v][DsmPortal]}

LEMMA PathStays ==
    ASSUME NEW v \in Volumes, DisksStay(v)
    PROVE  /\ disk[v][DsmPortal] # None => disk'[v][DsmPortal] # None
           /\ SoundPath(v) => SoundPath(v)'
  BY ConstantsAssumption DEF DisksStay, SoundPath

LEMMA MovesTo ==
    ASSUME TypeOK, NEW v \in Volumes, NEW l, NEW c, NEW k, Moves(v, l, c, k)
    PROVE  pc'[v] = l /\ call'[v] = c /\ kubelet'[v] = k
  BY DEF TypeOK, Moves

\* A call that ends leaves only the mounts to answer for.
LEMMA EndPath ==
    ASSUME IInv, NEW v \in Volumes, PathInv(v), pc[v] # "idle", DisksStay(v),
           staged'[v] = staged[v], published'[v] = published[v],
           NEW k \in Phases, Moves(v, "idle", NoCall, k),
           k \in {kubelet[v], Reached(call[v].op), "out"},
           k = "staged" /\ v \notin Block => staged[v] # None
    PROVE  PathInv(v)'
<1>1. pc'[v] = "idle" /\ kubelet'[v] = k
  BY MovesTo DEF IInv
<1>2. SoundPath(v) => SoundPath(v)'
  BY PathStays
<1>3. v \notin Block /\ k \in {"staged", "publishing", "published"} => staged[v] # None
  <2>1. k \in {"publishing", "published"} => kubelet[v] \in {"publishing", "published"}
    BY AtWork DEF LocalInv, Working, Reached
  <2> QED
    BY <2>1 DEF PathInv
<1> QED
  BY <1>1, <1>2, <1>3 DEF PathInv, PathOfCall

\* A call that goes on answers for its label too.
LEMMA GoOnPath ==
    ASSUME IInv, NEW v \in Volumes, PathInv(v), DisksStay(v),
           staged'[v] = staged[v], published'[v] = published[v],
           NEW l, NEW c, Moves(v, l, c, kubelet[v]),
           pc'[v] = l /\ call'[v] = c => PathOfCall(v)'
    PROVE  PathInv(v)'
<1>1. pc'[v] = l /\ call'[v] = c /\ kubelet'[v] = kubelet[v]
  BY MovesTo DEF IInv
<1>2. SoundPath(v) => SoundPath(v)'
  BY PathStays
<1> QED
  BY <1>1, <1>2 DEF PathInv

LEMMA StillStays ==
    ASSUME NEW v \in Volumes, UNCHANGED <<disk, link>>
    PROVE  DisksStay(v)
  BY DEF DisksStay


-----------------------------------------------------------------------------
(* Each action keeps the path of its volume: one lemma per action.         *)

\* Nothing of the host that a path rests on changes, and the call ends.
LEMMA QuietEnd ==
    ASSUME IInv, NEW v \in Volumes, PathInv(v), pc[v] # "idle", DisksStay(v),
           UNCHANGED <<staged, published>>,
           \/ Fail(v) \/ Swallow(v)
           \/ Return(v) /\ (call[v].op = "stage" => staged[v] # None)
    PROVE  PathInv(v)'
<1>1. call[v].op \in Ops /\ kubelet[v] \in Phases /\ Reached(call[v].op) \in Phases
  BY AtWork
<1>2. "out" \in Phases
  BY DEF Phases
<1>3. Reached(call[v].op) = "staged" => call[v].op = "stage"
  BY AtWork DEF LocalInv, Working, Reached
<1>4. kubelet[v] = "staged" => FALSE
  BY AtWork DEF LocalInv, Working
<1>5. PICK k \in Phases :
        /\ Moves(v, "idle", NoCall, k) /\ k \in {kubelet[v], Reached(call[v].op), "out"}
        /\ k = "staged" => staged[v] # None
  BY <1>1, <1>2, <1>3, <1>4, LeaveIs
<1> QED
  BY <1>5, EndPath

LEMMA LookupPath ==
    ASSUME IInv, NEW v \in Volumes, PathInv(v), Lookup(v)
    PROVE  PathInv(v)'
<1>1. /\ pc[v] = "lookup" /\ pc[v] # "idle" /\ DisksStay(v)
      /\ UNCHANGED <<staged, published>>
  BY StillStays DEF Lookup, kernel, mounts
<1>2. ASSUME NEW S \in SUBSET Portals, DsmPortal \in S,
             GotoWith(v, "login", [call[v] EXCEPT !.left = S])
      PROVE  PathInv(v)'
  <2> DEFINE c == [call[v] EXCEPT !.left = S]
  <2>1. c.left = S
    BY <1>1, AtWork DEF CallData
  <2>2. Moves(v, "login", c, kubelet[v])
    BY <1>1, <1>2, LeaveIs
  <2>3. pc'[v] = "login" /\ call'[v] = c => PathOfCall(v)'
    BY <1>2, <2>1 DEF PathOfCall
  <2> HIDE DEF c
  <2> QED
    BY <1>1, <2>2, <2>3, GoOnPath
<1>3. ASSUME Goto(v, IF call[v].op = "unstage" THEN "flush" ELSE "rescan")
      PROVE  PathInv(v)'
  <2> DEFINE l == IF call[v].op = "unstage" THEN "flush" ELSE "rescan"
  <2>1. Moves(v, l, call[v], kubelet[v])
    BY <1>1, <1>3, LeaveIs
  <2>2. l = "flush" => staged[v] = None
    BY <1>1 DEF PathInv, PathOfCall
  <2>3. pc'[v] = l /\ call'[v] = call[v] => PathOfCall(v)'
    BY <1>1, <2>2 DEF PathOfCall
  <2> QED
    BY <1>1, <2>1, <2>3, GoOnPath
<1>4. CASE Fail(v) \/ Swallow(v)
  BY <1>1, <1>4, QuietEnd
<1> QED
  BY <1>2, <1>3, <1>4, ConstantsAssumption DEF Lookup

\* The DSM's own address is the first that is logged in to.
LEMMA LoginPortalPath ==
    ASSUME IInv, NEW v \in Volumes, PathInv(v), LoginPortal(v)
    PROVE  PathInv(v)' /\ DisksStay(v)
<1> DEFINE p == NextPortal(call[v].left)
<1>1. /\ pc[v] = "login" /\ pc[v] # "idle" /\ TypeOK
      /\ UNCHANGED <<link, staged, published>>
  BY DEF LoginPortal, mounts, IInv
<1>2. DsmPortal \in call[v].left => p = DsmPortal
  BY DEF NextPortal
<1>3. DsmPortal \notin call[v].left => disk[v][DsmPortal] # None /\ DsmPortal \in call[v].legs
  BY <1>1 DEF PathInv, PathOfCall
<1>4. CASE call[v].left = {} /\ Goto(v, "resolve") /\ UNCHANGED disk
  <2>1. Moves(v, "resolve", call[v], kubelet[v]) /\ DisksStay(v)
    BY <1>1, <1>4, LeaveIs, StillStays
  <2>2. pc'[v] = "resolve" /\ call'[v] = call[v] => PathOfCall(v)'
    BY <1>3, <1>4 DEF PathOfCall
  <2> QED
    BY <1>1, <2>1, <2>2, GoOnPath
<1>5. CASE call[v].left # {} /\ p \in Session(v) /\ Goto(v, "wait") /\ UNCHANGED disk
  <2>1. Moves(v, "wait", call[v], kubelet[v]) /\ DisksStay(v)
    BY <1>1, <1>5, LeaveIs, StillStays
  <2>2. DsmPortal \in call[v].left => disk[v][DsmPortal] # None
    BY <1>2, <1>5 DEF Session
  <2>3. pc'[v] = "wait" /\ call'[v] = call[v] => PathOfCall(v)'
    BY <1>3, <1>5, <2>2 DEF PathOfCall
  <2> QED
    BY <1>1, <2>1, <2>3, GoOnPath
<1>6. ASSUME call[v].left # {}, p \notin Session(v), NEW d \in Free,
             disk' = [disk EXCEPT ![v][p] = d], Goto(v, "wait")
      PROVE  PathInv(v)' /\ DisksStay(v)
  <2>1. p \in Portals /\ disk[v][p] = None /\ d # None
    BY <1>1, <1>6, Types, ConstantsAssumption DEF NextPortal, Session, Free
  <2> HIDE DEF p
  <2>2. \A q \in Portals : disk'[v][q] = IF q = p THEN d ELSE disk[v][q]
    BY <1>1, <1>6, <2>1 DEF TypeOK
  <2>3. DisksStay(v)
    BY <1>1, <2>1, <2>2 DEF DisksStay
  <2>4. Moves(v, "wait", call[v], kubelet[v])
    BY <1>1, <1>6, LeaveIs
  <2>5. /\ DsmPortal \in call[v].left => disk'[v][DsmPortal] # None
        /\ DsmPortal \notin call[v].left =>
             disk'[v][DsmPortal] # None /\ DsmPortal \in call[v].legs
    BY <1>2, <1>3, <2>1, <2>2, ConstantsAssumption
  <2>6. pc'[v] = "wait" /\ call'[v] = call[v] => PathOfCall(v)'
    BY <2>5 DEF PathOfCall
  <2> QED
    BY <1>1, <2>3, <2>4, <2>6, GoOnPath
<1>7. CASE Fail(v) /\ UNCHANGED disk
  BY <1>1, <1>7, StillStays, QuietEnd
<1> QED
  BY <1>4, <1>5, <1>6, <1>7 DEF LoginPortal

LEMMA WaitPathPath ==
    ASSUME IInv, NEW v \in Volumes, PathInv(v), WaitPath(v)
    PROVE  PathInv(v)'
<1> DEFINE p == NextPortal(call[v].left)
           c == [call[v] EXCEPT !.left = @ \ {p}, !.legs = @ \cup {p}]
<1>1. /\ pc[v] = "wait" /\ pc[v] # "idle" /\ DisksStay(v)
      /\ UNCHANGED <<disk, staged, published>>
  BY StillStays DEF WaitPath, kernel, mounts
<1>2. CASE GotoWith(v, "login", c)
  <2>1. c.left = call[v].left \ {p} /\ c.legs = call[v].legs \cup {p}
    BY <1>1, AtWork DEF CallData
  <2>2. DsmPortal \in call[v].left => p = DsmPortal
    BY DEF NextPortal
  <2> HIDE DEF p
  <2>3. DsmPortal \notin c.left => disk[v][DsmPortal] # None /\ DsmPortal \in c.legs
    BY <1>1, <2>1, <2>2 DEF PathInv, PathOfCall
  <2>4. Moves(v, "login", c, kubelet[v])
    BY <1>1, <1>2, LeaveIs
  <2> HIDE DEF c
  <2>5. pc'[v] = "login" /\ call'[v] = c => PathOfCall(v)'
    BY <1>1, <2>3 DEF PathOfCall
  <2> QED
    BY <1>1, <2>4, <2>5, GoOnPath
<1>3. CASE Fail(v)
  BY <1>1, <1>3, QuietEnd
<1> QED
  BY <1>2, <1>3 DEF WaitPath

\* A multipath device that is the volume's own was found by its links.
LEMMA ResolvePath ==
    ASSUME IInv, NEW v \in Volumes, PathInv(v), Resolve(v)
    PROVE  PathInv(v)'
<1>1. /\ pc[v] = "resolve" /\ pc[v] # "idle" /\ DisksStay(v)
      /\ UNCHANGED <<disk, link, staged, published>>
  BY StillStays DEF Resolve, kernel, mounts
<1>2. disk[v][DsmPortal] # None /\ DsmPortal \in call[v].legs
  BY <1>1 DEF PathInv, PathOfCall
<1>3. ASSUME NEW o \in Volumes, {Owner(link[v][q]) : q \in call[v].legs} = {o},
             GotoWith(v, "verify", [call[v] EXCEPT !.mpath =
                        IF Cardinality(call[v].legs) > 1 THEN o ELSE None])
      PROVE  PathInv(v)'
  <2> DEFINE m == IF Cardinality(call[v].legs) > 1 THEN o ELSE None
             c == [call[v] EXCEPT !.mpath = m]
  <2>1. Owner(link[v][DsmPortal]) = o /\ o # None
    BY <1>2, <1>3, ConstantsAssumption
  <2>2. o = v => SoundPath(v)
    BY <1>2, <2>1, OwnerIs, Types, ConstantsAssumption DEF SoundPath, IInv
  <2>3. m \in {o, None} /\ GotoWith(v, "verify", c)
    BY <1>3
  <2> HIDE DEF m
  <2>4. c.mpath = m /\ c.legs = call[v].legs
    BY <1>1, AtWork DEF CallData
  <2>5. Moves(v, "verify", c, kubelet[v])
    BY <1>1, <2>3, LeaveIs
  <2>6. c.mpath = v => SoundPath(v)
    BY <2>2, <2>3, <2>4, ConstantsAssumption
  <2> HIDE DEF c
  <2>7. pc'[v] = "verify" /\ call'[v] = c => PathOfCall(v)'
    BY <1>1, <1>2, <2>4, <2>6 DEF PathOfCall, SoundPath
  <2> QED
    BY <1>1, <2>5, <2>7, GoOnPath
<1>4. CASE Fail(v)
  BY <1>1, <1>4, QuietEnd
<1> QED
  BY <1>3, <1>4 DEF Resolve

LEMMA VerifyPath ==
    ASSUME IInv, NEW v \in Volumes, PathInv(v), Verify(v)
    PROVE  PathInv(v)'
<1> DEFINE l == IF call[v].op = "stage" THEN "mount" ELSE "bind"
<1>1. /\ pc[v] = "verify" /\ pc[v] # "idle" /\ DisksStay(v)
      /\ UNCHANGED <<disk, link, staged, published>>
  BY StillStays DEF Verify, kernel, mounts
<1>2. CASE Goto(v, l)
  <2>1. Moves(v, l, call[v], kubelet[v])
    BY <1>1, <1>2, LeaveIs
  <2>2. pc'[v] = l /\ call'[v] = call[v] => PathOfCall(v)'
    BY <1>1 DEF PathInv, PathOfCall, SoundPath
  <2> QED
    BY <1>1, <2>1, <2>2, GoOnPath
<1>3. CASE Fail(v)
  BY <1>1, <1>3, QuietEnd
<1> QED
  BY <1>2, <1>3 DEF Verify

\* A volume whose own device is mounted has its link right.
LEMMA DeviceSound ==
    ASSUME IInv, NEW v \in Volumes, PathInv(v), pc[v] \in {"mount", "bind"}, Device(v) = v
    PROVE  SoundPath(v)
<1>1. disk[v][DsmPortal] # None /\ (call[v].mpath = v => SoundPath(v))
  BY DEF PathInv, PathOfCall
<1>2. v # None
  BY ConstantsAssumption
<1>3. CASE call[v].mpath = None
  BY <1>1, <1>2, <1>3, OwnerIs, Types, ConstantsAssumption DEF Device, SoundPath, IInv
<1>4. CASE call[v].mpath # None
  BY <1>1, <1>2, <1>4 DEF Device
<1> QED
  BY <1>3, <1>4

LEMMA MountPath ==
    ASSUME IInv, NEW v \in Volumes, PathInv(v), Mount(v)
    PROVE  PathInv(v)'
<1>1. /\ pc[v] = "mount" /\ pc[v] # "idle" /\ DisksStay(v) /\ TypeOK
      /\ UNCHANGED <<disk, link, published>>
  BY StillStays DEF Mount, kernel, IInv
<1>2. CASE UNCHANGED staged /\ (Fail(v) \/ (Return(v) /\ staged[v] # None))
  BY <1>1, <1>2, QuietEnd
<1>3. CASE /\ Device(v) # None /\ staged' = [staged EXCEPT ![v] = Device(v)]
           /\ Goto(v, "grow")
  <2>1. staged'[v] = Device(v) /\ published'[v] = published[v]
    BY <1>1, <1>3, Changed
  <2>2. pc'[v] = "grow" /\ call'[v] = call[v] /\ kubelet'[v] = kubelet[v]
    BY <1>1, <1>3, LeaveIs, MovesTo
  <2>3. Device(v) = v => SoundPath(v)
    BY <1>1, DeviceSound
  <2> QED
    BY <1>1, <1>3, <2>1, <2>2, <2>3 DEF PathInv, PathOfCall, SoundPath
<1> QED
  BY <1>2, <1>3 DEF Mount

LEMMA GrowPath ==
    ASSUME IInv, NEW v \in Volumes, PathInv(v), Grow(v)
    PROVE  PathInv(v)'
<1>1. /\ pc[v] = "grow" /\ pc[v] # "idle" /\ DisksStay(v) /\ UNCHANGED <<staged, published>>
  BY StillStays DEF Grow, kernel, mounts
<1>2. staged[v] # None
  BY <1>1 DEF PathInv, PathOfCall
<1> QED
  BY <1>1, <1>2, QuietEnd DEF Grow

LEMMA BindPath ==
    ASSUME IInv, NEW v \in Volumes, PathInv(v), Bind(v)
    PROVE  PathInv(v)'
<1> DEFINE source == IF v \in Block THEN Device(v) ELSE staged[v]
<1>1. /\ pc[v] = "bind" /\ pc[v] # "idle" /\ DisksStay(v) /\ TypeOK
      /\ UNCHANGED <<disk, link, staged>>
  BY StillStays DEF Bind, kernel, IInv
<1>2. CASE UNCHANGED published /\ Fail(v)
  BY <1>1, <1>2, QuietEnd
<1>3. CASE published' = [published EXCEPT ![v] = source] /\ Return(v)
  <2>1. v \in Block /\ source = v => SoundPath(v)
    BY <1>1, DeviceSound
  <2> HIDE DEF source
  <2>2. published'[v] = source /\ staged'[v] = staged[v]
    BY <1>1, <1>3, Changed
  <2>3. kubelet[v] = "publishing" /\ call[v].op = "publish"
    BY <1>1, AtWork DEF LocalInv, Working
  <2>4. pc'[v] = "idle"
    BY <1>1, <1>3, LeaveIs, MovesTo
  <2> QED
    BY <1>1, <2>1, <2>2, <2>3, <2>4 DEF PathInv, PathOfCall, SoundPath
<1> QED
  BY <1>2, <1>3 DEF Bind


LEMMA FlushPath ==
    ASSUME IInv, NEW v \in Volumes, PathInv(v), Flush(v)
    PROVE  PathInv(v)'
<1>1. /\ pc[v] = "flush" /\ pc[v] # "idle" /\ DisksStay(v)
      /\ UNCHANGED <<disk, link, staged, published>>
  BY StillStays DEF Flush, kernel, mounts
<1>2. PICK c : Moves(v, "logout", c, kubelet[v])
  BY <1>1, LeaveIs DEF Flush
<1>3. pc'[v] = "logout" => PathOfCall(v)'
  BY <1>1 DEF PathInv, PathOfCall
<1> QED
  BY <1>1, <1>2, <1>3, GoOnPath

\* The session ends only where nothing of the volume is mounted any more.
LEMMA LogoutPath ==
    ASSUME IInv, NEW v \in Volumes, PathInv(v), Logout(v)
    PROVE  PathInv(v)'
<1>1. pc[v] = "logout" /\ pc[v] # "idle" /\ TypeOK /\ UNCHANGED <<link, staged, published>>
  BY DEF Logout, mounts, IInv
<1>2. staged[v] = None /\ published[v] = None
  BY <1>1, AtWork DEF PathInv, PathOfCall, LocalInv, Working
<1>3. kubelet[v] = "staging"
  BY <1>1, AtWork DEF LocalInv, Working
<1>4. pc'[v] \in {"deleteNode", "idle"} /\ kubelet'[v] \in {"staging", "out"}
  <2>1. CASE Goto(v, "deleteNode")
    BY <1>1, <1>3, <2>1, LeaveIs, MovesTo
  <2>2. CASE Swallow(v)
    BY <1>1, <2>2, LeaveIs, MovesTo
  <2> QED
    BY <2>1, <2>2 DEF Logout
<1> QED
  BY <1>1, <1>2, <1>4, ConstantsAssumption DEF PathInv, PathOfCall

LEMMA DeleteNodePath ==
    ASSUME IInv, NEW v \in Volumes, PathInv(v), DeleteNode(v)
    PROVE  PathInv(v)'
<1>1. /\ pc[v] = "deleteNode" /\ pc[v] # "idle" /\ DisksStay(v)
      /\ UNCHANGED <<staged, published>> /\ call[v].op = "unstage"
  BY StillStays, AtWork DEF DeleteNode, mounts
<1> QED
  BY <1>1, QuietEnd DEF DeleteNode

LEMMA RescanPath ==
    ASSUME IInv, NEW v \in Volumes, PathInv(v), Rescan(v)
    PROVE  PathInv(v)'
<1>1. /\ pc[v] = "rescan" /\ pc[v] # "idle" /\ DisksStay(v) /\ UNCHANGED <<staged, published>>
  BY StillStays DEF Rescan, kernel, mounts
<1>2. CASE Goto(v, "resize")
  <2>1. Moves(v, "resize", call[v], kubelet[v])
    BY <1>1, <1>2, LeaveIs
  <2>2. pc'[v] = "resize" => PathOfCall(v)'
    BY DEF PathOfCall
  <2> QED
    BY <1>1, <2>1, <2>2, GoOnPath
<1>3. CASE Fail(v)
  BY <1>1, <1>3, QuietEnd
<1> QED
  BY <1>2, <1>3 DEF Rescan

LEMMA ResizePath ==
    ASSUME IInv, NEW v \in Volumes, PathInv(v), Resize(v)
    PROVE  PathInv(v)'
<1>1. /\ pc[v] = "resize" /\ pc[v] # "idle" /\ DisksStay(v) /\ UNCHANGED <<staged, published>>
      /\ call[v].op = "expand"
  BY StillStays, AtWork DEF Resize, kernel, mounts
<1> QED
  BY <1>1, QuietEnd DEF Resize

\* A call that begins or ends at once: only the kubelet's view and the mounts change.
LEMMA AtRestPath ==
    ASSUME IInv, NEW v \in Volumes, PathInv(v), UNCHANGED <<disk, link>>,
           NEW l \in {"idle", "lookup"}, NEW c, NEW k, Moves(v, l, c, k),
           staged'[v] \in {staged[v], None}, published'[v] \in {published[v], None},
           l = "lookup" /\ c.op = "unstage" => staged'[v] = None,
           v \notin Block /\ k \in {"staged", "publishing", "published"} => staged'[v] # None
    PROVE  PathInv(v)'
<1>1. pc'[v] = l /\ call'[v] = c /\ kubelet'[v] = k
  BY MovesTo DEF IInv
<1>2. SoundPath(v) => SoundPath(v)'
  BY PathStays, StillStays
<1> QED
  BY <1>1, <1>2, ConstantsAssumption DEF PathInv, PathOfCall

LEMMA StagePath ==
    ASSUME IInv, NEW v \in Volumes, PathInv(v), NodeStageVolume(v)
    PROVE  PathInv(v)'
<1>1. UNCHANGED <<disk, link, staged, published>> /\ TypeOK /\ "stage" \in Ops
  BY DEF NodeStageVolume, kernel, mounts, IInv, Ops
<1>2. CASE Begin(v, "stage", "staging")
  <2>1. Moves(v, "lookup", NewCall("stage"), "staging") /\ NewCall("stage").op = "stage"
    BY <1>1, <1>2, BeginIs
  <2> QED
    BY <1>1, <2>1, AtRestPath
<1>3. CASE /\ v \in Block /\ pc[v] = "idle" /\ OK(v, "stage") /\ UNCHANGED <<pc, call>>
  BY <1>1, <1>3, OKIs, AtRestPath
<1> QED
  BY <1>2, <1>3 DEF NodeStageVolume

LEMMA PublishPath ==
    ASSUME IInv, NEW v \in Volumes, PathInv(v), NodePublishVolume(v)
    PROVE  PathInv(v)'
<1>1. /\ UNCHANGED <<disk, link, staged, published>> /\ TypeOK /\ "publish" \in Ops
      /\ kubelet[v] \in {"staged", "publishing"}
  BY DEF NodePublishVolume, kernel, mounts, IInv, Ops
<1>2. v \notin Block => staged[v] # None
  BY <1>1 DEF PathInv
<1>3. CASE Begin(v, "publish", "publishing")
  <2>1. Moves(v, "lookup", NewCall("publish"), "publishing") /\ NewCall("publish").op = "publish"
    BY <1>1, <1>3, BeginIs
  <2> QED
    BY <1>1, <1>2, <2>1, AtRestPath
<1>4. CASE pc[v] = "idle" /\ OK(v, "publish") /\ UNCHANGED <<pc, call>>
  BY <1>1, <1>2, <1>4, OKIs, AtRestPath
<1> QED
  BY <1>3, <1>4 DEF NodePublishVolume

LEMMA UnpublishPath ==
    ASSUME IInv, NEW v \in Volumes, PathInv(v), NodeUnpublishVolume(v)
    PROVE  PathInv(v)'
<1>1. /\ UNCHANGED <<disk, link, staged, pc, call>> /\ TypeOK /\ "unpublish" \in Ops
      /\ kubelet[v] \in {"publishing", "published"} /\ pc[v] = "idle"
  BY DEF NodeUnpublishVolume, kernel, IInv, Ops
<1>2. v \notin Block => staged[v] # None
  BY <1>1 DEF PathInv
<1>3. CASE published' = [published EXCEPT ![v] = None] /\ OK(v, "unpublish")
  <2>1. published'[v] = None
    BY <1>1, <1>3, Changed
  <2> QED
    BY <1>1, <1>2, <1>3, <2>1, OKIs, AtRestPath
<1>4. CASE UNCHANGED <<published, kubelet>>
  <2>1. Moves(v, "idle", call[v], kubelet[v])
    BY <1>1, <1>4, Same DEF Moves
  <2> QED
    BY <1>1, <1>2, <1>4, <2>1, AtRestPath
<1> QED
  BY <1>3, <1>4 DEF NodeUnpublishVolume

LEMMA UnstagePath ==
    ASSUME IInv, NEW v \in Volumes, PathInv(v), NodeUnstageVolume(v)
    PROVE  PathInv(v)'
<1>1. UNCHANGED <<disk, link, published>> /\ TypeOK /\ "unstage" \in Ops
  BY DEF NodeUnstageVolume, kernel, IInv, Ops
<1>2. CASE staged' = [staged EXCEPT ![v] = None] /\ Begin(v, "unstage", "staging")
  <2>1. staged'[v] = None
    BY <1>1, <1>2, Changed
  <2>2. Moves(v, "lookup", NewCall("unstage"), "staging") /\ NewCall("unstage").op = "unstage"
    BY <1>1, <1>2, BeginIs
  <2> QED
    BY <1>1, <1>2, <2>1, <2>2, AtRestPath
<1>3. CASE /\ pc[v] = "idle" /\ kubelet' = [kubelet EXCEPT ![v] = "staging"]
           /\ UNCHANGED <<staged, pc, call>>
  <2>1. Moves(v, "idle", call[v], "staging")
    BY <1>1, <1>3, Same DEF Moves
  <2> QED
    BY <1>1, <1>3, <2>1, AtRestPath
<1> QED
  BY <1>2, <1>3 DEF NodeUnstageVolume

LEMMA ExpandPath ==
    ASSUME IInv, NEW v \in Volumes, PathInv(v), NodeExpandVolume(v)
    PROVE  PathInv(v)'
<1>1. /\ UNCHANGED <<disk, link, staged, published>> /\ "expand" \in Ops
      /\ kubelet[v] = "published" /\ Begin(v, "expand", "published")
  BY DEF NodeExpandVolume, kernel, mounts, Ops
<1>2. v \notin Block => staged[v] # None
  BY <1>1 DEF PathInv
<1> QED
  BY <1>1, <1>2, BeginIs, AtRestPath

LEMMA UdevSyncPath ==
    ASSUME IInv, NEW v \in Volumes, PathInv(v), NEW p \in Portals, UdevSync(v, p)
    PROVE  PathInv(v)' /\ DisksStay(v)
<1>1. UNCHANGED <<disk, staged, published, pc, call, kubelet>> /\ TypeOK
  BY DEF UdevSync, mounts, orch, IInv
<1>2. DisksStay(v)
  BY <1>1, ConstantsAssumption DEF UdevSync, DisksStay, TypeOK
<1>3. SoundPath(v) => SoundPath(v)'
  BY <1>2, PathStays
<1> QED
  BY <1>1, <1>2, <1>3 DEF PathInv, PathOfCall

-----------------------------------------------------------------------------
\* A step about one volume keeps the paths of all.
LEMMA OthersPath ==
    ASSUME PInv, NEW v \in Volumes, Alone(v), PathInv(v)'
    PROVE  PInv'
<1>1. ASSUME NEW w \in Volumes, w # v PROVE PathInv(w)'
  <2>1. /\ disk'[w] = disk[w] /\ link'[w] = link[w]
        /\ staged'[w] = staged[w] /\ published'[w] = published[w]
        /\ pc'[w] = pc[w] /\ call'[w] = call[w] /\ kubelet'[w] = kubelet[w]
    BY <1>1 DEF Alone
  <2>2. SoundPath(w)' <=> SoundPath(w)
    BY <2>1 DEF SoundPath
  <2>3. PathInv(w)
    BY DEF PInv
  <2> QED
    BY <2>1, <2>2, <2>3 DEF PathInv, PathOfCall
<1> QED
  BY <1>1 DEF PInv

LEMMA PInvInit == Init => PInv
  BY ConstantsAssumption DEF Init, PInv, PathInv, PathOfCall

LEMMA CallKept ==
    ASSUME IInv, NEW v \in Volumes, Call(v) \/ Step(v)
    PROVE  Kept(v)
  BY StageKeeps, PublishKeeps, UnpublishKeeps, UnstageKeeps, ExpandKeeps, LookupKeeps,
     LoginPortalKeeps, WaitPathKeeps, ResolveKeeps, VerifyKeeps, MountKeeps, GrowKeeps,
     BindKeeps, FlushKeeps, LogoutKeeps, DeleteNodeKeeps, RescanKeeps, ResizeKeeps
     DEF Call, Step

LEMMA PInvNext == IInv /\ PInv /\ [Next]_vars => PInv'
<1> SUFFICES ASSUME IInv, PInv, [Next]_vars PROVE PInv'
  OBVIOUS
<1>1. TypeOK /\ \A v \in Volumes : PathInv(v)
  BY DEF IInv, PInv
<1>2. ASSUME NEW v \in Volumes, Call(v) \/ Step(v) PROVE PInv'
  <2>1. Alone(v)
    BY <1>2, CallKept DEF Kept
  <2>2. CASE Call(v)
    <3>1. PathInv(v)'
      BY <1>1, <2>2, StagePath, PublishPath, UnpublishPath, UnstagePath, ExpandPath DEF Call
    <3> QED
      BY <2>1, <3>1, OthersPath
  <2>3. CASE Step(v)
    <3>1. PathInv(v)'
      BY <1>1, <2>3, LookupPath, LoginPortalPath, WaitPathPath, ResolvePath, VerifyPath,
         MountPath, GrowPath, BindPath, FlushPath, LogoutPath, DeleteNodePath, RescanPath,
         ResizePath DEF Step
    <3> QED
      BY <2>1, <3>1, OthersPath
  <2> QED
    BY <1>2, <2>2, <2>3
<1>3. ASSUME Background PROVE PInv'
  BY <1>1, <1>3 DEF Background, PInv, PathInv, PathOfCall, SoundPath
<1>4. ASSUME NEW v \in Volumes, NEW p \in Portals, UdevSync(v, p) PROVE PInv'
  BY <1>1, <1>4, UdevSyncPath, UdevSyncKeeps, OthersPath DEF Kept
<1>5. CASE Crash
  <2>1. /\ UNCHANGED <<disk, link, staged, published, kubelet>>
        /\ \A v \in Volumes : pc'[v] = "idle"
    BY <1>5 DEF Crash, kernel, mounts, orch
  <2> QED
    BY <1>1, <2>1 DEF PInv, PathInv, PathOfCall, SoundPath
<1> QED
  BY <1>1, <1>2, <1>3, <1>4, <1>5, BackgroundIs DEF Next

LEMMA PInvAlways == Spec => []PInv
<1> QED
  BY IInvAlways, PInvInit, PInvNext, PTL DEF Spec


-----------------------------------------------------------------------------
(* Filesystems that have grown.  NodeExpandVolume takes a volume off the   *)
(* kubelet's list once the device its links lead to is resized: it has to  *)
(* be the volume's own, and rescanned since its LUN grew.                  *)

\* No volume's data is mounted where another's belongs.  Of a volume that could
\* be verified it always holds (OwnDisk), and of a node with one volume.
OwnMounts == \A v \in Volumes : staged[v] \in {v, None}

GrownInv(v) ==
    /\ v \in small \ Restored => v \notin Block /\ v \in wanted
    /\ pc[v] \in {"rescan", "resize"} => v \in wanted
    /\ pc[v] = "lookup" /\ call[v].op = "expand" => v \in wanted
    /\ pc[v] = "resize" => v \notin stale

GInv == \A v \in Volumes : GrownInv(v)

\* The sessions' links lead to the volume whose path is sound, or to no one volume.
LEMMA ExistingIs ==
    ASSUME IInv, NEW v \in Volumes, SoundPath(v)
    PROVE  Existing(v) \in {v, None}
<1> DEFINE owners == {Owner(link[v][p]) : p \in Session(v)}
           f == [p \in Session(v) |-> Owner(link[v][p])]
<1>1. Owner(link[v][DsmPortal]) = v /\ DsmPortal \in Session(v)
  BY OwnerOwns, ConstantsAssumption DEF IInv, SoundPath, Session
<1>2. IsFiniteSet(owners)
  <2>1. Session(v) \in SUBSET Portals
    BY DEF Session
  <2>2. IsFiniteSet(Session(v))
    BY <2>1, FS_Subset, ConstantsAssumption
  <2>3. f \in Surjection(Session(v), owners)
    BY DEF Surjection
  <2> HIDE DEF f, owners
  <2> QED
    BY <2>2, <2>3, FS_Surjection
<1>3. Cardinality(owners) = 1 => owners = {v}
  <2>1. v \in owners
    BY <1>1
  <2> HIDE DEF owners
  <2> QED
    BY <1>2, <2>1, FS_Singleton
<1> QED
  BY <1>3 DEF Existing

\* What a step may do to the sizes, if filesystems are to be grown.
LEMMA GrownStep ==
    ASSUME IInv, GInv, NEW v \in Volumes, Alone(v),
           stale' \subseteq stale, small' \subseteq small, wanted \ {v} \subseteq wanted',
           v \in small' \ Restored => v \in wanted',
           pc'[v] \in {"rescan", "resize"} => v \in wanted',
           pc'[v] = "lookup" /\ call'[v].op = "expand" => v \in wanted',
           pc'[v] = "resize" => v \notin stale'
    PROVE  GInv'
<1>1. GrownInv(v)'
  BY DEF GInv, GrownInv
<1>2. ASSUME NEW w \in Volumes, w # v PROVE GrownInv(w)'
  BY <1>2 DEF GInv, GrownInv, Alone
<1> QED
  BY <1>1, <1>2 DEF GInv

\* A call that ends keeps the kubelet's list, unless it is an expansion.
LEMMA EndWanted ==
    ASSUME IInv, NEW v \in Volumes, pc[v] # "idle",
           Fail(v) \/ Swallow(v) \/ Return(v)
    PROVE  /\ pc'[v] = "idle" /\ wanted \ {v} \subseteq wanted'
           /\ call[v].op # "expand" \/ Fail(v) => wanted' = wanted
<1>1. pc'[v] = "idle"
  BY LeaveIs, MovesTo DEF IInv
<1>2. wanted \ {v} \subseteq wanted' /\ (call[v].op # "expand" \/ Fail(v) => wanted' = wanted)
  BY DEF Fail, Swallow, Return, OK, orch
<1> QED
  BY <1>1, <1>2

LEMMA CallGrown ==
    ASSUME IInv, GInv, NEW v \in Volumes, Call(v)
    PROVE  GInv'
<1>1. Alone(v) /\ UNCHANGED <<small, stale>>
  BY CallKept
     DEF Kept, Call, NodeStageVolume, NodePublishVolume, NodeUnpublishVolume,
         NodeUnstageVolume, NodeExpandVolume, sizes
<1>2. wanted' = wanted
  BY DEF Call, NodeStageVolume, NodePublishVolume, NodeUnpublishVolume, NodeUnstageVolume,
         NodeExpandVolume, OK
<1>3. /\ pc'[v] \notin {"rescan", "resize"}
      /\ pc'[v] = "lookup" /\ call'[v].op = "expand" => v \in wanted
  <2>1. ASSUME NEW o \in Ops, NEW k, Begin(v, o, k), o = "expand" => v \in wanted
        PROVE  /\ pc'[v] \notin {"rescan", "resize"}
               /\ pc'[v] = "lookup" /\ call'[v].op = "expand" => v \in wanted
    <3>1. pc'[v] = "lookup" /\ call'[v].op = o
      BY <2>1, BeginIs, MovesTo DEF IInv
    <3> QED
      BY <2>1, <3>1
  <2>2. CASE pc[v] = "idle" /\ UNCHANGED pc
    BY <2>2
  <2> QED
    BY <2>1, <2>2
       DEF Call, NodeStageVolume, NodePublishVolume, NodeUnpublishVolume, NodeUnstageVolume,
           NodeExpandVolume, Ops
<1>4. v \in small \ Restored => v \in wanted
  BY DEF GInv, GrownInv
<1> QED
  BY <1>1, <1>2, <1>3, <1>4, GrownStep

LEMMA StepGrown ==
    ASSUME IInv, PInv, OwnMounts, GInv, NEW v \in Volumes, Step(v)
    PROVE  GInv'
<1>1. Alone(v) /\ GrownInv(v) /\ PathInv(v) /\ TypeOK /\ LocalInv(v)
  BY CallKept DEF Kept, GInv, PInv, IInv
<1>2. v \in small \ Restored => v \in wanted
  BY <1>1 DEF GrownInv
\* Steps of the other calls, and the lookup, leave what is wanted as it is.
<1>3. ASSUME stale' \subseteq stale, small' \subseteq small, wanted' = wanted,
             pc'[v] \notin {"lookup", "rescan", "resize"} \/ (pc'[v] = "rescan" /\ v \in wanted)
      PROVE  GInv'
  BY <1>1, <1>2, <1>3, GrownStep
<1>4. ASSUME stale' \subseteq stale, small' \subseteq small, pc[v] # "idle",
             call[v].op # "expand" \/ Fail(v), Fail(v) \/ Swallow(v) \/ Return(v)
      PROVE  GInv'
  BY <1>3, <1>4, EndWanted
<1>5. ASSUME NEW l, NEW c, GotoWith(v, l, c), pc[v] # "idle",
             l \notin {"lookup", "rescan", "resize"} \/ (l = "rescan" /\ v \in wanted),
             stale' \subseteq stale, small' \subseteq small
      PROVE  GInv'
  <2>1. pc'[v] = l /\ wanted' = wanted
    BY <1>1, <1>5, LeaveIs, MovesTo
  <2> QED
    BY <1>3, <1>5, <2>1
<1>6. CASE Lookup(v)
  <2>1. pc[v] = "lookup" /\ pc[v] # "idle" /\ UNCHANGED <<small, stale>>
    BY <1>6 DEF Lookup, sizes
  <2>2. CASE Fail(v) \/ (call[v].op = "unstage" /\ Swallow(v))
    BY <1>4, <2>1, <2>2
  <2>3. CASE /\ call[v].op \in {"unstage", "expand"}
             /\ Goto(v, IF call[v].op = "unstage" THEN "flush" ELSE "rescan")
    <3>1. call[v].op = "expand" => v \in wanted
      BY <1>1, <2>1 DEF GrownInv
    <3> QED
      BY <1>5, <2>1, <2>3, <3>1 DEF Goto
  <2>4. ASSUME NEW c, GotoWith(v, "login", c) PROVE GInv'
    BY <1>5, <2>1, <2>4
  <2> QED
    BY <1>6, <2>2, <2>3, <2>4 DEF Lookup
<1>7. CASE LoginPortal(v)
  <2>1. pc[v] # "idle" /\ call[v].op # "expand" /\ small' = small /\ stale' \subseteq stale
    BY <1>7, AtWork DEF LoginPortal
  <2> QED
    BY <1>4, <1>5, <1>7, <2>1 DEF LoginPortal, Goto
<1>8. CASE WaitPath(v) \/ Resolve(v)
  <2>1. pc[v] # "idle" /\ call[v].op # "expand" /\ UNCHANGED <<small, stale>>
    BY <1>8, AtWork DEF WaitPath, Resolve, sizes
  <2>2. (\E l \in {"login", "verify"} : \E c : GotoWith(v, l, c)) \/ Fail(v)
    <3>1. WaitPath(v) => (\E c : GotoWith(v, "login", c)) \/ Fail(v)
      BY DEF WaitPath
    <3>2. Resolve(v) => (\E c : GotoWith(v, "verify", c)) \/ Fail(v)
      BY DEF Resolve
    <3> QED
      BY <1>8, <3>1, <3>2
  <2> QED
    BY <1>4, <1>5, <2>1, <2>2
<1>9. CASE Verify(v) \/ Mount(v)
  <2>1. pc[v] # "idle" /\ call[v].op # "expand" /\ UNCHANGED <<small, stale>>
    BY <1>9, AtWork DEF Verify, Mount, sizes
  <2> QED
    BY <1>4, <1>5, <1>9, <2>1 DEF Verify, Mount, Goto
<1>10. CASE Grow(v) \/ Bind(v)
  <2>1. pc[v] # "idle" /\ call[v].op # "expand" /\ small' \subseteq small /\ stale' = stale
    BY <1>10, AtWork DEF Grow, Bind, sizes
  <2> QED
    BY <1>4, <1>10, <2>1 DEF Grow, Bind
<1>11. CASE Flush(v) \/ Logout(v) \/ DeleteNode(v)
  <2>1. pc[v] # "idle" /\ call[v].op # "expand" /\ UNCHANGED <<small, stale>>
    BY <1>11, AtWork DEF Flush, Logout, DeleteNode, sizes
  <2> QED
    BY <1>4, <1>5, <1>11, <2>1 DEF Flush, Logout, DeleteNode, Goto
<1>12. CASE Rescan(v)
  <2>1. pc[v] = "rescan" /\ pc[v] # "idle" /\ small' = small /\ stale' \subseteq stale
    BY <1>12 DEF Rescan
  <2>2. CASE Goto(v, "resize") /\ stale' = stale \ {v}
    <3>1. pc'[v] = "resize" /\ wanted' = wanted
      BY <1>1, <2>1, <2>2, LeaveIs, MovesTo
    <3>2. v \in wanted
      BY <1>1, <2>1 DEF GrownInv
    <3> QED
      BY <1>1, <1>2, <2>1, <2>2, <3>1, <3>2, GrownStep
  <2>3. CASE Fail(v)
    BY <1>4, <2>1, <2>3
  <2> QED
    BY <1>12, <2>2, <2>3 DEF Rescan
\* The device that is resized is the volume's own.
<1>13. CASE Resize(v)
  <2>1. /\ pc[v] = "resize" /\ pc[v] # "idle" /\ UNCHANGED stale /\ small' \subseteq small
        /\ v \notin stale
    BY <1>1, <1>13 DEF Resize, GrownInv
  <2>2. CASE /\ Existing(v) # None /\ small' = small \ ({Existing(v)} \ stale) /\ Return(v)
    <3>1. v \notin small' \ Restored
      <4> SUFFICES ASSUME v \in small \ Restored PROVE Existing(v) = v
        BY <2>1, <2>2
      <4>1. v \notin Block /\ kubelet[v] = "published"
        BY <1>1, <2>1 DEF GrownInv, LocalInv, Working
      <4>2. staged[v] = v
        BY <1>1, <4>1 DEF PathInv, OwnMounts
      <4> QED
        BY <1>1, <2>2, <4>2, ExistingIs DEF PathInv
    <3>2. pc'[v] = "idle" /\ wanted \ {v} \subseteq wanted'
      BY <2>1, <2>2, EndWanted
    <3> QED
      BY <1>1, <2>1, <3>1, <3>2, GrownStep
  <2>3. CASE Fail(v)
    BY <1>4, <2>1, <2>3
  <2> QED
    BY <1>13, <2>2, <2>3 DEF Resize
<1> QED
  BY <1>6, <1>7, <1>8, <1>9, <1>10, <1>11, <1>12, <1>13 DEF Step

LEMMA GInvInit == Init => GInv
  BY DEF Init, GInv, GrownInv

LEMMA GInvNext == IInv /\ PInv /\ OwnMounts /\ GInv /\ [Next]_vars => GInv'
<1> SUFFICES ASSUME IInv, PInv, OwnMounts, GInv, [Next]_vars PROVE GInv'
  OBVIOUS
<1>1. ASSUME NEW v \in Volumes, LunGrown(v) PROVE GInv'
  <2>1. /\ v \notin wanted /\ UNCHANGED <<pc, call>> /\ small' = small \cup ({v} \ Block)
        /\ stale' = stale \cup {v} /\ wanted' = wanted \cup {v}
    BY <1>1 DEF LunGrown
  <2> QED
    BY <2>1 DEF GInv, GrownInv
<1>2. CASE UNCHANGED <<small, stale, wanted, pc, call>>
  BY <1>2 DEF GInv, GrownInv
<1>3. CASE Crash
  <2>1. UNCHANGED <<small, stale, wanted>> /\ \A v \in Volumes : pc'[v] = "idle"
    BY <1>3 DEF Crash, sizes, orch
  <2> QED
    BY <2>1 DEF GInv, GrownInv
<1>4. ASSUME NEW v \in Volumes, PodStart(v) \/ PodStop(v) \/ Write(v)
      PROVE  UNCHANGED <<small, stale, wanted, pc, call>>
  BY <1>4 DEF PodStart, PodStop, Write, sizes, orch
<1>5. ASSUME NEW v \in Volumes, NEW p \in Portals, UdevSync(v, p)
      PROVE  UNCHANGED <<small, stale, wanted, pc, call>>
  BY <1>5 DEF UdevSync, sizes, orch
<1> QED
  BY <1>1, <1>2, <1>3, <1>4, <1>5, CallGrown, StepGrown DEF Next, vars


\* A node where every device could be verified has no other mounts.
LEMMA VerifiedMounts == Spec /\ [](unverified = {}) => []OwnMounts
<1>1. OwnDisk /\ unverified = {} => OwnMounts
  BY DEF OwnDisk, OwnMounts
<1>2. Spec => []OwnDisk
  <2>1. IInv => OwnDisk
    BY DEF IInv, LocalInv, Pure, OwnDisk
  <2> QED
    BY <2>1, IInvAlways, PTL
<1> QED
  BY <1>1, <1>2, PTL

\* A filesystem the kubelet has nothing left to do for fills its LUN
\* (growFilesystemIfNeeded, NodeExpandVolume), of a volume that was not restored
\* from a smaller one, on a node where no other volume's disk was mounted for it:
\* where an expansion is confused by that, the next stage mends it only if its
\* first attempt to grow the filesystem succeeds.
THEOREM FilesystemsGrown ==
    Restored = {} /\ Spec /\ []OwnMounts => []FilesystemGrown
<1> SUFFICES ASSUME Restored = {} PROVE Spec /\ []OwnMounts => []FilesystemGrown
  OBVIOUS
<1>1. Spec /\ []OwnMounts => []GInv
  BY IInvAlways, PInvAlways, GInvInit, GInvNext, PTL DEF Spec
<1>2. GInv /\ IInv => FilesystemGrown
  BY DEF GInv, GrownInv, IInv, FilesystemGrown
<1> QED
  BY <1>1, <1>2, IInvAlways, PTL


-----------------------------------------------------------------------------
(* Writes to raw block volumes.  With one portal, what is dirty was        *)
(* written through a device that was the volume's own, so the flush before *)
(* the logout finds that device, or finds none and does not claim to have  *)
(* flushed it.  With two, a session may outlive the path that was sound.   *)

\* A flush does not take another volume's device for the volume's own: there is
\* only one path to it, or udev has not left its sessions' links to other disks.
OwnLinks ==
    \/ Portals = {DsmPortal}
    \/ \A v \in Volumes : \A p \in Session(v) : Owner(link[v][p]) \in {v, None}

DirtyInv(v) ==
    /\ Portals = {DsmPortal} /\ v \in dirty => SoundPath(v)
    /\ pc[v] \in {"lookup", "flush"} => ~call[v].flushed
    /\ pc[v] = "logout" /\ call[v].flushed => v \notin dirty

DInv == \A v \in Volumes : DirtyInv(v)

\* What the flush of a written volume finds.
LEMMA FlushesOwn ==
    ASSUME OwnLinks, IInv, NEW v \in Volumes, DirtyInv(v), v \in dirty
    PROVE  Existing(v) \in {v, None}
<1> DEFINE owners == {Owner(link[v][p]) : p \in Session(v)}
<1>1. CASE Portals = {DsmPortal}
  BY <1>1, ExistingIs DEF DirtyInv
<1>2. CASE \A p \in Session(v) : Owner(link[v][p]) \in {v, None}
  <2>1. owners \subseteq {v, None} /\ (Cardinality(owners) = 1 => owners # {})
    BY <1>2, FS_EmptySet
  <2> QED
    BY <2>1 DEF Existing
<1> QED
  BY <1>1, <1>2 DEF OwnLinks

LEMMA DirtyStep ==
    ASSUME DInv, NEW v \in Volumes, Alone(v), dirty' \subseteq dirty, DirtyInv(v)'
    PROVE  DInv'
<1>1. ASSUME NEW w \in Volumes, w # v PROVE DirtyInv(w)'
  <2>1. /\ disk'[w] = disk[w] /\ link'[w] = link[w]
        /\ pc'[w] = pc[w] /\ call'[w] = call[w]
    BY <1>1 DEF Alone
  <2>2. SoundPath(w)' <=> SoundPath(w)
    BY <2>1 DEF SoundPath
  <2> QED
    BY <2>1, <2>2 DEF DInv, DirtyInv
<1> QED
  BY <1>1 DEF DInv

\* Only a logout takes a disk away.
LEMMA StaysOrLogsOut ==
    ASSUME IInv, PInv, NEW v \in Volumes, Call(v) \/ Step(v)
    PROVE  DisksStay(v) \/ Logout(v)
<1>1. CASE Call(v)
  BY <1>1, StillStays
     DEF Call, NodeStageVolume, NodePublishVolume, NodeUnpublishVolume, NodeUnstageVolume,
         NodeExpandVolume, kernel
<1>2. CASE LoginPortal(v)
  BY <1>2, LoginPortalPath DEF PInv
<1>3. CASE Lookup(v) \/ WaitPath(v) \/ Resolve(v) \/ Verify(v) \/ Mount(v) \/ Grow(v)
  BY <1>3, StillStays DEF Lookup, WaitPath, Resolve, Verify, Mount, Grow, kernel
<1>4. CASE Bind(v) \/ Flush(v) \/ DeleteNode(v) \/ Rescan(v) \/ Resize(v)
  BY <1>4, StillStays DEF Bind, Flush, DeleteNode, Rescan, Resize, kernel
<1> QED
  BY <1>1, <1>2, <1>3, <1>4 DEF Step

\* A step that writes nothing, and is none of the flush or the logout.
LEMMA DryStep ==
    ASSUME IInv, PInv, DInv, NEW v \in Volumes, Call(v) \/ Step(v), DisksStay(v), dirty' = dirty,
           pc'[v] \in {"lookup", "flush"} => ~call'[v].flushed, pc'[v] # "logout"
    PROVE  DInv'
<1>1. DirtyInv(v)'
  BY PathStays DEF DInv, DirtyInv
<1> QED
  BY <1>1, CallKept, DirtyStep DEF Kept

LEMMA CallDry ==
    ASSUME IInv, PInv, DInv, NEW v \in Volumes, Call(v)
    PROVE  DInv'
<1>1. dirty' = dirty /\ DisksStay(v)
  BY StillStays
     DEF Call, NodeStageVolume, NodePublishVolume, NodeUnpublishVolume, NodeUnstageVolume,
         NodeExpandVolume, kernel
<1>2. pc'[v] # "logout" /\ (pc'[v] \in {"lookup", "flush"} => ~call'[v].flushed)
  <2>1. ASSUME NEW o \in Ops, NEW k, Begin(v, o, k)
        PROVE  pc'[v] = "lookup" /\ ~call'[v].flushed
    <3>1. Moves(v, "lookup", NewCall(o), k) /\ TypeOK
      BY <2>1, BeginIs DEF IInv
    <3>2. pc'[v] = "lookup" /\ call'[v] = NewCall(o)
      BY <3>1, MovesTo
    <3> QED
      BY <3>2 DEF NewCall
  <2>2. CASE pc[v] = "idle" /\ UNCHANGED pc
    BY <2>2
  <2> QED
    BY <2>1, <2>2
       DEF Call, NodeStageVolume, NodePublishVolume, NodeUnpublishVolume, NodeUnstageVolume,
           NodeExpandVolume, Ops
<1> QED
  BY <1>1, <1>2, DryStep

LEMMA StepDry ==
    ASSUME OwnLinks, IInv, PInv, DInv, NEW v \in Volumes, Step(v)
    PROVE  DInv'
<1>1. DirtyInv(v) /\ TypeOK /\ Alone(v)
  BY CallKept DEF DInv, IInv, Kept
\* Most steps.
<1>2. ASSUME dirty' = dirty, pc[v] # "idle", UNCHANGED <<disk, link>> \/ DisksStay(v),
             \/ Fail(v) \/ Swallow(v) \/ Return(v)
             \/ \E l, c : GotoWith(v, l, c) /\ l \notin {"lookup", "flush", "logout"}
      PROVE  DInv'
  <2>1. pc'[v] \notin {"lookup", "flush", "logout"}
    BY <1>1, <1>2, LeaveIs, MovesTo
  <2> QED
    BY <1>2, <2>1, StillStays, DryStep
<1>3. CASE Lookup(v)
  <2>1. pc[v] = "lookup" /\ pc[v] # "idle" /\ UNCHANGED <<dirty, disk, link>>
    BY <1>3 DEF Lookup, kernel
  <2>2. CASE Fail(v) \/ Swallow(v)
    BY <1>2, <2>1, <2>2
  <2>3. ASSUME NEW c, GotoWith(v, "login", c) PROVE DInv'
    BY <1>2, <2>1, <2>3
  <2>4. CASE Goto(v, IF call[v].op = "unstage" THEN "flush" ELSE "rescan")
    <3>1. pc'[v] \in {"flush", "rescan"} /\ call'[v] = call[v]
      BY <1>1, <2>1, <2>4, LeaveIs, MovesTo
    <3> QED
      BY <1>1, <2>1, <3>1, StillStays, DryStep DEF DirtyInv
  <2> QED
    BY <1>3, <2>2, <2>3, <2>4 DEF Lookup
<1>4. CASE LoginPortal(v)
  <2>1. pc[v] # "idle" /\ dirty' = dirty /\ DisksStay(v)
    BY <1>4, LoginPortalPath DEF LoginPortal, PInv
  <2> QED
    BY <1>2, <1>4, <2>1 DEF LoginPortal, Goto
<1>5. CASE WaitPath(v) \/ Resolve(v)
  <2>1. pc[v] # "idle" /\ UNCHANGED <<dirty, disk, link>>
    BY <1>5 DEF WaitPath, Resolve, kernel
  <2>2. (\E l \in {"login", "verify"} : \E c : GotoWith(v, l, c)) \/ Fail(v)
    <3>1. WaitPath(v) => (\E c : GotoWith(v, "login", c)) \/ Fail(v)
      BY DEF WaitPath
    <3>2. Resolve(v) => (\E c : GotoWith(v, "verify", c)) \/ Fail(v)
      BY DEF Resolve
    <3> QED
      BY <1>5, <3>1, <3>2
  <2> QED
    BY <1>2, <2>1, <2>2
<1>6. CASE Verify(v) \/ Mount(v)
  <2>1. pc[v] # "idle" /\ UNCHANGED <<dirty, disk, link>>
    BY <1>6 DEF Verify, Mount, kernel
  <2> QED
    BY <1>2, <1>6, <2>1 DEF Verify, Mount, Goto
<1>7. CASE Grow(v) \/ Bind(v) \/ DeleteNode(v) \/ Rescan(v) \/ Resize(v)
  <2>1. pc[v] # "idle" /\ UNCHANGED <<dirty, disk, link>>
    BY <1>7 DEF Grow, Bind, DeleteNode, Rescan, Resize, kernel
  <2> QED
    BY <1>2, <1>7, <2>1 DEF Grow, Bind, DeleteNode, Rescan, Resize, Goto
\* A volume that is dirty has its link right: a flush that names a device is its own.
<1>8. CASE Flush(v)
  <2>1. pc[v] = "flush" /\ pc[v] # "idle" /\ DisksStay(v) /\ dirty' \subseteq dirty
    BY <1>8, StillStays DEF Flush, kernel
  <2>2. Portals = {DsmPortal} /\ v \in dirty' => SoundPath(v)'
    BY <1>1, <2>1, PathStays DEF DirtyInv
  <2>3. CASE /\ Existing(v) # None /\ dirty' = dirty \ {Existing(v)}
             /\ GotoWith(v, "logout", [call[v] EXCEPT !.flushed = TRUE])
    <3>1. v \notin dirty'
      BY <1>1, <2>3, FlushesOwn
    <3>2. pc'[v] = "logout"
      BY <1>1, <2>1, <2>3, LeaveIs, MovesTo
    <3> QED
      BY <1>1, <2>1, <3>1, <3>2, DirtyStep DEF DirtyInv
  <2>4. CASE dirty' = dirty /\ Goto(v, "logout")
    <3>1. pc'[v] = "logout" /\ call'[v] = call[v]
      BY <1>1, <2>1, <2>4, LeaveIs, MovesTo
    <3> QED
      BY <1>1, <2>1, <2>2, <3>1, DirtyStep DEF DirtyInv
  <2> QED
    BY <1>8, <2>3, <2>4 DEF Flush
\* With one portal, a logout that fails leaves the session.
<1>9. CASE Logout(v)
  <2>1. pc[v] = "logout" /\ pc[v] # "idle" /\ dirty' \subseteq dirty /\ UNCHANGED link
    BY <1>9 DEF Logout
  <2>2. pc'[v] \in {"deleteNode", "idle"}
    <3>1. CASE Goto(v, "deleteNode")
      BY <1>1, <2>1, <3>1, LeaveIs, MovesTo
    <3>2. CASE Swallow(v)
      BY <1>1, <2>1, <3>2, LeaveIs, MovesTo
    <3> QED
      BY <1>9, <3>1, <3>2 DEF Logout
  <2>3. Portals = {DsmPortal} /\ v \in dirty' => disk'[v] = disk[v]
    <3> SUFFICES ASSUME Portals = {DsmPortal}, v \in dirty' PROVE disk'[v] = disk[v]
      OBVIOUS
    <3>1. CASE dirty' = dirty \ {v} \/ disk' = disk
      BY <3>1
    <3>2. ASSUME NEW keep \in (SUBSET Session(v)) \ {{}},
                 disk' = [disk EXCEPT ![v] = [p \in Portals |->
                            IF p \in keep THEN disk[v][p] ELSE None]]
          PROVE  disk'[v] = disk[v]
      <4> DEFINE f == [p \in Portals |-> IF p \in keep THEN disk[v][p] ELSE None]
      <4>1. keep = Portals
        BY <3>2 DEF Session
      <4>2. f = disk[v]
        BY <1>1, <4>1, Types
      <4>3. disk' = [disk EXCEPT ![v] = f]
        BY <3>2
      <4> HIDE DEF f
      <4> QED
        BY <1>1, <4>2, <4>3, Changed
    <3> QED
      BY <1>9, <3>1, <3>2 DEF Logout
  <2>4. Portals = {DsmPortal} /\ v \in dirty' => SoundPath(v)'
    BY <1>1, <2>1, <2>3 DEF DirtyInv, SoundPath
  <2> QED
    BY <1>1, <2>1, <2>2, <2>4, DirtyStep DEF DirtyInv
<1> QED
  BY <1>3, <1>4, <1>5, <1>6, <1>7, <1>8, <1>9 DEF Step

LEMMA DInvInit == Init => DInv
  BY DEF Init, DInv, DirtyInv

LEMMA DInvNext == OwnLinks /\ IInv /\ PInv /\ DInv /\ [Next]_vars => DInv'
<1> SUFFICES ASSUME OwnLinks, IInv, PInv, DInv, [Next]_vars PROVE DInv'
  OBVIOUS
<1>1. ASSUME NEW v \in Volumes, Call(v) \/ Step(v) PROVE DInv'
  BY <1>1, CallDry, StepDry
\* What is written goes through the volume's own device, and none is mounted at a logout.
<1>2. ASSUME NEW v \in Volumes, Write(v) PROVE DInv'
  <2>1. /\ v \in Block /\ published[v] = v /\ dirty' = dirty \cup {v}
        /\ UNCHANGED <<disk, link, pc, call>>
    BY <1>2 DEF Write, kernel
  <2>2. SoundPath(v)
    BY <2>1 DEF PInv, PathInv
  <2>3. pc[v] # "logout"
    BY <2>1, ConstantsAssumption DEF IInv, LocalInv, Working
  <2> QED
    BY <2>1, <2>2, <2>3 DEF DInv, DirtyInv, SoundPath
<1>3. CASE UNCHANGED <<disk, link, pc, call, dirty>>
  BY <1>3 DEF DInv, DirtyInv, SoundPath
<1>4. ASSUME NEW v \in Volumes, NEW p \in Portals, UdevSync(v, p) PROVE DInv'
  <2>1. UNCHANGED <<pc, call, dirty>> /\ Alone(v) /\ DisksStay(v)
    BY <1>4, UdevSyncKeeps, UdevSyncPath DEF UdevSync, Kept, PInv
  <2> QED
    BY <2>1, PathStays, DirtyStep DEF DInv, DirtyInv
<1>5. CASE Crash
  <2>1. UNCHANGED <<disk, link, dirty>> /\ \A v \in Volumes : pc'[v] = "idle"
    BY <1>5 DEF Crash, kernel
  <2> QED
    BY <2>1 DEF DInv, DirtyInv, SoundPath
<1>6. ASSUME NEW v \in Volumes, PodStart(v) \/ PodStop(v) \/ LunGrown(v)
      PROVE  UNCHANGED <<disk, link, pc, call, dirty>>
  BY <1>6 DEF PodStart, PodStop, LunGrown, kernel
<1> QED
  BY <1>1, <1>2, <1>3, <1>4, <1>5, <1>6 DEF Next, vars

\* No session of a raw block volume ends over writes that an unstage said it had
\* flushed (logoutTarget): with one portal however stale the links were that the
\* flush followed; under multipath while none of a session's leads to another
\* volume's disk.
THEOREM WritesKept == Spec /\ []OwnLinks => WritesReachLun
<1>1. Spec /\ []OwnLinks => [][Next]_vars /\ []IInv /\ []PInv /\ []DInv
  BY IInvAlways, PInvAlways, DInvInit, DInvNext, PTL DEF Spec
<1>2. ASSUME IInv, PInv, DInv, [Next]_vars, NEW v \in Volumes,
             Session(v) # {}, Session(v)' = {}, call[v].flushed
      PROVE  v \notin dirty
  <2>1. disk'[v] # disk[v] /\ ~DisksStay(v)
    BY <1>2 DEF Session, DisksStay
  <2>2. Call(v) \/ Step(v)
    <3>1. ASSUME NEW w \in Volumes, Call(w) \/ Step(w) PROVE w = v
      BY <1>2, <2>1, <3>1, CallKept DEF Kept, Alone
    <3>2. ASSUME NEW w \in Volumes, PodStart(w) \/ PodStop(w) \/ LunGrown(w) \/ Write(w)
          PROVE  UNCHANGED disk
      BY <3>2 DEF PodStart, PodStop, LunGrown, Write, kernel
    <3>3. (\E w \in Volumes, p \in Portals : UdevSync(w, p)) \/ Crash => UNCHANGED disk
      BY DEF UdevSync, Crash, kernel
    <3> QED
      BY <1>2, <2>1, <3>1, <3>2, <3>3 DEF Next, vars
  <2>3. pc[v] = "logout"
    BY <1>2, <2>1, <2>2, StaysOrLogsOut DEF Logout
  <2> QED
    BY <1>2, <2>3 DEF DInv, DirtyInv
<1>3. IInv /\ PInv /\ DInv /\ [Next]_vars =>
        [\A v \in Volumes :
           Session(v) # {} /\ Session(v)' = {} /\ call[v].flushed => v \notin dirty]_vars
  BY <1>2
<1> QED
  BY <1>1, <1>3, PTL DEF WritesReachLun
=============================================================================
