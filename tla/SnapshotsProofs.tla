--------------------------- MODULE SnapshotsProofs ---------------------------
(***************************************************************************)
(* Safety of Snapshots, for every kind of volume, any number of calls that *)
(* overlap because the CO has given up on all but one, and every bound:    *)
(* first of the session its requests go through, then of the snapshots.    *)
(***************************************************************************)
EXTENDS Snapshots, FiniteSetTheorems, TLAPS

-----------------------------------------------------------------------------
(* The session, for any number of handlers and every bound, as facts about *)
(* the steps of Session that those of Snapshots conjoin with theirs.       *)

Width == Cardinality(Handlers)

\* The handlers about to log in, and the sessions nobody will log out of.
LoggingIn == {h \in Handlers : try[h] = "login"}
Orphans   == sessions \ {sid}

Allowed == faults + denials + 2 * restarts + (IF leaving = "gone" THEN 1 ELSE 0)
              + expiries * (Width - 1)

\* No handler logs in before a session has ended or a request been denied.
ExpiryInv ==
    /\ ~Valid => expiries >= 1
    /\ \A h \in Handlers : try[h] # "first" => expiries + denials >= 1
    /\ OneExpiryIsHidden

\* Each session that ends lets every handler log in once, and the first of them
\* leaves none behind; each denial lets one handler log in.
OrphansInv ==
    IF Valid THEN Cardinality(Orphans) + Cardinality(LoggingIn) <= Allowed
             ELSE Cardinality(Orphans) + Width - 1 <= Allowed

SessionInv == SessionTypeOK /\ ExpiryInv /\ OrphansInv

\* A fault elsewhere than in a request.
OtherFault == Fault /\ UNCHANGED <<sid, sessions, try, leaving, expiries, denials, restarts>>

SessionStep == SessionNext \/ OtherFault \/ UNCHANGED sessionVars

-----------------------------------------------------------------------------
(* The steps, field by field.                                              *)

LEMMA NewSidIs ==
    ASSUME SessionTypeOK, FreeSids # {}
    PROVE  NewSid \in 1..MaxSids /\ NewSid \notin sessions /\ NewSid # sid
  BY DEF NewSid, FreeSids

\* A step that changes no session.
Quiet(h) ==
    /\ sid' = sid /\ sessions' = sessions /\ leaving' = leaving
    /\ expiries' = expiries /\ restarts' = restarts /\ faults' >= faults
    /\ denials' = denials
    /\ \A g \in Handlers : g # h => try'[g] = try[g]

LEMMA RequestIs ==
    ASSUME SessionTypeOK, NEW h \in Handlers,
           Answered(h) \/ Lost(h) \/ Failed(h) \/ Refused(h)
    PROVE  /\ Quiet(h) /\ SessionTypeOK'
           /\ \/ try'[h] = "first"
              \/ /\ try[h] = "first" /\ try'[h] = "login" /\ ~Valid
<1>1. /\ try \in [Handlers -> {"first", "login", "second", "failed"}]
      /\ faults \in 0..MaxFaults /\ MaxFaults \in Nat
  BY SessionAssumption DEF SessionTypeOK
<1>2. CASE Answered(h)
  BY <1>1, <1>2 DEF Answered, Trying, Quiet, counters, SessionTypeOK
<1>3. CASE Lost(h)
  BY <1>1, <1>3 DEF Lost, Trying, Quiet, Fault, SessionTypeOK
<1>4. CASE Failed(h)
  BY <1>1, <1>4 DEF Failed, Trying, Quiet, Fault, NoFault, SessionTypeOK
<1>5. CASE Refused(h)
  BY <1>1, <1>5 DEF Refused, Trying, Quiet, counters, SessionTypeOK
<1> QED
  BY <1>2, <1>3, <1>4, <1>5

LEMMA DeniedIs ==
    ASSUME SessionTypeOK, NEW h \in Handlers, Denied(h)
    PROVE  /\ SessionTypeOK' /\ Valid /\ denials' = denials + 1
           /\ try[h] = "first" /\ try'[h] = "login"
           /\ \A g \in Handlers : g # h => try'[g] = try[g]
           /\ UNCHANGED <<sid, sessions, leaving, expiries, restarts, faults>>
<1>1. /\ try \in [Handlers -> {"first", "login", "second", "failed"}]
      /\ expiries \in Nat /\ denials \in 0..MaxRefusals /\ MaxRefusals \in Nat
  BY SessionAssumption DEF SessionTypeOK
<1>2. denials' = denials + 1 /\ denials' \in 0..MaxRefusals
  BY <1>1 DEF Denied
<1>3. try' = [try EXCEPT ![h] = "login"]
  BY DEF Denied, Trying
<1>4. UNCHANGED <<sid, sessions, leaving, expiries, restarts, faults>>
  BY DEF Denied
<1>5. SessionTypeOK'
  BY <1>1, <1>2, <1>3, <1>4 DEF SessionTypeOK
<1> QED
  BY <1>1, <1>2, <1>3, <1>4, <1>5 DEF Denied

LEMMA LoginIs ==
    ASSUME SessionTypeOK, NEW h \in Handlers, Login(h)
    PROVE  /\ SessionTypeOK' /\ try[h] = "login"
           /\ \A g \in Handlers : g # h => try'[g] = try[g]
           /\ leaving' = leaving /\ expiries' = expiries /\ restarts' = restarts
           /\ denials' = denials
           /\ \/ /\ \E s \in 1..MaxSids : /\ s \notin sessions /\ s # sid
                                          /\ sid' = s /\ sessions' = sessions \cup {s}
                 /\ try'[h] = "second" /\ faults' = faults
              \/ /\ sid' = sid /\ try'[h] = "failed" /\ faults' = faults + 1
                 /\ \/ sessions' = sessions
                    \/ \E s \in 1..MaxSids : /\ s \notin sessions /\ s # sid
                                             /\ sessions' = sessions \cup {s}
<1>1. /\ try \in [Handlers -> {"first", "login", "second", "failed"}]
      /\ faults \in 0..MaxFaults /\ MaxFaults \in Nat
  BY SessionAssumption DEF SessionTypeOK
<1>2. NewSid \in 1..MaxSids /\ NewSid \notin sessions /\ NewSid # sid
  BY NewSidIs DEF Login
<1>3. /\ try[h] = "login" /\ leaving' = leaving /\ expiries' = expiries
      /\ restarts' = restarts /\ denials' = denials
      /\ \/ /\ sid' = NewSid /\ sessions' = sessions \cup {NewSid}
            /\ try' = [try EXCEPT ![h] = "second"] /\ faults' = faults
         \/ /\ sid' = sid /\ try' = [try EXCEPT ![h] = "failed"]
            /\ faults < MaxFaults /\ faults' = faults + 1
            /\ sessions' \in {sessions, sessions \cup {NewSid}}
  BY DEF Login, Trying, Fault, NoFault
<1>4. faults' \in 0..MaxFaults
  BY <1>1, <1>3
<1>5. try' \in [Handlers -> {"first", "login", "second", "failed"}]
  BY <1>1, <1>3
<1>6. sessions' \subseteq 1..MaxSids /\ sid' \in 0..MaxSids
  <2>1. sid \in 0..MaxSids /\ sessions \subseteq 1..MaxSids
    BY DEF SessionTypeOK
  <2>2. NewSid \in 0..MaxSids
    BY <1>2
  <2>3. sid' = NewSid \/ sid' = sid
    BY <1>3
  <2>4. sessions' \subseteq sessions \cup {NewSid}
    BY <1>3
  <2> QED
    BY <1>2, <2>1, <2>2, <2>3, <2>4
<1>7. SessionTypeOK'
  BY <1>3, <1>4, <1>5, <1>6 DEF SessionTypeOK
<1> QED
  BY <1>1, <1>2, <1>3, <1>7

\* How a session ends.
LEMMA EndIs ==
    ASSUME SessionTypeOK, Expire \/ Logout \/ LogoutEnds
    PROVE  /\ SessionTypeOK'
           /\ try' = try /\ restarts' = restarts /\ faults' = faults /\ denials' = denials
           /\ \/ /\ Valid /\ expiries' = expiries + 1 /\ sid' = sid
                 /\ sessions' \in {sessions \ {sid}, {}}
                 /\ leaving' = leaving \/ (leaving = "no" /\ leaving' = "asked")
              \/ /\ sid' = 0 /\ sessions' = sessions
                 /\ leaving = "asked" /\ leaving' = "gone"
                 /\ expiries' = IF Valid THEN expiries + 1 ELSE expiries
<1>1. /\ expiries \in 0..MaxRefusals /\ denials \in 0..MaxRefusals
      /\ MaxRefusals \in Nat /\ MaxSids \in Nat
  BY SessionAssumption DEF SessionTypeOK
<1>2. CASE Expire
  <2>1. sessions' \subseteq sessions
    BY <1>2 DEF Expire
  <2>2. expiries' \in 0..MaxRefusals
    BY <1>1, <1>2 DEF Expire, Ends
  <2>3. SessionTypeOK'
    BY <1>2, <2>1, <2>2 DEF Expire, SessionTypeOK
  <2> QED
    BY <1>2, <2>3 DEF Expire, Ends
<1>3. CASE Logout
  BY <1>1, <1>3 DEF Logout, Ends, SessionTypeOK
<1>4. CASE LogoutEnds
  <2>1. expiries' \in 0..MaxRefusals
    BY <1>1, <1>4 DEF LogoutEnds, Ends, SessionTypeOK
  <2>2. SessionTypeOK'
    BY <1>1, <1>4, <2>1 DEF LogoutEnds, SessionTypeOK
  <2> QED
    BY <1>4, <2>2 DEF LogoutEnds, Ends
<1> QED
  BY <1>2, <1>3, <1>4

LEMMA RestartIs ==
    ASSUME SessionTypeOK, Restart
    PROVE  /\ SessionTypeOK' /\ \A h \in Handlers : try'[h] = "first"
           /\ restarts' = restarts + 1 /\ faults' = faults /\ expiries' = expiries
           /\ denials' = denials /\ leaving' = "no"
           /\ \E s \in 1..MaxSids : /\ s \notin sessions /\ s # sid
                                    /\ sid' = s /\ sessions' = sessions \cup {s}
<1>1. restarts \in 0..MaxRestarts /\ MaxRestarts \in Nat
  BY SessionAssumption DEF SessionTypeOK
<1>2. NewSid \in 1..MaxSids /\ NewSid \notin sessions /\ NewSid # sid
  BY NewSidIs DEF Restart
<1> QED
  BY <1>1, <1>2 DEF Restart, SessionTypeOK

-----------------------------------------------------------------------------
(* One expiry is hidden.                                                   *)

LEMMA ExpiryKept ==
    ASSUME SessionTypeOK, ExpiryInv, SessionStep
    PROVE  SessionTypeOK' /\ ExpiryInv'
<1>1. expiries \in Nat /\ denials \in Nat /\ sid \in Nat
  BY SessionAssumption DEF SessionTypeOK
<1>2. ASSUME NEW h \in Handlers, Answered(h) \/ Lost(h) \/ Failed(h) \/ Refused(h)
      PROVE  SessionTypeOK' /\ ExpiryInv'
  BY <1>1, <1>2, RequestIs DEF Quiet, ExpiryInv, OneExpiryIsHidden, Valid
<1>3. ASSUME NEW h \in Handlers, Login(h)
      PROVE  SessionTypeOK' /\ ExpiryInv'
  BY <1>1, <1>3, LoginIs DEF ExpiryInv, OneExpiryIsHidden, Valid
<1>4. CASE Expire \/ Logout \/ LogoutEnds
  BY <1>1, <1>4, EndIs DEF ExpiryInv, OneExpiryIsHidden, Valid
<1>5. CASE Restart
  BY <1>5, RestartIs DEF ExpiryInv, OneExpiryIsHidden, Valid
<1>6. ASSUME NEW h \in Handlers, Denied(h)
      PROVE  SessionTypeOK' /\ ExpiryInv'
  BY <1>1, <1>6, DeniedIs DEF ExpiryInv, OneExpiryIsHidden, Valid
<1>7. CASE OtherFault \/ UNCHANGED sessionVars
  <2>1. UNCHANGED <<sid, sessions, try, leaving, expiries, denials, restarts>>
    BY <1>7 DEF OtherFault, sessionVars, counters
  <2>2. faults' \in 0..MaxFaults
    BY <1>7, SessionAssumption DEF OtherFault, Fault, sessionVars, SessionTypeOK
  <2>3. SessionTypeOK'
    BY <2>1, <2>2 DEF SessionTypeOK
  <2> QED
    BY <2>1, <2>3 DEF ExpiryInv, OneExpiryIsHidden, Valid
<1> QED
  BY <1>2, <1>3, <1>4, <1>5, <1>7, <1>6 DEF SessionStep, SessionNext

-----------------------------------------------------------------------------
(* Sessions are bounded.                                                   *)

LEMMA Counts ==
    /\ Width \in Nat /\ Width >= 1
    /\ \A S \in SUBSET (1..MaxSids) : IsFiniteSet(S) /\ Cardinality(S) \in Nat
    /\ \A H \in SUBSET Handlers :
         IsFiniteSet(H) /\ Cardinality(H) \in Nat /\ Cardinality(H) <= Width
<1>1. IsFiniteSet(Handlers) /\ Handlers # {} /\ MaxSids \in Nat
  BY SessionAssumption
<1>2. IsFiniteSet(1..MaxSids)
  BY <1>1, FS_Interval
<1>3. Width \in Nat /\ Width # 0
  BY <1>1, FS_CardinalityType, FS_EmptySet DEF Width
<1>4. \A S \in SUBSET (1..MaxSids) : IsFiniteSet(S) /\ Cardinality(S) \in Nat
  BY <1>2, FS_Subset, FS_CardinalityType
<1>5. \A H \in SUBSET Handlers :
        IsFiniteSet(H) /\ Cardinality(H) \in Nat /\ Cardinality(H) <= Width
  BY <1>1, FS_Subset, FS_CardinalityType DEF Width
<1> QED
  BY <1>3, <1>4, <1>5

\* The sessions are the orphans and, while it is valid, dsm.Sid.
LEMMA OrphansAre ==
    ASSUME SessionTypeOK
    PROVE  /\ Cardinality(Orphans) \in Nat /\ Cardinality(LoggingIn) \in 0..Width
           /\ Valid => Cardinality(sessions) = Cardinality(Orphans) + 1
           /\ ~Valid => Orphans = sessions
<1>1. sessions \in SUBSET (1..MaxSids) /\ LoggingIn \in SUBSET Handlers
  BY DEF SessionTypeOK, LoggingIn
<1>2. Orphans \in SUBSET (1..MaxSids)
  BY <1>1 DEF Orphans
<1>3. ~Valid => Orphans = sessions
  BY DEF Valid, Orphans
<1>4. ASSUME Valid PROVE Cardinality(sessions) = Cardinality(Orphans) + 1
  <2>1. IsFiniteSet(Orphans) /\ sid \notin Orphans /\ sessions = Orphans \cup {sid}
    BY <1>2, <1>4, Counts DEF Orphans, Valid
  <2> QED
    BY <2>1, FS_AddElement
<1> QED
  BY <1>1, <1>2, <1>3, <1>4, Counts

LEMMA Product ==
    ASSUME NEW e \in Nat, NEW m \in Nat
    PROVE  e * m \in Nat /\ (e + 1) * m = e * m + m
  OBVIOUS

\* What the counters allow, however they move.
LEMMA AllowedIs ==
    ASSUME SessionTypeOK
    PROVE  /\ Allowed \in Nat /\ Width - 1 \in Nat
           /\ expiries * (Width - 1) \in Nat
           /\ (expiries + 1) * (Width - 1) = expiries * (Width - 1) + (Width - 1)
<1>1. /\ expiries \in Nat /\ denials \in Nat /\ faults \in Nat /\ restarts \in Nat
      /\ Width - 1 \in Nat
  BY Counts, SessionAssumption DEF SessionTypeOK
<1>2. /\ expiries * (Width - 1) \in Nat
      /\ (expiries + 1) * (Width - 1) = expiries * (Width - 1) + (Width - 1)
  BY <1>1, Product
<1> QED
  BY <1>1, <1>2 DEF Allowed

\* A request logs nobody in, and makes handlers log in only while dsm.Sid is
\* not valid.
LEMMA RequestKeepsOrphans ==
    ASSUME SessionTypeOK, OrphansInv, NEW h \in Handlers, Quiet(h),
           try'[h] = "first" \/ ~Valid, faults' \in Nat
    PROVE  OrphansInv'
<1>1. Orphans' = Orphans /\ (Valid' <=> Valid) /\ Allowed' >= Allowed /\ Allowed' \in Int
  <2>1. faults \in Nat /\ restarts \in Nat /\ denials \in Nat
    BY SessionAssumption DEF SessionTypeOK
  <2> QED
    BY <2>1, AllowedIs DEF Quiet, Orphans, Valid, Allowed
<1>2. ASSUME Valid PROVE Cardinality(LoggingIn') <= Cardinality(LoggingIn)
  <2>1. LoggingIn' \subseteq LoggingIn /\ IsFiniteSet(LoggingIn)
    BY <1>2, Counts DEF Quiet, LoggingIn
  <2> QED
    BY <2>1, FS_Subset
<1>3. Cardinality(LoggingIn') \in Nat
  BY Counts DEF LoggingIn
<1> QED
  BY <1>1, <1>2, <1>3, OrphansAre, AllowedIs, Counts DEF OrphansInv

LEMMA DeniedKeepsOrphans ==
    ASSUME SessionTypeOK, OrphansInv, NEW h \in Handlers, Denied(h)
    PROVE  OrphansInv'
<1>1. Orphans' = Orphans /\ Valid /\ Valid'
  BY DeniedIs DEF Orphans, Valid
<1>2. Allowed' = Allowed + 1
  <2>1. faults \in Nat /\ restarts \in Nat /\ denials \in Nat
    BY SessionAssumption DEF SessionTypeOK
  <2> QED
    BY <2>1, DeniedIs, AllowedIs DEF Allowed
<1>3. Cardinality(LoggingIn') = Cardinality(LoggingIn) + 1
  <2>1. LoggingIn' = LoggingIn \cup {h} /\ h \notin LoggingIn /\ IsFiniteSet(LoggingIn)
    BY DeniedIs, Counts DEF LoggingIn
  <2> QED
    BY <2>1, FS_AddElement
<1> QED
  BY <1>1, <1>2, <1>3, OrphansAre, AllowedIs DEF OrphansInv

LEMMA LoginKeepsOrphans ==
    ASSUME SessionTypeOK, OrphansInv, NEW h \in Handlers, Login(h)
    PROVE  OrphansInv'
<1>1. /\ Cardinality(Orphans) \in Nat /\ Cardinality(LoggingIn) \in 0..Width
      /\ Allowed \in Nat /\ Width - 1 \in Nat /\ Width \in Nat
  BY OrphansAre, AllowedIs, Counts
<1>2. Cardinality(LoggingIn') = Cardinality(LoggingIn) - 1
  <2>1. LoggingIn' = LoggingIn \ {h} /\ h \in LoggingIn /\ IsFiniteSet(LoggingIn)
    BY LoginIs, Counts DEF LoggingIn
  <2> QED
    BY <2>1, FS_RemoveElement
<1>3. CASE sid' # sid
  <2>1. Allowed' = Allowed
    BY <1>3, LoginIs DEF Allowed
  <2>2. Orphans' = sessions /\ Valid'
    BY <1>3, LoginIs DEF Orphans, Valid
  <2> QED
    <3>1. CASE Valid
      BY <1>1, <1>2, <2>1, <2>2, <3>1, OrphansAre DEF OrphansInv
    <3>2. CASE ~Valid
      BY <1>1, <1>2, <2>1, <2>2, <3>2, OrphansAre DEF OrphansInv
    <3> QED
      BY <3>1, <3>2
<1>4. CASE sid' = sid
  <2>1. Allowed' = Allowed + 1
    <3>1. faults \in Nat /\ restarts \in Nat /\ denials \in Nat
      BY SessionAssumption DEF SessionTypeOK
    <3> QED
      BY <1>4, <3>1, LoginIs, AllowedIs DEF Allowed
  <2>2. CASE sessions' = sessions
    <3>1. Orphans' = Orphans /\ (Valid' <=> Valid)
      BY <1>4, <2>2 DEF Orphans, Valid
    <3> QED
      BY <1>1, <1>2, <2>1, <3>1 DEF OrphansInv
  <2>3. ASSUME NEW s \in 1..MaxSids, s \notin sessions, s # sid,
               sessions' = sessions \cup {s}
        PROVE  OrphansInv'
    <3>1. Orphans' = Orphans \cup {s} /\ s \notin Orphans /\ (Valid' <=> Valid)
      BY <1>4, <2>3 DEF Orphans, Valid
    <3>2. Orphans \in SUBSET (1..MaxSids)
      BY DEF Orphans, SessionTypeOK
    <3>3. Cardinality(Orphans') = Cardinality(Orphans) + 1
      BY <3>1, <3>2, Counts, FS_AddElement
    <3> QED
      BY <1>1, <1>2, <2>1, <3>1, <3>3 DEF OrphansInv
  <2>4. \/ sessions' = sessions
        \/ \E s \in 1..MaxSids : s \notin sessions /\ s # sid /\ sessions' = sessions \cup {s}
    BY <1>4, LoginIs
  <2> QED
    BY <2>2, <2>3, <2>4
<1> QED
  BY <1>3, <1>4

LEMMA EndKeepsOrphans ==
    ASSUME SessionTypeOK, OrphansInv, Expire \/ Logout \/ LogoutEnds
    PROVE  OrphansInv'
<1>1. /\ Cardinality(Orphans) \in Nat /\ Cardinality(LoggingIn) \in Nat
      /\ Allowed \in Nat /\ Width - 1 \in Nat /\ Width \in Nat
      /\ faults \in Nat /\ restarts \in Nat /\ denials \in Nat
  BY OrphansAre, AllowedIs, Counts, SessionAssumption DEF SessionTypeOK
<1>2. faults' = faults /\ restarts' = restarts /\ denials' = denials
  BY EndIs
<1>3. CASE /\ Valid /\ expiries' = expiries + 1 /\ sid' = sid
           /\ sessions' \in {sessions \ {sid}, {}}
           /\ leaving' = leaving \/ (leaving = "no" /\ leaving' = "asked")
  <2>1. Allowed' = Allowed + (Width - 1)
    <3>1. /\ expiries * (Width - 1) \in Nat
          /\ expiries' * (Width - 1) = expiries * (Width - 1) + (Width - 1)
      BY <1>3, AllowedIs
    <3>2. (leaving' = "gone") <=> (leaving = "gone")
      BY <1>3
    <3> QED
      BY <1>1, <1>2, <3>1, <3>2 DEF Allowed
  <2>2. Orphans' \subseteq Orphans /\ ~Valid'
    BY <1>3 DEF Orphans, Valid
  <2>3. Cardinality(Orphans') <= Cardinality(Orphans) /\ Cardinality(Orphans') \in Nat
    <3>1. Orphans \in SUBSET (1..MaxSids)
      BY DEF Orphans, SessionTypeOK
    <3> QED
      BY <2>2, <3>1, Counts, FS_Subset, FS_CardinalityType
  <2> QED
    BY <1>1, <1>3, <2>1, <2>2, <2>3 DEF OrphansInv
<1>4. CASE /\ sid' = 0 /\ sessions' = sessions
           /\ leaving = "asked" /\ leaving' = "gone"
           /\ expiries' = IF Valid THEN expiries + 1 ELSE expiries
  <2>1. Orphans' = sessions /\ ~Valid'
    BY <1>4 DEF Orphans, Valid, SessionTypeOK
  <2>2. CASE Valid
    <3>1. Allowed' = Allowed + 1 + (Width - 1)
      BY <1>1, <1>2, <1>4, <2>2, AllowedIs DEF Allowed
    <3> QED
      BY <1>1, <2>1, <2>2, <3>1, OrphansAre DEF OrphansInv
  <2>3. CASE ~Valid
    <3>1. Allowed' = Allowed + 1
      BY <1>1, <1>2, <1>4, <2>3, AllowedIs DEF Allowed
    <3> QED
      BY <1>1, <2>1, <2>3, <3>1, OrphansAre DEF OrphansInv
  <2> QED
    BY <2>2, <2>3
<1> QED
  BY <1>3, <1>4, EndIs

LEMMA RestartKeepsOrphans ==
    ASSUME SessionTypeOK, OrphansInv, Restart
    PROVE  OrphansInv'
<1>1. /\ Cardinality(Orphans) \in Nat /\ Cardinality(LoggingIn) \in Nat
      /\ Allowed \in Nat /\ Width - 1 \in Nat /\ Width \in Nat
      /\ faults \in Nat /\ restarts \in Nat /\ denials \in Nat
  BY OrphansAre, AllowedIs, Counts, SessionAssumption DEF SessionTypeOK
<1>2. Orphans' = sessions /\ Valid'
  BY RestartIs DEF Orphans, Valid
<1>3. Cardinality(LoggingIn') = 0
  <2>1. LoggingIn' = {}
    BY RestartIs DEF LoggingIn
  <2> QED
    BY <2>1, FS_EmptySet
<1>4. Allowed' \in Nat /\ Allowed' >= Allowed + 1
  BY <1>1, RestartIs, AllowedIs DEF Allowed
<1> QED
  BY <1>1, <1>2, <1>3, <1>4, OrphansAre DEF OrphansInv

-----------------------------------------------------------------------------
LEMMA SessionInvInit == SessionInit => SessionInv
<1> SUFFICES ASSUME SessionInit PROVE SessionInv
  OBVIOUS
<1>1. SessionTypeOK /\ ExpiryInv /\ Valid
  BY SessionAssumption DEF SessionInit, SessionTypeOK, ExpiryInv, OneExpiryIsHidden, Valid
<1>2. Orphans = {} /\ LoggingIn = {}
  BY DEF SessionInit, Orphans, LoggingIn
<1>3. Cardinality({}) = 0
  BY FS_EmptySet
<1> QED
  BY <1>1, <1>2, <1>3, AllowedIs DEF SessionInv, OrphansInv

\* Every step that Session makes, or a module of requests makes with it.
LEMMA SessionInvNext ==
    ASSUME SessionInv, SessionStep
    PROVE  SessionInv'
<1>1. SessionTypeOK /\ OrphansInv /\ SessionTypeOK' /\ ExpiryInv'
  BY ExpiryKept DEF SessionInv
<1>2. faults' \in Nat
  BY <1>1, SessionAssumption DEF SessionTypeOK
<1>3. ASSUME NEW h \in Handlers, Answered(h) \/ Lost(h) \/ Failed(h) \/ Refused(h)
      PROVE  OrphansInv'
  BY <1>1, <1>2, <1>3, RequestIs, RequestKeepsOrphans
<1>4. ASSUME NEW h \in Handlers, Denied(h)
      PROVE  OrphansInv'
  BY <1>1, <1>4, DeniedKeepsOrphans
<1>5. ASSUME OtherFault \/ UNCHANGED sessionVars
      PROVE  OrphansInv'
  <2>1. UNCHANGED <<sid, sessions, try, leaving, expiries, denials, restarts>> /\ faults' >= faults
    BY <1>1, <1>5, SessionAssumption
       DEF OtherFault, Fault, sessionVars, counters, SessionTypeOK
  <2>2. Orphans' = Orphans /\ LoggingIn' = LoggingIn /\ (Valid' <=> Valid)
    BY <2>1 DEF Orphans, LoggingIn, Valid
  <2>3. Allowed' >= Allowed /\ Allowed' \in Nat
    BY <1>1, <1>2, <2>1, SessionAssumption, AllowedIs DEF Allowed, SessionTypeOK
  <2> QED
    BY <1>1, <2>2, <2>3, OrphansAre, AllowedIs DEF OrphansInv
<1> QED
  BY <1>1, <1>3, <1>5, <1>4, LoginKeepsOrphans, EndKeepsOrphans, RestartKeepsOrphans
     DEF SessionStep, SessionNext, SessionInv

LEMMA SessionsBoundedFrom ==
    ASSUME SessionInv
    PROVE  SessionsBounded
  BY OrphansAre, AllowedIs, Counts
     DEF SessionInv, OrphansInv, SessionsBounded, Orphans, Allowed, Width

-----------------------------------------------------------------------------
(* The snapshots.                                                          *)

Busy(h)  == pc[h] # "idle"
Heard(h) == pc[h] # "idle" /\ call[h].heard
Wanted   == co \in {"creating", "pending"}

\* The CO waits for one call at most.
OneHeard == \A g, h \in Handlers : Heard(g) /\ Heard(h) => g = h

\* What the CO recorded.
CoInv ==
    /\ co = "creating" <=> pv = 0
    /\ RecordedSnapshotKept
    /\ ReadyIsRecorded

\* Every snapshot is recorded, lost, or in the hands of a call.
SnapsInv == \A i \in snaps :
    i = pv \/ i \in lost \/ \E h \in Handlers : call[h].made = i

\* A call that creates: the CO still waits for what it found missing, and what
\* it is about is there while no deletion has been asked for.
Creates(h) == LET c == call[h] IN
    /\ c.op = "create"
    /\ pc[h] \in {"findName", "volume", "take", "fetch", "reply"}
    /\ c.heard => Wanted
    /\ c.made # 0 => pc[h] \in {"fetch", "reply"} /\ c.id = c.made
    /\ pc[h] = "fetch" => c.made # 0
    /\ c.made # 0 /\ c.made \notin lost => c.heard /\ co = "creating"
    /\ pc[h] \in {"volume", "take"} /\ c.heard /\ ~c.blind => co = "creating"
    /\ pc[h] \in {"fetch", "reply"} /\ Wanted => c.id \in snaps
    /\ pc[h] = "reply" /\ Wanted /\ c.ready => c.id \in healthy

\* A call that deletes has the recorded snapshot gone before it says so.
Deletes(h) == LET c == call[h] IN
    /\ c.op = "delete" /\ c.made = 0 /\ c.id = pv
    /\ pc[h] \in {"findId", "remove", "check", "reply"}
    /\ co \in {"deleting", "deleted"}
    /\ c.heard => co = "deleting"
    /\ pc[h] = "reply" => c.id \notin snaps \ overlooked

CallInv(h) ==
    \/ pc[h] = "idle" /\ call[h] = NoCall
    \/ Creates(h)
    \/ Deletes(h)

IInv ==
    /\ TypeOK
    /\ SessionInv
    /\ OneHeard
    /\ CoInv
    /\ SnapsInv
    /\ \A h \in Handlers : CallInv(h)

-----------------------------------------------------------------------------
(* The fields of calls.                                                    *)

LEMMA NoCallIs ==
    /\ NoCall \in Call
    /\ NoCall.op = "create" /\ NoCall.id = 0 /\ NoCall.made = 0
    /\ NoCall.ready = FALSE /\ NoCall.blind = FALSE /\ NoCall.heard = TRUE
  BY SnapshotAssumption DEF NoCall, Call

LEMMA FoundIs ==
    ASSUME NEW c \in Call, NEW i \in 0..MaxObjects
    PROVE  LET f == Found(c, i) IN
           /\ f \in Call /\ f.op = c.op /\ f.made = c.made /\ f.heard = c.heard
           /\ f.id = i /\ f.ready = (i \in healthy)
<1>1. ASSUME NEW b \in BOOLEAN
      PROVE  LET f == [c EXCEPT !.id = i, !.ready = b] IN
             /\ f \in Call /\ f.op = c.op /\ f.made = c.made /\ f.heard = c.heard
             /\ f.id = i /\ f.ready = b
  BY DEF Call
<1>2. (i \in healthy) \in BOOLEAN
  OBVIOUS
<1> QED
  BY <1>1, <1>2 DEF Found

LEMMA TookIs ==
    ASSUME NEW c \in Call, NEW i \in 0..MaxObjects
    PROVE  LET f == Took(c, i) IN
           /\ f \in Call /\ f.op = c.op /\ f.heard = c.heard /\ f.blind = c.blind
           /\ f.id = i /\ f.made = i
  BY DEF Took, Call

LEMMA DeleteCallIs ==
    ASSUME NEW i \in 0..MaxObjects
    PROVE  LET f == DeleteCall(i) IN
           /\ f \in Call /\ f.op = "delete" /\ f.heard = TRUE
           /\ f.id = i /\ f.made = 0
<1>1. NoCall \in Call /\ NoCall.heard = TRUE /\ NoCall.made = 0
  BY NoCallIs
<1>2. ASSUME NEW c \in Call
      PROVE  LET f == [c EXCEPT !.op = "delete", !.id = i] IN
             /\ f \in Call /\ f.op = "delete" /\ f.heard = c.heard
             /\ f.id = i /\ f.made = c.made
  BY <1>2 DEF Call
<1> QED
  BY <1>1, <1>2 DEF DeleteCall

LEMMA BlindIs ==
    ASSUME NEW c \in Call, NEW b \in BOOLEAN
    PROVE  LET f == [c EXCEPT !.blind = b] IN
           /\ f \in Call /\ f.op = c.op /\ f.made = c.made /\ f.heard = c.heard
           /\ f.id = c.id /\ f.blind = b
  BY DEF Call

LEMMA UnheardIs ==
    ASSUME NEW c \in Call
    PROVE  LET f == [c EXCEPT !.heard = FALSE] IN
           /\ f \in Call /\ f.op = c.op /\ f.made = c.made /\ f.heard = FALSE
           /\ f.id = c.id /\ f.blind = c.blind /\ f.ready = c.ready
  BY DEF Call

LEMMA Types ==
    ASSUME TypeOK, NEW h \in Handlers
    PROVE  /\ call[h] \in Call /\ call[h].op \in {"create", "delete"}
           /\ call[h].id \in 0..MaxObjects /\ call[h].made \in 0..MaxObjects
           /\ call[h].ready \in BOOLEAN /\ call[h].blind \in BOOLEAN
           /\ call[h].heard \in BOOLEAN
           /\ pv \in 0..MaxObjects /\ MaxObjects \in Nat
           /\ \A i \in snaps : i \in 1..MaxObjects
<1>1. call[h] \in Call
  BY DEF TypeOK
<1> QED
  BY <1>1, SnapshotAssumption DEF Call, TypeOK

\* A new uuid is known to nothing and nobody.
LEMMA NewIdIs ==
    ASSUME TypeOK, CanMake
    PROVE  /\ NewId \in 1..MaxObjects /\ NewId \in 0..MaxObjects /\ NewId # 0
           /\ NewId \notin snaps /\ NewId # pv
           /\ NewId \notin lost /\ NewId \notin overlooked
           /\ \A h \in Handlers : call[h].id # NewId /\ call[h].made # NewId
<1>1. NewId \in FreeIds
  BY DEF NewId, CanMake
<1> QED
  BY <1>1, SnapshotAssumption DEF FreeIds

-----------------------------------------------------------------------------
(* What a step does.                                                       *)

\* Handler h goes to l with the call c, and the others stay.
Moves(h, l, c) ==
    /\ Got(h, l, c)
    /\ pc'[h] = l /\ call'[h] = c
    /\ \A g \in Handlers : g # h => pc'[g] = pc[g] /\ call'[g] = call[g]

Requested(h) == Answered(h) \/ Lost(h) \/ Failed(h)

LEMMA GotMoves ==
    ASSUME TypeOK, NEW h \in Handlers, NEW l, NEW c, Got(h, l, c)
    PROVE  Moves(h, l, c)
  BY DEF TypeOK, Got, Moves

\* The session's part of every step.
LEMMA SessionPart ==
    ASSUME [Next]_vars
    PROVE  SessionStep
<1>1. CASE UNCHANGED vars
  BY <1>1 DEF vars, SessionStep, sessionVars
<1>2. ASSUME NEW h \in Handlers, CreateSnapshot(h) \/ DeleteSnapshot(h)
      PROVE  SessionStep
  BY <1>2 DEF CreateSnapshot, DeleteSnapshot, SessionStep
<1>3. ASSUME NEW h \in Handlers,
             FindName(h) \/ GetVolume(h) \/ Take(h) \/ Fetch(h) \/ FindId(h)
               \/ Remove(h) \/ Check(h)
      PROVE  SessionStep
  BY <1>3 DEF FindName, GetVolume, Take, Fetch, FindId, Remove, Check, SessionStep,
     SessionNext
<1>4. ASSUME NEW h \in Handlers, RequestRefused(h) \/ Relogin(h)
      PROVE  SessionStep
  BY <1>4 DEF RequestRefused, Relogin, SessionStep, SessionNext
<1>5. ASSUME NEW h \in Handlers, Deliver(h) \/ GiveUp(h)
      PROVE  SessionStep
  BY <1>5 DEF Deliver, GiveUp, NoFault, OtherFault, SessionStep, sessionVars, counters
<1>6. CASE Settle \/ SessionEnds \/ Crash
  BY <1>6 DEF Settle, SessionEnds, Crash, SessionStep, SessionNext
<1> QED
  BY <1>1, <1>2, <1>3, <1>4, <1>5, <1>6 DEF Next, HandlerStep

LEMMA CreateSnapshotIs ==
    ASSUME TypeOK, NEW h \in Handlers, CreateSnapshot(h)
    PROVE  /\ Wanted /\ pc[h] = "idle" /\ \A g \in Handlers : ~Heard(g)
           /\ Moves(h, "findName", NoCall)
           /\ UNCHANGED <<kind, snaps, healthy, co, pv, lost, overlooked>>
  BY GotMoves DEF CreateSnapshot, Begin, Wanted, Heard, dsmVars, coVars, ledger

LEMMA FindNameIs ==
    ASSUME TypeOK, NEW h \in Handlers, FindName(h)
    PROVE  /\ pc[h] = "findName"
           /\ UNCHANGED <<kind, snaps, healthy, co, pv, lost, overlooked>>
           /\ \/ \E i \in snaps : Moves(h, "reply", Found(call[h], i))
              \/ Moves(h, "volume", call[h]) /\ snaps = {}
              \/ \E b \in BOOLEAN : /\ Moves(h, "volume", [call[h] EXCEPT !.blind = b])
                                    /\ ~b => snaps = {}
  BY GotMoves DEF FindName, Reply, Goto, dsmVars, coVars, ledger

LEMMA GetVolumeIs ==
    ASSUME TypeOK, NEW h \in Handlers, GetVolume(h)
    PROVE  /\ pc[h] = "volume"
           /\ UNCHANGED <<kind, snaps, healthy, co, pv, lost, overlooked>>
           /\ Moves(h, "take", call[h]) \/ Moves(h, "idle", NoCall)
  BY GotMoves DEF GetVolume, Goto, Fail, dsmVars, coVars, ledger

LEMMA TakeIs ==
    ASSUME TypeOK, NEW h \in Handlers, Take(h)
    PROVE  /\ pc[h] = "take" /\ UNCHANGED <<kind, co, pv, overlooked>>
           /\ \/ /\ CanMake /\ snaps' = snaps \cup {NewId}
                 /\ healthy' \in {healthy, healthy \cup {NewId}}
                 /\ \/ /\ Moves(h, "fetch", Took(call[h], NewId))
                       /\ lost' = IF call[h].heard /\ ~call[h].blind
                                  THEN lost ELSE lost \cup {NewId}
                    \/ /\ Moves(h, "idle", NoCall)
                       /\ lost' = lost \cup {NewId}
              \/ /\ Moves(h, "idle", NoCall)
                 /\ UNCHANGED <<snaps, healthy, lost>>
  BY GotMoves DEF Take, AddSnapshot, Fail, dsmVars, coVars

LEMMA FetchIs ==
    ASSUME TypeOK, NEW h \in Handlers, Fetch(h)
    PROVE  /\ pc[h] = "fetch"
           /\ UNCHANGED <<kind, snaps, healthy, co, pv, overlooked>>
           /\ \/ /\ call[h].id \in snaps /\ Moves(h, "reply", Found(call[h], call[h].id))
                 /\ lost' = lost
              \/ call[h].id \notin snaps /\ Moves(h, "idle", NoCall) /\ lost' = lost
              \/ Moves(h, "idle", NoCall) /\ lost' = lost \cup {call[h].made}
  BY GotMoves DEF Fetch, Reply, Fail, dsmVars, coVars

LEMMA DeleteSnapshotIs ==
    ASSUME TypeOK, NEW h \in Handlers, DeleteSnapshot(h)
    PROVE  /\ pc[h] = "idle" /\ \A g \in Handlers : ~Heard(g)
           /\ co \in {"pending", "ready", "deleting"} /\ co' = "deleting"
           /\ Moves(h, "findId", DeleteCall(pv))
           /\ UNCHANGED <<kind, snaps, healthy, pv, lost, overlooked>>
  BY GotMoves DEF DeleteSnapshot, Begin, Heard, dsmVars, ledger

LEMMA FindIdIs ==
    ASSUME TypeOK, NEW h \in Handlers, FindId(h)
    PROVE  /\ pc[h] = "findId" /\ UNCHANGED <<kind, snaps, healthy, co, pv, lost>>
           /\ \/ Moves(h, "remove", call[h]) /\ overlooked' = overlooked
              \/ /\ Moves(h, "reply", call[h]) /\ call[h].id \notin snaps
                 /\ overlooked' = overlooked
              \/ /\ Moves(h, "reply", call[h])
                 /\ overlooked' = overlooked \cup ({call[h].id} \cap snaps)
  BY GotMoves DEF FindId, Goto, dsmVars, coVars

LEMMA RemoveIs ==
    ASSUME TypeOK, NEW h \in Handlers, Remove(h)
    PROVE  /\ pc[h] = "remove" /\ UNCHANGED <<kind, co, pv, lost, overlooked>>
           /\ \/ /\ snaps' = snaps \ {call[h].id} /\ healthy' = healthy \ {call[h].id}
                 /\ Moves(h, "reply", call[h]) \/ Moves(h, "check", call[h])
              \/ UNCHANGED <<snaps, healthy>> /\ Moves(h, "check", call[h])
  BY GotMoves DEF Remove, RemoveSnapshot, Goto, dsmVars, coVars, ledger

LEMMA CheckIs ==
    ASSUME TypeOK, NEW h \in Handlers, Check(h)
    PROVE  /\ pc[h] = "check" /\ UNCHANGED <<kind, snaps, healthy, co, pv, lost>>
           /\ \/ Moves(h, "idle", NoCall) /\ overlooked' = overlooked
              \/ /\ Moves(h, "reply", call[h]) /\ call[h].id \notin snaps
                 /\ overlooked' = overlooked
              \/ /\ Moves(h, "reply", call[h])
                 /\ overlooked' = overlooked \cup ({call[h].id} \cap snaps)
  BY GotMoves DEF Check, Fail, Goto, dsmVars, coVars

LEMMA DeliverIs ==
    ASSUME TypeOK, NEW h \in Handlers, Deliver(h)
    PROVE  /\ pc[h] = "reply" /\ Moves(h, "idle", NoCall)
           /\ UNCHANGED <<kind, snaps, healthy, overlooked>>
           /\ \/ /\ call[h].heard /\ lost' = lost
                 /\ call[h].op = "delete" => co' = "deleted"
                 /\ call[h].op = "create" =>
                      co' = IF call[h].ready THEN "ready" ELSE "pending"
                 /\ pv' = IF co = "creating" THEN call[h].id ELSE pv
              \/ /\ UNCHANGED <<co, pv>>
                 /\ lost' = lost \cup ({call[h].made} \ {0})
  BY GotMoves, Types DEF Deliver, Fail, dsmVars, coVars

LEMMA GiveUpIs ==
    ASSUME TypeOK, NEW h \in Handlers, GiveUp(h)
    PROVE  /\ Heard(h) /\ Moves(h, pc[h], [call[h] EXCEPT !.heard = FALSE])
           /\ UNCHANGED <<kind, snaps, healthy, co, pv, overlooked>>
           /\ lost' = lost \cup ({call[h].made} \ {0})
  BY GotMoves DEF GiveUp, Heard, dsmVars, coVars

\* A step of the session, or of the DSM alone.
Background ==
    /\ UNCHANGED <<kind, snaps, pc, call, co, pv, lost, overlooked>>
    /\ healthy \subseteq healthy' /\ healthy' \subseteq snaps

LEMMA BackgroundIs ==
    ASSUME TypeOK
    PROVE  /\ \A h \in Handlers : RequestRefused(h) \/ Relogin(h) => Background
           /\ Settle \/ SessionEnds \/ UNCHANGED vars => Background
  BY DEF TypeOK, RequestRefused, Relogin, Settle, SessionEnds, vars, dsmVars, coVars, ledger,
     Background

-----------------------------------------------------------------------------
(* What a step of one handler must leave true.                             *)

\* What the calls of others rely on.
World(h) ==
    /\ co' # co => \A g \in Handlers : g # h => ~Heard(g)
    /\ pv' = pv \/ co = "creating"
    /\ co \in {"deleting", "deleted"} => co' \in {"deleting", "deleted"}
    /\ Wanted' => Wanted /\ snaps \subseteq snaps' /\ healthy \subseteq healthy'
    /\ lost \subseteq lost' /\ overlooked \subseteq overlooked'
    /\ \A i \in snaps' : i \in snaps \/ \A g \in Handlers : call[g].id # i

DataOK ==
    /\ kind \in Kinds
    /\ snaps \subseteq 1..MaxObjects /\ healthy \subseteq snaps
    /\ co \in {"creating", "pending", "ready", "deleting", "deleted"}
    /\ pv \in 0..MaxObjects
    /\ lost \subseteq 1..MaxObjects /\ overlooked \subseteq 1..MaxObjects

Kept(h) ==
    /\ \E l \in Requests \cup {"idle", "reply"}, c \in Call : Moves(h, l, c)
    /\ World(h) /\ DataOK'
    /\ OneHeard' /\ CoInv' /\ SnapsInv' /\ CallInv(h)'

LEMMA KeptIsEnough ==
    ASSUME IInv, SessionInv', NEW h \in Handlers, Kept(h)
    PROVE  IInv'
<1>1. PICK l \in Requests \cup {"idle", "reply"}, c \in Call : Moves(h, l, c)
  BY DEF Kept
<1>2. TypeOK'
  <2>1. /\ pc' \in [Handlers -> Requests \cup {"idle", "reply"}]
        /\ call' \in [Handlers -> Call]
    BY <1>1 DEF IInv, TypeOK, Moves, Got
  <2>2. SessionTypeOK' /\ DataOK'
    BY DEF SessionInv, Kept
  <2> QED
    BY <2>1, <2>2 DEF TypeOK, DataOK
<1>3. ASSUME NEW g \in Handlers, g # h PROVE CallInv(g)'
  <2>1. pc'[g] = pc[g] /\ call'[g] = call[g] /\ CallInv(g) /\ World(h)
    BY <1>1, <1>3 DEF Moves, IInv, Kept
  <2>2. Heard(g) => co' = co
    BY <1>3, <2>1 DEF World
  <2>3. CASE pc[g] = "idle"
    <3>1. call[g] = NoCall
      BY <2>1, <2>3 DEF CallInv, Creates, Deletes
    <3> QED
      BY <2>1, <2>3, <3>1 DEF CallInv, NoCall
  <2>4. CASE Creates(g) /\ pc[g] # "idle"
    <3>1. call[g].heard => co' = co
      BY <2>2, <2>4 DEF Heard
    <3>2. Creates(g)'
      BY <2>1, <2>4, <3>1 DEF World, Creates, Wanted
    <3> QED
      BY <3>2 DEF CallInv
  <2>5. CASE Deletes(g) /\ pc[g] # "idle"
    <3>1. call[g].heard => co' = co
      BY <2>2, <2>5 DEF Heard
    <3>2. pv' = pv
      BY <2>1, <2>5 DEF World, Deletes
    <3>3. Deletes(g)'
      BY <2>1, <2>5, <3>1, <3>2 DEF World, Deletes
    <3> QED
      BY <3>3 DEF CallInv
  <2> QED
    BY <2>1, <2>3, <2>4, <2>5 DEF CallInv
<1> QED
  BY <1>2, <1>3 DEF IInv, Kept

\* A step makes the CO wait for at most one call more, if it waited for none.
LEMMA OneHeardKept ==
    ASSUME IInv, NEW h \in Handlers, NEW l, NEW c, Moves(h, l, c),
           l # "idle" /\ c.heard => Heard(h) \/ \A g \in Handlers : ~Heard(g)
    PROVE  OneHeard'
  BY DEF IInv, OneHeard, Heard, Moves

LEMMA SnapsKept ==
    ASSUME IInv, NEW h \in Handlers, NEW l, NEW c, Moves(h, l, c),
           pv' = pv \/ co = "creating", lost \subseteq lost',
           \A i \in snaps' : i \in snaps \/ i = c.made \/ i \in lost',
           call[h].made \in snaps' =>
              call[h].made = c.made \/ call[h].made = pv' \/ call[h].made \in lost'
    PROVE  SnapsInv'
<1> SUFFICES ASSUME NEW i \in snaps'
             PROVE  i = pv' \/ i \in lost' \/ \E g \in Handlers : call'[g].made = i
  BY DEF SnapsInv
<1>1. /\ call'[h] = c
      /\ \A g \in Handlers : g # h => call'[g] = call[g]
  BY DEF Moves
<1>2. CASE i \in snaps
  <2>1. CASE i = pv
    <3>1. pv # 0
      BY <1>2, <2>1, Types DEF IInv
    <3> QED
      BY <2>1, <3>1 DEF IInv, CoInv
  <2>2. CASE \E g \in Handlers : call[g].made = i
    BY <1>1, <2>2
  <2> QED
    BY <1>2, <2>1, <2>2 DEF IInv, SnapsInv
<1>3. CASE i = c.made
  BY <1>1, <1>3
<1> QED
  BY <1>2, <1>3

\* What the invariant says of one handler.
LEMMA Mine ==
    ASSUME IInv, NEW h \in Handlers
    PROVE  /\ TypeOK /\ DataOK /\ CoInv /\ CallInv(h) /\ call[h] \in Call
           /\ call[h].id \in 0..MaxObjects /\ call[h].made \in 0..MaxObjects
           /\ call[h].heard \in BOOLEAN
           /\ \A g \in Handlers : Heard(g) /\ Heard(h) => g = h
           /\ NoCall \in Call /\ NoCall.op = "create" /\ NoCall.id = 0
           /\ NoCall.made = 0 /\ NoCall.heard = TRUE
           /\ 0 \notin snaps /\ lost \subseteq 1..MaxObjects
           /\ \A i \in snaps : i \in 1..MaxObjects /\ i \in 0..MaxObjects
<1>1. TypeOK /\ DataOK /\ lost \subseteq 1..MaxObjects
  BY DEF IInv, TypeOK, DataOK
<1>2. 0 \notin snaps /\ \A i \in snaps : i \in 1..MaxObjects /\ i \in 0..MaxObjects
  BY <1>1, Types, SnapshotAssumption DEF TypeOK
<1> QED
  BY <1>1, <1>2, Types, NoCallIs DEF IInv, OneHeard

\* A handler that has finished, leaving nothing, keeps the invariant.
LEMMA FailKeeps ==
    ASSUME IInv, NEW h \in Handlers, Moves(h, "idle", NoCall),
           UNCHANGED <<kind, snaps, healthy, co, pv, overlooked>>,
           lost' \subseteq 1..MaxObjects, lost \subseteq lost',
           call[h].made \in snaps => call[h].made = pv \/ call[h].made \in lost'
    PROVE  Kept(h)
<1>1. OneHeard'
  BY OneHeardKept
<1>2. SnapsInv'
  BY Mine, SnapsKept
<1>3. CallInv(h)'
  BY DEF Moves, CallInv, NoCall
<1>4. CoInv' /\ DataOK'
  <2>1. CoInv /\ DataOK
    BY Mine
  <2> QED
    BY <2>1 DEF CoInv, DataOK, RecordedSnapshotKept, ReadyIsRecorded
<1>5. World(h)
  BY DEF World, Wanted
<1> QED
  BY <1>1, <1>2, <1>3, <1>4, <1>5, Mine DEF Kept

\* A step that changes nothing but what its own handler knows.
LEMMA QuietKeeps ==
    ASSUME IInv, NEW h \in Handlers, NEW l \in Requests \cup {"idle", "reply"},
           NEW c \in Call, Moves(h, l, c), pc[h] # "idle",
           UNCHANGED <<kind, snaps, healthy, co, pv, lost, overlooked>>,
           c.made = call[h].made, c.heard = call[h].heard,
           CallInv(h)'
    PROVE  Kept(h)
<1>1. OneHeard'
  BY OneHeardKept DEF Heard
<1>2. SnapsInv'
  BY SnapsKept
<1>3. CoInv' /\ DataOK'
  <2>1. CoInv /\ DataOK
    BY Mine
  <2> QED
    BY <2>1 DEF CoInv, DataOK, RecordedSnapshotKept, ReadyIsRecorded
<1>4. World(h)
  BY DEF World, Wanted
<1> QED
  BY <1>1, <1>2, <1>3, <1>4 DEF Kept

-----------------------------------------------------------------------------
(* CreateSnapshot.                                                         *)

LEMMA CreateSnapshotKeeps ==
    ASSUME IInv, NEW h \in Handlers, CreateSnapshot(h)
    PROVE  Kept(h)
<1>1. /\ Wanted /\ pc[h] = "idle" /\ \A g \in Handlers : ~Heard(g)
      /\ Moves(h, "findName", NoCall)
      /\ UNCHANGED <<kind, snaps, healthy, co, pv, lost, overlooked>>
  BY Mine, CreateSnapshotIs
<1>2. OneHeard'
  BY <1>1, OneHeardKept
<1>3. call[h].made = 0
  BY <1>1, Mine DEF CallInv, Creates, Deletes
<1>4. SnapsInv'
  BY <1>1, <1>3, Mine, SnapsKept
<1>5. CallInv(h)'
  BY <1>1, Mine DEF Moves, CallInv, Creates, Wanted
<1>6. CoInv' /\ DataOK'
  <2>1. CoInv /\ DataOK
    BY Mine
  <2> QED
    BY <1>1, <2>1 DEF CoInv, DataOK, RecordedSnapshotKept, ReadyIsRecorded
<1>7. World(h)
  BY <1>1 DEF World, Wanted
<1> QED
  BY <1>1, <1>2, <1>4, <1>5, <1>6, <1>7, Mine DEF Kept, Requests

\* While the CO wants the snapshot and there is none, it has recorded none.
LEMMA NoneRecorded ==
    ASSUME IInv, Wanted, snaps = {}
    PROVE  co = "creating"
  BY Mine DEF IInv, CoInv, RecordedSnapshotKept, Wanted

LEMMA FindNameKeeps ==
    ASSUME IInv, NEW h \in Handlers, FindName(h)
    PROVE  Kept(h)
<1>1. /\ pc[h] = "findName"
      /\ UNCHANGED <<kind, snaps, healthy, co, pv, lost, overlooked>>
  BY Mine, FindNameIs
<1>2. /\ Creates(h) /\ call[h].made = 0 /\ call[h] \in Call /\ call[h].op = "create"
      /\ call[h].heard => Wanted
  BY <1>1, Mine DEF CallInv, Creates, Deletes
<1>3. ASSUME NEW i \in snaps, Moves(h, "reply", Found(call[h], i))
      PROVE  Kept(h)
  <2>1. i \in 0..MaxObjects
    BY <1>3, Mine
  <2>2. LET f == Found(call[h], i) IN
        /\ f \in Call /\ f.op = "create" /\ f.made = 0 /\ f.heard = call[h].heard
        /\ f.id = i /\ f.ready = (i \in healthy)
    BY <1>2, <2>1, FoundIs
  <2>3. CallInv(h)'
    BY <1>1, <1>2, <1>3, <2>2 DEF Moves, CallInv, Creates, Wanted
  <2> QED
    BY <1>1, <1>2, <1>3, <2>2, <2>3, QuietKeeps
<1>4. ASSUME NEW c \in Call, Moves(h, "volume", c), c.op = "create", c.made = 0,
             c.heard = call[h].heard, ~c.blind => snaps = {}
      PROVE  Kept(h)
  <2>1. c.heard /\ ~c.blind => co = "creating"
    BY <1>2, <1>4, NoneRecorded
  <2>2. CallInv(h)'
    BY <1>1, <1>2, <1>4, <2>1 DEF Moves, CallInv, Creates, Wanted
  <2> QED
    BY <1>1, <1>2, <1>4, <2>2, QuietKeeps DEF Requests
<1>5. ASSUME NEW b \in BOOLEAN, Moves(h, "volume", [call[h] EXCEPT !.blind = b]),
             ~b => snaps = {}
      PROVE  Kept(h)
  <2>1. LET f == [call[h] EXCEPT !.blind = b] IN
        /\ f \in Call /\ f.op = "create" /\ f.made = 0 /\ f.heard = call[h].heard
        /\ f.blind = b
    BY <1>2, BlindIs
  <2> QED
    BY <1>4, <1>5, <2>1
<1>6. \/ \E i \in snaps : Moves(h, "reply", Found(call[h], i))
      \/ Moves(h, "volume", call[h]) /\ snaps = {}
      \/ \E b \in BOOLEAN : /\ Moves(h, "volume", [call[h] EXCEPT !.blind = b])
                            /\ ~b => snaps = {}
  BY Mine, FindNameIs
<1> QED
  BY <1>2, <1>3, <1>4, <1>5, <1>6

LEMMA GetVolumeKeeps ==
    ASSUME IInv, NEW h \in Handlers, GetVolume(h)
    PROVE  Kept(h)
<1>1. /\ pc[h] = "volume"
      /\ UNCHANGED <<kind, snaps, healthy, co, pv, lost, overlooked>>
      /\ Moves(h, "take", call[h]) \/ Moves(h, "idle", NoCall)
  BY Mine, GetVolumeIs
<1>2. Creates(h) /\ call[h].made = 0 /\ call[h] \in Call
  BY <1>1, Mine DEF CallInv, Creates, Deletes
<1>3. CASE Moves(h, "take", call[h])
  <2>1. CallInv(h)'
    BY <1>1, <1>2, <1>3 DEF Moves, CallInv, Creates, Wanted
  <2> QED
    BY <1>1, <1>2, <1>3, <2>1, QuietKeeps DEF Requests
<1>4. CASE Moves(h, "idle", NoCall)
  BY <1>1, <1>2, <1>4, Mine, FailKeeps
<1> QED
  BY <1>1, <1>3, <1>4

\* A new snapshot is lost, or in the hands of a call the CO waits for and had
\* no other for.
LEMMA TakeKeeps ==
    ASSUME IInv, NEW h \in Handlers, Take(h)
    PROVE  Kept(h)
<1>1. pc[h] = "take" /\ UNCHANGED <<kind, co, pv, overlooked>>
  BY Mine, TakeIs
<1>2. /\ Creates(h) /\ call[h].made = 0 /\ call[h] \in Call /\ call[h].op = "create"
      /\ call[h].heard /\ ~call[h].blind => co = "creating"
      /\ call[h].heard => Wanted
  BY <1>1, Mine DEF CallInv, Creates, Deletes
<1>3. CASE Moves(h, "idle", NoCall) /\ UNCHANGED <<snaps, healthy, lost>>
  BY <1>1, <1>2, <1>3, Mine, FailKeeps
<1>4. ASSUME CanMake, snaps' = snaps \cup {NewId},
             healthy' \in {healthy, healthy \cup {NewId}},
             lost' \in {lost, lost \cup {NewId}}
      PROVE  World(h) /\ CoInv' /\ DataOK'
  <2>1. /\ NewId \in 1..MaxObjects /\ NewId \notin snaps /\ NewId # pv
        /\ \A g \in Handlers : call[g].id # NewId
    BY <1>4, Mine, NewIdIs
  <2>2. World(h)
    BY <1>1, <1>4, <2>1 DEF World, Wanted
  <2>3. CoInv' /\ DataOK'
    <3>1. CoInv /\ DataOK
      BY Mine
    <3> QED
      BY <1>1, <1>4, <2>1, <3>1 DEF CoInv, DataOK, RecordedSnapshotKept, ReadyIsRecorded
  <2> QED
    BY <2>2, <2>3
<1>5. CASE /\ CanMake /\ snaps' = snaps \cup {NewId}
           /\ healthy' \in {healthy, healthy \cup {NewId}}
           /\ Moves(h, "idle", NoCall) /\ lost' = lost \cup {NewId}
  <2>1. OneHeard' /\ CallInv(h)'
    BY <1>5, OneHeardKept DEF Moves, CallInv
  <2>2. SnapsInv'
    BY <1>1, <1>2, <1>5, Mine, SnapsKept
  <2> QED
    BY <1>4, <1>5, <2>1, <2>2, Mine DEF Kept
<1>6. CASE /\ CanMake /\ snaps' = snaps \cup {NewId}
           /\ healthy' \in {healthy, healthy \cup {NewId}}
           /\ Moves(h, "fetch", Took(call[h], NewId))
           /\ lost' = IF call[h].heard /\ ~call[h].blind
                      THEN lost ELSE lost \cup {NewId}
  <2>1. NewId \in 0..MaxObjects /\ NewId # 0
    BY <1>6, Mine, NewIdIs
  <2>2. LET f == Took(call[h], NewId) IN
        /\ f \in Call /\ f.op = "create" /\ f.heard = call[h].heard
        /\ f.blind = call[h].blind /\ f.id = NewId /\ f.made = NewId
    BY <1>2, <2>1, TookIs
  <2>3. OneHeard'
    BY <1>1, <1>6, <2>2, OneHeardKept DEF Heard
  <2>4. SnapsInv'
    BY <1>1, <1>2, <1>6, <2>2, Mine, SnapsKept
  <2>5. CallInv(h)'
    BY <1>1, <1>2, <1>6, <2>1, <2>2 DEF Moves, CallInv, Creates, Wanted
  <2> QED
    BY <1>4, <1>6, <2>2, <2>3, <2>4, <2>5 DEF Kept, Requests
<1> QED
  BY <1>3, <1>5, <1>6, Mine, TakeIs

LEMMA FetchKeeps ==
    ASSUME IInv, NEW h \in Handlers, Fetch(h)
    PROVE  Kept(h)
<1>1. pc[h] = "fetch" /\ UNCHANGED <<kind, snaps, healthy, co, pv, overlooked>>
  BY Mine, FetchIs
<1>2. /\ Creates(h) /\ call[h] \in Call /\ call[h].op = "create"
      /\ call[h].id \in 0..MaxObjects
      /\ call[h].made # 0 => call[h].id = call[h].made
      /\ call[h].made # 0
  BY <1>1, Mine DEF CallInv, Creates, Deletes
<1>3. CASE /\ call[h].id \in snaps /\ Moves(h, "reply", Found(call[h], call[h].id))
           /\ lost' = lost
  <2>1. LET f == Found(call[h], call[h].id) IN
        /\ f \in Call /\ f.op = "create" /\ f.made = call[h].made
        /\ f.heard = call[h].heard /\ f.id = call[h].id /\ f.ready = (call[h].id \in healthy)
    BY <1>2, FoundIs
  <2>2. CallInv(h)'
    BY <1>1, <1>2, <1>3, <2>1 DEF Moves, CallInv, Creates, Wanted
  <2> QED
    BY <1>1, <1>3, <2>1, <2>2, QuietKeeps
<1>4. CASE call[h].id \notin snaps /\ Moves(h, "idle", NoCall) /\ lost' = lost
  BY <1>1, <1>2, <1>4, Mine, FailKeeps
<1>5. CASE Moves(h, "idle", NoCall) /\ lost' = lost \cup {call[h].made}
  <2>1. lost' \subseteq 1..MaxObjects
    <3>1. lost \subseteq 1..MaxObjects /\ call[h].made \in 0..MaxObjects
      BY Mine
    <3>2. call[h].made \in 1..MaxObjects
      BY <1>2, <3>1, SnapshotAssumption
    <3> QED
      BY <1>5, <3>1, <3>2
  <2> QED
    BY <1>1, <1>5, <2>1, FailKeeps
<1> QED
  BY <1>3, <1>4, <1>5, Mine, FetchIs

-----------------------------------------------------------------------------
(* DeleteSnapshot.                                                         *)

LEMMA DeleteSnapshotKeeps ==
    ASSUME IInv, NEW h \in Handlers, DeleteSnapshot(h)
    PROVE  Kept(h)
<1>1. /\ pc[h] = "idle" /\ \A g \in Handlers : ~Heard(g)
      /\ co \in {"pending", "ready", "deleting"} /\ co' = "deleting"
      /\ Moves(h, "findId", DeleteCall(pv))
      /\ UNCHANGED <<kind, snaps, healthy, pv, lost, overlooked>>
  BY Mine, DeleteSnapshotIs
<1>2. CoInv /\ DataOK /\ pv \in 0..MaxObjects
  BY Mine DEF DataOK
<1>3. LET f == DeleteCall(pv) IN
      /\ f \in Call /\ f.op = "delete" /\ f.heard = TRUE /\ f.id = pv /\ f.made = 0
  BY <1>2, DeleteCallIs
<1>4. OneHeard'
  BY <1>1, OneHeardKept
<1>5. call[h].made = 0
  BY <1>1, Mine DEF CallInv, Creates, Deletes
<1>6. SnapsInv'
  BY <1>1, <1>5, Mine, SnapsKept
<1>7. CallInv(h)'
  BY <1>1, <1>3 DEF Moves, CallInv, Deletes
<1>8. CoInv' /\ DataOK'
  BY <1>1, <1>2 DEF CoInv, DataOK, RecordedSnapshotKept, ReadyIsRecorded
<1>9. World(h)
  BY <1>1 DEF World, Wanted
<1> QED
  BY <1>1, <1>3, <1>4, <1>6, <1>7, <1>8, <1>9 DEF Kept, Requests

\* A step of a deletion that takes no snapshot away.
LEMMA DeletionStep ==
    ASSUME IInv, NEW h \in Handlers, NEW l \in {"remove", "check", "reply"},
           pc[h] \in {"findId", "remove", "check"}, Moves(h, l, call[h]),
           UNCHANGED <<kind, snaps, healthy, co, pv, lost>>,
           overlooked' \in {overlooked, overlooked \cup ({call[h].id} \cap snaps)},
           l = "reply" => call[h].id \notin snaps \ overlooked'
    PROVE  Kept(h)
<1>1. Deletes(h) /\ call[h] \in Call
  BY Mine DEF CallInv, Creates
<1>2. OneHeard' /\ SnapsInv'
  BY OneHeardKept, SnapsKept DEF Heard
<1>3. CallInv(h)'
  BY <1>1 DEF Moves, CallInv, Deletes
<1>4. CoInv' /\ DataOK'
  <2>1. CoInv /\ DataOK /\ \A i \in snaps : i \in 1..MaxObjects
    BY Mine
  <2> QED
    BY <2>1 DEF CoInv, DataOK, RecordedSnapshotKept, ReadyIsRecorded
<1>5. World(h)
  BY DEF World, Wanted
<1> QED
  BY <1>1, <1>2, <1>3, <1>4, <1>5 DEF Kept, Requests

LEMMA FindIdKeeps ==
    ASSUME IInv, NEW h \in Handlers, FindId(h)
    PROVE  Kept(h)
  BY Mine, FindIdIs, DeletionStep

LEMMA CheckKeeps ==
    ASSUME IInv, NEW h \in Handlers, Check(h)
    PROVE  Kept(h)
<1>1. pc[h] = "check" /\ UNCHANGED <<kind, snaps, healthy, co, pv, lost>>
  BY Mine, CheckIs
<1>2. CASE Moves(h, "idle", NoCall) /\ overlooked' = overlooked
  <2>1. call[h].made = 0
    BY <1>1, Mine DEF CallInv, Creates, Deletes
  <2> QED
    BY <1>1, <1>2, <2>1, Mine, FailKeeps
<1>3. CASE /\ Moves(h, "reply", call[h])
           /\ \/ call[h].id \notin snaps /\ overlooked' = overlooked
              \/ overlooked' = overlooked \cup ({call[h].id} \cap snaps)
  BY <1>1, <1>3, DeletionStep
<1> QED
  BY <1>2, <1>3, Mine, CheckIs

LEMMA RemoveKeeps ==
    ASSUME IInv, NEW h \in Handlers, Remove(h)
    PROVE  Kept(h)
<1>1. pc[h] = "remove" /\ UNCHANGED <<kind, co, pv, lost, overlooked>>
  BY Mine, RemoveIs
<1>2. Deletes(h) /\ call[h] \in Call
  BY <1>1, Mine DEF CallInv, Creates
<1>3. CASE UNCHANGED <<snaps, healthy>> /\ Moves(h, "check", call[h])
  BY <1>1, <1>3, DeletionStep
<1>4. ASSUME NEW l \in {"reply", "check"}, Moves(h, l, call[h]),
             snaps' = snaps \ {call[h].id}, healthy' = healthy \ {call[h].id}
      PROVE  Kept(h)
  <2>1. OneHeard' /\ SnapsInv'
    BY <1>1, <1>4, OneHeardKept, SnapsKept DEF Heard
  <2>2. CallInv(h)'
    BY <1>1, <1>2, <1>4 DEF Moves, CallInv, Deletes
  <2>3. CoInv' /\ DataOK'
    <3>1. CoInv /\ DataOK
      BY Mine
    <3> QED
      BY <1>1, <1>2, <1>4, <3>1
         DEF Deletes, CoInv, DataOK, RecordedSnapshotKept, ReadyIsRecorded
  <2>4. World(h)
    BY <1>1, <1>2, <1>4 DEF World, Wanted, Deletes
  <2> QED
    BY <1>2, <1>4, <2>1, <2>2, <2>3, <2>4 DEF Kept, Requests
<1> QED
  BY <1>3, <1>4, Mine, RemoveIs

-----------------------------------------------------------------------------
(* The CO, the DSM and the process.                                        *)

\* The CO learns of the snapshot it waits for.
LEMMA CreatedKeeps ==
    ASSUME IInv, NEW h \in Handlers, pc[h] = "reply", Moves(h, "idle", NoCall),
           UNCHANGED <<kind, snaps, healthy, lost, overlooked>>,
           Creates(h), call[h].heard,
           co' = IF call[h].ready THEN "ready" ELSE "pending",
           pv' = IF co = "creating" THEN call[h].id ELSE pv
    PROVE  Kept(h)
<1>1. /\ CoInv /\ DataOK /\ Wanted /\ call[h].id \in snaps /\ call[h].id \in 1..MaxObjects
      /\ call[h].ready => call[h].id \in healthy
      /\ call[h].made # 0 => call[h].id = call[h].made
      /\ call[h].made # 0 /\ call[h].made \notin lost => co = "creating"
  BY Mine DEF Creates
<1>2. \A g \in Handlers : g # h => ~Heard(g)
  BY Mine DEF Heard
<1>3. ASSUME co = "pending"
      PROVE  call[h].id = pv \/ call[h].id \in lost
  <2>1. CASE \E g \in Handlers : call[g].made = call[h].id
    <3>1. PICK g \in Handlers : call[g].made = call[h].id
      BY <2>1
    <3>2. call[g].made # 0 /\ CallInv(g) /\ NoCall.made = 0
      BY <1>1, <3>1, Mine
    <3>3. Creates(g)
      BY <3>2 DEF CallInv, Deletes
    <3> QED
      BY <1>3, <3>1, <3>2, <3>3 DEF Creates
  <2> QED
    BY <1>1, <2>1 DEF IInv, SnapsInv
<1>4. OneHeard'
  BY OneHeardKept
<1>5. SnapsInv'
  BY <1>1, Mine, SnapsKept
<1>6. CallInv(h)'
  BY DEF Moves, CallInv, NoCall
<1>7. RecordedSnapshotKept'
  BY <1>1 DEF RecordedSnapshotKept, CoInv, Wanted
<1>8. ReadyIsRecorded'
  BY <1>1, <1>3 DEF ReadyIsRecorded, CoInv, Wanted
<1>9. CoInv' /\ DataOK'
  BY <1>1, <1>7, <1>8 DEF CoInv, DataOK, Wanted
<1>10. World(h)
  BY <1>1, <1>2 DEF World, Wanted
<1> QED
  BY <1>4, <1>5, <1>6, <1>9, <1>10, Mine DEF Kept

\* The CO learns that the snapshot is deleted.
LEMMA DeletedKeeps ==
    ASSUME IInv, NEW h \in Handlers, pc[h] = "reply", Moves(h, "idle", NoCall),
           UNCHANGED <<kind, snaps, healthy, lost, overlooked, pv>>,
           Deletes(h), call[h].heard, co' = "deleted"
    PROVE  Kept(h)
<1>1. CoInv /\ DataOK /\ call[h].made = 0 /\ co = "deleting" /\ pv \notin snaps \ overlooked
  BY Mine DEF Deletes
<1>2. \A g \in Handlers : g # h => ~Heard(g)
  BY Mine DEF Heard
<1>3. OneHeard' /\ SnapsInv'
  BY <1>1, Mine, OneHeardKept, SnapsKept
<1>4. CallInv(h)'
  BY DEF Moves, CallInv, NoCall
<1>5. CoInv' /\ DataOK'
  BY <1>1 DEF CoInv, DataOK, RecordedSnapshotKept, ReadyIsRecorded
<1>6. World(h)
  BY <1>1, <1>2 DEF World, Wanted
<1> QED
  BY <1>3, <1>4, <1>5, <1>6, Mine DEF Kept

LEMMA DeliverKeeps ==
    ASSUME IInv, NEW h \in Handlers, Deliver(h)
    PROVE  Kept(h)
<1>1. /\ pc[h] = "reply" /\ Moves(h, "idle", NoCall)
      /\ UNCHANGED <<kind, snaps, healthy, overlooked>>
  BY Mine, DeliverIs
<1>2. Creates(h) \/ Deletes(h)
  BY <1>1, Mine DEF CallInv
<1>3. CASE UNCHANGED <<co, pv>> /\ lost' = lost \cup ({call[h].made} \ {0})
  <2>1. lost' \subseteq 1..MaxObjects
    <3>1. lost \subseteq 1..MaxObjects /\ call[h].made \in 0..MaxObjects
      BY Mine
    <3>2. call[h].made # 0 => call[h].made \in 1..MaxObjects
      BY <3>1, SnapshotAssumption
    <3> QED
      BY <1>3, <3>1, <3>2
  <2> QED
    BY <1>1, <1>3, <2>1, Mine, FailKeeps
<1>4. CASE call[h].heard /\ lost' = lost /\ Creates(h)
              /\ co' = (IF call[h].ready THEN "ready" ELSE "pending")
              /\ pv' = (IF co = "creating" THEN call[h].id ELSE pv)
  BY <1>1, <1>4, CreatedKeeps
<1>5. CASE call[h].heard /\ lost' = lost /\ Deletes(h) /\ co' = "deleted"
              /\ pv' = (IF co = "creating" THEN call[h].id ELSE pv)
  <2>1. pv' = pv
    BY <1>5 DEF Deletes
  <2> QED
    BY <1>1, <1>5, <2>1, DeletedKeeps
<1> QED
  BY <1>2, <1>3, <1>4, <1>5, Mine, DeliverIs DEF Creates, Deletes

LEMMA GiveUpKeeps ==
    ASSUME IInv, NEW h \in Handlers, GiveUp(h)
    PROVE  Kept(h)
<1> DEFINE f == [call[h] EXCEPT !.heard = FALSE]
<1>1. /\ pc[h] # "idle" /\ Moves(h, pc[h], f)
      /\ UNCHANGED <<kind, snaps, healthy, co, pv, overlooked>>
      /\ lost' = lost \cup ({call[h].made} \ {0})
  BY Mine, GiveUpIs DEF Heard
<1>2. /\ f \in Call /\ f.op = call[h].op /\ f.made = call[h].made /\ f.heard = FALSE
      /\ f.id = call[h].id /\ f.blind = call[h].blind /\ f.ready = call[h].ready
  BY Mine, UnheardIs
<1> HIDE DEF f
<1>3. OneHeard'
  BY <1>1, <1>2, OneHeardKept
<1>4. SnapsInv'
  BY <1>1, <1>2, SnapsKept
<1>5. CallInv(h)'
  <2>1. CASE Creates(h)
    BY <1>1, <1>2, <2>1 DEF Moves, CallInv, Creates, Wanted
  <2>2. CASE Deletes(h)
    BY <1>1, <1>2, <2>2 DEF Moves, CallInv, Deletes
  <2> QED
    BY <1>1, <2>1, <2>2, Mine DEF CallInv
<1>6. lost' \subseteq 1..MaxObjects
  <2>1. lost \subseteq 1..MaxObjects /\ call[h].made \in 0..MaxObjects
    BY Mine
  <2>2. call[h].made # 0 => call[h].made \in 1..MaxObjects
    BY <2>1, SnapshotAssumption
  <2> QED
    BY <1>1, <2>1, <2>2
<1>7. CoInv' /\ DataOK'
  <2>1. CoInv /\ DataOK
    BY Mine
  <2> QED
    BY <1>1, <1>6, <2>1 DEF CoInv, DataOK, RecordedSnapshotKept, ReadyIsRecorded
<1>8. World(h)
  BY <1>1 DEF World, Wanted
<1>9. pc[h] \in Requests \cup {"idle", "reply"}
  BY Mine DEF TypeOK
<1> QED
  BY <1>1, <1>2, <1>3, <1>4, <1>5, <1>7, <1>8, <1>9 DEF Kept

-----------------------------------------------------------------------------
(* Steps of no handler, and all of them together.                          *)

LEMMA BackgroundKeeps ==
    ASSUME IInv, SessionInv', Background
    PROVE  IInv'
<1>1. /\ UNCHANGED <<kind, snaps, pc, call, co, pv, lost, overlooked>>
      /\ healthy \subseteq healthy' /\ healthy' \subseteq snaps
  BY DEF Background
<1>2. TypeOK'
  BY <1>1 DEF IInv, TypeOK, SessionInv
<1>3. OneHeard' /\ SnapsInv'
  BY <1>1 DEF IInv, OneHeard, Heard, SnapsInv
<1>4. CoInv'
  <2>1. ReadyIsRecorded /\ RecordedSnapshotKept /\ (co = "creating" <=> pv = 0)
    BY DEF IInv, CoInv
  <2>2. ReadyIsRecorded'
    BY <1>1, <2>1 DEF ReadyIsRecorded
  <2>3. RecordedSnapshotKept'
    BY <1>1, <2>1 DEF RecordedSnapshotKept
  <2> QED
    BY <1>1, <2>1, <2>2, <2>3 DEF CoInv
<1>5. ASSUME NEW h \in Handlers PROVE CallInv(h)'
  <2>1. CallInv(h)
    BY DEF IInv
  <2>2. Creates(h) => Creates(h)'
    BY <1>1 DEF Creates, Wanted
  <2>3. Deletes(h) => Deletes(h)'
    BY <1>1 DEF Deletes
  <2> QED
    BY <1>1, <2>1, <2>2, <2>3 DEF CallInv, NoCall
<1> QED
  BY <1>2, <1>3, <1>4, <1>5 DEF IInv

\* What a call has taken is lost with the process.
LEMMA CrashKeeps ==
    ASSUME IInv, SessionInv', Crash
    PROVE  IInv'
<1>1. /\ UNCHANGED <<kind, snaps, healthy, co, pv, overlooked>>
      /\ pc' = [h \in Handlers |-> "idle"] /\ call' = [h \in Handlers |-> NoCall]
      /\ lost' = lost \cup ({call[h].made : h \in Handlers} \ {0})
  BY DEF Crash, dsmVars, coVars
<1>2. \A h \in Handlers : pc'[h] = "idle" /\ call'[h] = NoCall
  BY <1>1
<1>3. lost' \subseteq 1..MaxObjects
  <2>1. \A h \in Handlers : call[h].made # 0 => call[h].made \in 1..MaxObjects
    BY Types, SnapshotAssumption DEF IInv
  <2> QED
    BY <1>1, <2>1 DEF IInv, TypeOK
<1>4. TypeOK'
  <2>1. call' \in [Handlers -> Call]
    BY <1>1, NoCallIs
  <2> QED
    BY <1>1, <1>3, <2>1 DEF IInv, TypeOK, SessionInv
<1>5. OneHeard'
  BY <1>2 DEF OneHeard, Heard
<1>6. CoInv'
  <2>1. ReadyIsRecorded /\ RecordedSnapshotKept /\ (co = "creating" <=> pv = 0)
    BY DEF IInv, CoInv
  <2>2. ReadyIsRecorded' /\ RecordedSnapshotKept'
    BY <1>1, <2>1 DEF ReadyIsRecorded, RecordedSnapshotKept
  <2> QED
    BY <1>1, <2>1, <2>2 DEF CoInv
<1>7. SnapsInv'
  <2> SUFFICES ASSUME NEW i \in snaps PROVE i = pv \/ i \in lost'
    BY <1>1 DEF SnapsInv
  <2>1. i # 0
    BY SnapshotAssumption DEF IInv, TypeOK
  <2> QED
    BY <1>1, <2>1 DEF IInv, SnapsInv
<1>8. \A h \in Handlers : CallInv(h)'
  BY <1>2 DEF CallInv, NoCall
<1> QED
  BY <1>4, <1>5, <1>6, <1>7, <1>8 DEF IInv

LEMMA IInvInit == Init => IInv
<1> SUFFICES ASSUME Init PROVE IInv
  OBVIOUS
<1>1. SessionInv /\ SessionTypeOK
  BY SessionInvInit DEF Init, SessionInv
<1>2. TypeOK
  BY <1>1, NoCallIs, SnapshotAssumption DEF Init, TypeOK
<1>3. OneHeard /\ CoInv /\ SnapsInv
  BY DEF Init, OneHeard, Heard, CoInv, RecordedSnapshotKept, ReadyIsRecorded, SnapsInv
<1>4. \A h \in Handlers : CallInv(h)
  BY DEF Init, CallInv
<1> QED
  BY <1>1, <1>2, <1>3, <1>4 DEF IInv

LEMMA IInvNext == IInv /\ [Next]_vars => IInv'
<1> SUFFICES ASSUME IInv, [Next]_vars PROVE IInv'
  OBVIOUS
<1>1. SessionInv'
  BY SessionPart, SessionInvNext DEF IInv
<1>2. TypeOK
  BY DEF IInv
<1>3. ASSUME NEW h \in Handlers,
             \/ CreateSnapshot(h) \/ DeleteSnapshot(h) \/ GiveUp(h)
             \/ FindName(h) \/ GetVolume(h) \/ Take(h) \/ Fetch(h)
             \/ FindId(h) \/ Remove(h) \/ Check(h) \/ Deliver(h)
      PROVE  IInv'
  <2>1. Kept(h)
    BY <1>3, CreateSnapshotKeeps, DeleteSnapshotKeeps, GiveUpKeeps, FindNameKeeps,
       GetVolumeKeeps, TakeKeeps, FetchKeeps, FindIdKeeps, RemoveKeeps, CheckKeeps,
       DeliverKeeps
  <2> QED
    BY <1>1, <2>1, KeptIsEnough
<1>4. ASSUME NEW h \in Handlers, RequestRefused(h) \/ Relogin(h)
      PROVE  IInv'
  BY <1>1, <1>2, <1>4, BackgroundIs, BackgroundKeeps
<1>5. CASE Settle \/ SessionEnds \/ UNCHANGED vars
  BY <1>1, <1>2, <1>5, BackgroundIs, BackgroundKeeps
<1>6. CASE Crash
  BY <1>1, <1>6, CrashKeeps
<1> QED
  BY <1>3, <1>4, <1>5, <1>6 DEF Next, HandlerStep

LEMMA IInvAlways == Spec => []IInv
<1> QED
  BY IInvInit, IInvNext, PTL DEF Spec

-----------------------------------------------------------------------------
(* What it shows.                                                          *)

\* Every variable keeps its type whatever calls overlap, and the counters of faults,
\* refusals and restarts their bounds (CreateSnapshot, DeleteSnapshot, sendRequest).
THEOREM TypeCorrect == Spec => []TypeOK
<1>1. IInv => TypeOK
  BY DEF IInv
<1> QED
  BY <1>1, IInvAlways, PTL

\* A name gets a second snapshot only by a lost answer, a call that outlived its
\* caller or an incomplete listing; neither handlers that log in over one another
\* nor a restart between two calls makes one (CreateSnapshot: GetSnapshotByName
\* before SnapshotCreate).
THEOREM SecondSnapshots == Spec => []SecondSnapshotAccounted
<1>1. IInv => SecondSnapshotAccounted
  <2> SUFFICES ASSUME IInv, \A h \in Handlers : pc[h] = "idle", NEW i \in snaps, i # pv
               PROVE  i \in lost
    BY DEF SecondSnapshotAccounted
  <2>1. \A h \in Handlers : call[h].made = 0
    BY NoCallIs DEF IInv, CallInv, Creates, Deletes
  <2>2. i # 0
    BY SnapshotAssumption DEF IInv, TypeOK
  <2> QED
    BY <2>1, <2>2 DEF IInv, SnapsInv
<1> QED
  BY <1>1, IInvAlways, PTL

\* The snapshot whose id the CO keeps outlives every call but the CO's own
\* DeleteSnapshot, and success of that means it is gone, or that a listing had
\* left it out (GetSnapshotByUuid).
THEOREM RecordedKept == Spec => []RecordedSnapshotKept
<1>1. IInv => RecordedSnapshotKept
  BY DEF IInv, CoInv
<1> QED
  BY <1>1, IInvAlways, PTL

\* What the CO is told about readiness is true of its snapshot, or of another of
\* the name that is accounted for (ReadyToUse in CreateSnapshot).
THEOREM ReadyKept == Spec => []ReadyIsRecorded
<1>1. IInv => ReadyIsRecorded
  BY DEF IInv, CoInv
<1> QED
  BY <1>1, IInvAlways, PTL

\* However handlers interleave their logins, a request finds its session ended in
\* its second attempt only after a second end of a session, or one end and a
\* denial in a valid session (sendRequest).
THEOREM ExpiryHidden == Spec => []OneExpiryIsHidden
<1>1. IInv => OneExpiryIsHidden
  BY DEF IInv, SessionInv, ExpiryInv
<1> QED
  BY <1>1, IInvAlways, PTL

\* The sessions left behind on the DSM are bounded by the faults, the restarts, the
\* denials in a valid session, one for each, and the handlers that could log in at
\* once (sendRequest, Login, RemoveAllDsms).
THEOREM SessionsFew == Spec => []SessionsBounded
<1>1. IInv => SessionsBounded
  BY SessionsBoundedFrom DEF IInv
<1> QED
  BY <1>1, IInvAlways, PTL
=============================================================================
