------------------------------ MODULE Session ------------------------------
(***************************************************************************)
(* The driver's session with one DSM: every request of every handler       *)
(* carries the session id in dsm.Sid, which all handlers share without a   *)
(* lock.  A request that is refused, for its session or for want of a      *)
(* permission, logs in again and is sent a second time, once.              *)
(*                                                                         *)
(* The steps of a request are those a module of requests conjoins its own  *)
(* with (Snapshots does): Answered, Failed and Lost end it.  Session ids   *)
(* have one length, so that a read of dsm.Sid beside a write finds the old *)
(* id or the new one.                                                      *)
(***************************************************************************)
EXTENDS Naturals, FiniteSets

CONSTANTS
    Handlers,     \* gRPC calls that may be running at once
    MaxFaults,    \* bound: requests that fail or whose answer is lost
    MaxRefusals,  \* bound: times dsm.Sid becomes invalid, or a valid session is
                  \*   denied a request, together
    MaxRestarts,  \* bound: restarts of the driver
    MaxSids       \* bound: session ids in use at a time

ASSUME SessionAssumption ==
    /\ IsFiniteSet(Handlers) /\ Handlers # {}
    /\ MaxFaults \in Nat /\ MaxRefusals \in Nat /\ MaxRestarts \in Nat
    /\ MaxSids \in Nat \ {0}

VARIABLES
    sid,       \* dsm.Sid; 0: empty
    sessions,  \* DSM: the ids it accepts
    try,       \* how far sendRequest of each handler is
    leaving,   \* whether RemoveAllDsms has been called: "no", "asked", "gone"
    expiries,  \* how often dsm.Sid has become invalid,
    denials,   \*   a request has been denied in a valid session,
    restarts,  \*   the driver has restarted,
    faults     \*   and a request has failed

counters == <<expiries, denials, restarts, faults>>
sessionVars == <<sid, sessions, try, leaving, expiries, denials, restarts, faults>>

SessionTypeOK ==
    /\ sid \in 0..MaxSids /\ sessions \subseteq 1..MaxSids
    /\ try \in [Handlers -> {"first", "login", "second", "failed"}]
    /\ leaving \in {"no", "asked", "gone"}
    /\ expiries \in 0..MaxRefusals /\ denials \in 0..MaxRefusals
    /\ restarts \in 0..MaxRestarts /\ faults \in 0..MaxFaults

Fault == faults < MaxFaults /\ faults' = faults + 1
NoFault == UNCHANGED faults

Valid == sid \in sessions

\* The session ids nothing holds; the bound leaves one.
FreeSids == (1..MaxSids) \ (sessions \cup {sid})
NewSid == CHOOSE i \in FreeSids : TRUE

Trying(h, t) == try' = [try EXCEPT ![h] = t]

-----------------------------------------------------------------------------
(* How a request ends.                                                     *)

\* The DSM does what it is asked, and the answer arrives.
Answered(h) ==
    /\ try[h] \in {"first", "second"} /\ Valid
    /\ Trying(h, "first")
    /\ UNCHANGED <<sid, sessions, leaving, counters>>

\* The DSM does what it is asked, and the answer is lost.
Lost(h) ==
    /\ try[h] \in {"first", "second"} /\ Valid
    /\ Trying(h, "first")
    /\ Fault
    /\ UNCHANGED <<sid, sessions, leaving, expiries, denials, restarts>>

\* It has no effect: it failed or did not get through (a second denial is one of
\* the failures), there is no session to be had, or the second attempt was
\* refused as well.
Failed(h) ==
    /\ \/ try[h] \in {"first", "second"} /\ Fault
       \/ try[h] = "failed" /\ NoFault
       \/ try[h] = "second" /\ ~Valid /\ NoFault
    /\ Trying(h, "first")
    /\ UNCHANGED <<sid, sessions, leaving, expiries, denials, restarts>>

(* How it goes on where the session has ended, or seems to have.           *)

\* Mutant: any error makes a handler log in again.
RefusedAnyError(h) ==
    /\ try[h] = "first"
    /\ Trying(h, "login")
    /\ UNCHANGED <<sid, sessions, leaving, counters>>

\* Codes 105, 106 and 119: the session has ended.
Refused(h) ==
    /\ try[h] = "first" /\ ~Valid
    /\ Trying(h, "login")
    /\ UNCHANGED <<sid, sessions, leaving, counters>>

\* Code 105, no permission, of a valid session is taken for its end.
Denied(h) ==
    /\ try[h] = "first" /\ Valid
    /\ expiries + denials < MaxRefusals /\ denials' = denials + 1
    /\ Trying(h, "login")
    /\ UNCHANGED <<sid, sessions, leaving, expiries, restarts, faults>>

\* Mutant: the new id is not stored.
LoginUnstored(h) ==
    /\ try[h] = "login" /\ FreeSids # {}
    /\ sessions' = sessions \cup {NewSid}
    /\ Trying(h, "second")
    /\ UNCHANGED <<sid, leaving, counters>>

\* Each handler that was refused logs in, whatever others did meanwhile; an id
\* that is overwritten stays valid.
Login(h) ==
    /\ try[h] = "login" /\ FreeSids # {}
    /\ \/ /\ sessions' = sessions \cup {NewSid}
          /\ sid' = NewSid
          /\ Trying(h, "second")
          /\ NoFault
       \/ /\ sessions' \in {sessions, sessions \cup {NewSid}}
          /\ Trying(h, "failed")
          /\ Fault
          /\ UNCHANGED sid
    /\ UNCHANGED <<leaving, expiries, denials, restarts>>

-----------------------------------------------------------------------------
(* How a session ends.                                                     *)

Ends == expiries + denials < MaxRefusals /\ expiries' = expiries + 1

\* A session times out, or all end as the DSM restarts.
Expire ==
    /\ Valid /\ Ends
    /\ sessions' \in {sessions \ {sid}, {}}
    /\ UNCHANGED <<sid, try, leaving, denials, restarts, faults>>

\* RemoveAllDsms: the process is about to end, while handlers still run.
Logout ==
    /\ leaving = "no" /\ Valid /\ Ends
    /\ sessions' = sessions \ {sid}
    /\ leaving' = "asked"
    /\ UNCHANGED <<sid, try, denials, restarts, faults>>

\* It clears dsm.Sid when the answer has arrived, even if it is a new id by now.
LogoutEnds ==
    /\ leaving = "asked"
    /\ IF Valid THEN Ends ELSE UNCHANGED expiries
    /\ sid' = 0
    /\ leaving' = "gone"
    /\ UNCHANGED <<sessions, try, denials, restarts, faults>>

\* AddDsm of the next process.
Restart ==
    /\ restarts < MaxRestarts /\ FreeSids # {}
    /\ restarts' = restarts + 1
    /\ sid' = NewSid
    /\ sessions' = sessions \cup {NewSid}
    /\ try' = [h \in Handlers |-> "first"]
    /\ leaving' = "no"
    /\ UNCHANGED <<expiries, denials, faults>>

SessionInit ==
    /\ sid = 1 /\ sessions = {1}
    /\ try = [h \in Handlers |-> "first"]
    /\ leaving = "no"
    /\ expiries = 0 /\ denials = 0 /\ restarts = 0 /\ faults = 0

SessionNext ==
    \/ \E h \in Handlers :
         Answered(h) \/ Lost(h) \/ Failed(h) \/ Refused(h) \/ Denied(h) \/ Login(h)
    \/ Expire \/ Logout \/ LogoutEnds \/ Restart

SessionSpec == SessionInit /\ [][SessionNext]_sessionVars

-----------------------------------------------------------------------------
(* Properties.                                                             *)

\* A session that ends once is not noticed by any call: a request finds it ended
\* in its second attempt only if dsm.Sid has become invalid a second time, or a
\* denial in a valid session has used up the first attempt, whatever other
\* handlers that log in do to it (sendRequest: "Re-login succeeded").
OneExpiryIsHidden == \A h \in Handlers :
    try[h] = "second" /\ ~Valid => expiries + denials >= 2

\* Sessions nobody will log out of pile up on the DSM only where a login went
\* unanswered, a process ended (its last session, and the one its logout has
\* forgotten), handlers logged in at once, or a request was denied in a valid
\* session: one session for each denial, however many there are (Login,
\* sendRequest, RemoveAllDsms).
SessionsBounded ==
    Cardinality(sessions \ {sid}) <=
        faults + denials + 2 * restarts + (IF leaving = "gone" THEN 1 ELSE 0)
            + expiries * (Cardinality(Handlers) - 1)
=============================================================================
