--------------------------- MODULE DecisionProofs ---------------------------
(***************************************************************************)
(* What is decided on a state of the market, and who may ask: admissions,  *)
(* signals and their alerts, backtests, migrations, the features of one    *)
(* execution with the signals derived from them, and studies, each for     *)
(* every value of its constants.                                           *)
(*                                                                         *)
(* AdmissionsAreLawful alone is not inductive: that a session was used     *)
(* recently is read off its lastSeen, which must be a time at which it was *)
(* issued or let through (LastSeenIsEarned), and its expiry, which must be *)
(* its issue plus the time to live (SessionsAreTyped).                     *)
(***************************************************************************)
EXTENDS SessionGate, AlertDelivery, BacktestRun, MigrationTracker, SignalCatalogue, ResearchStudy, LedgerProofs

Sessions ==
    [user : Users, created : Nat, lastSeen : Nat, expires : Nat, revoked : SUBSET Nat,
     permissions : Grants]

Admissions ==
    [session : Nat, route : {{}} \cup {{p} : p \in RoutePolicies}, owner : Users,
     trusted : BOOLEAN, at : Nat]

SessionsAreTyped ==
    /\ clock \in Nat
    /\ sessions \in Seq(Sessions)
    /\ admitted \in Seq(Admissions)
    /\ \A n \in DOMAIN sessions : sessions[n].expires = sessions[n].created + SessionTtl
    /\ \A k \in DOMAIN admitted :
          admitted[k].session \in DOMAIN sessions /\ admitted[k].at <= clock

LastSeenIsEarned ==
    \A n \in DOMAIN sessions :
        \/ sessions[n].lastSeen = sessions[n].created
        \/ \E k \in DOMAIN admitted :
              admitted[k].session = n /\ admitted[k].at = sessions[n].lastSeen

GateInv == SessionsAreTyped /\ LastSeenIsEarned /\ AdmissionsAreLawful
-----------------------------------------------------------------------------
(* What a request that is let through has met.                             *)
LEMMA AllowedMeans ==
    ASSUME SessionsAreTyped, NEW request \in Requests, Outcome(request) = "ALLOWED"
    PROVE  LET n == request.session
               session == sessions[n]
           IN  /\ n \in DOMAIN sessions
               /\ session.revoked = {}
               /\ clock < session.expires
               /\ clock - session.lastSeen < IdleTimeout
               /\ \E policy \in request.route :
                     /\ \/ "ADMIN" \in session.permissions
                        \/ /\ policy.required \in session.permissions
                           /\ policy.scoped => request.owner = session.user
                     /\ policy.changes => request.origin = "allowed" /\ request.token
<1> DEFINE n == request.session
           policy == CHOOSE p \in request.route : TRUE
<1>1. request.route # {} /\ ValidateSession(n) = "ACTIVE"
  BY DEF Outcome
<1>2. n \in DOMAIN sessions /\ sessions[n].revoked = {}
  BY <1>1 DEF ValidateSession
<1>3. sessions[n] \in Sessions
  BY <1>2 DEF SessionsAreTyped
<1>4. clock < sessions[n].expires /\ clock - sessions[n].lastSeen < IdleTimeout
  <2>1. ~(clock >= sessions[n].expires)
    BY <1>1, <1>2 DEF ValidateSession
  <2>2. ~(clock - sessions[n].lastSeen >= IdleTimeout)
    BY <1>1, <1>2, <2>1 DEF ValidateSession
  <2>3. clock \in Nat /\ sessions[n].expires \in Nat /\ sessions[n].lastSeen \in Nat
    BY <1>3 DEF SessionsAreTyped, Sessions
  <2> QED
    BY <2>1, <2>2, <2>3, GateAssumption
<1>5. policy \in request.route
  BY <1>1
<1>6. /\ \/ "ADMIN" \in sessions[n].permissions
         \/ /\ policy.required \in sessions[n].permissions
            /\ policy.scoped => request.owner = sessions[n].user
      /\ EvaluateCsrf(request, policy)
  BY <1>1 DEF Outcome
<1> QED
  BY <1>2, <1>4, <1>5, <1>6 DEF EvaluateCsrf

(* A request that is let through was entitled to it, and is the use that   *)
(* earns its session's new lastSeen.                                       *)
LEMMA GateStep ==
    ASSUME GateInv, NEW request \in Requests, Gate(request)
    PROVE  GateInv'
<1> DEFINE n == request.session
           last == Len(admitted) + 1
           new == Admission(request)
<1>1. /\ n \in DOMAIN sessions
      /\ sessions[n].revoked = {}
      /\ clock < sessions[n].expires
      /\ clock - sessions[n].lastSeen < IdleTimeout
      /\ \E policy \in request.route :
            /\ \/ "ADMIN" \in sessions[n].permissions
               \/ /\ policy.required \in sessions[n].permissions
                  /\ policy.scoped => request.owner = sessions[n].user
            /\ policy.changes => request.origin = "allowed" /\ request.token
  BY AllowedMeans DEF Gate, GateInv
<1>2. sessions' = [sessions EXCEPT ![n].lastSeen = clock] /\ admitted' = Append(admitted, new) /\ clock' = clock
  BY DEF Gate, Touch
<1>3. new \in Admissions /\ new.session = n /\ new.at = clock
  BY DEF Admission, Admissions, Requests, GateInv, SessionsAreTyped
<1>4. /\ DOMAIN sessions' = DOMAIN sessions
      /\ sessions' \in Seq(Sessions)
      /\ \A i \in DOMAIN sessions :
            /\ sessions'[i].created = sessions[i].created
            /\ sessions'[i].expires = sessions[i].expires
            /\ sessions'[i].revoked = sessions[i].revoked
            /\ sessions'[i].user = sessions[i].user
            /\ sessions'[i].permissions = sessions[i].permissions
            /\ i # n => sessions'[i].lastSeen = sessions[i].lastSeen
            /\ i = n => sessions'[i].lastSeen = clock
  <2>1. sessions \in Seq(Sessions) /\ clock \in Nat
    BY DEF GateInv, SessionsAreTyped
  <2>2. sessions[n] \in Sessions
    BY <1>1, <2>1
  <2>3. [sessions[n] EXCEPT !.lastSeen = clock] \in Sessions
    BY <2>1, <2>2 DEF Sessions
  <2>4. sessions' = [sessions EXCEPT ![n] = [sessions[n] EXCEPT !.lastSeen = clock]]
    BY <1>2
  <2>5. sessions' \in Seq(Sessions) /\ DOMAIN sessions' = DOMAIN sessions
    BY <1>1, <2>1, <2>3, <2>4
  <2>6. ASSUME NEW i \in DOMAIN sessions
        PROVE  /\ i # n => sessions'[i] = sessions[i]
               /\ i = n => sessions'[i] = [sessions[n] EXCEPT !.lastSeen = clock]
    BY <1>1, <2>1, <2>4
  <2>7. LET aged == [sessions[n] EXCEPT !.lastSeen = clock]
        IN  /\ aged.created = sessions[n].created
            /\ aged.expires = sessions[n].expires
            /\ aged.revoked = sessions[n].revoked
            /\ aged.user = sessions[n].user
            /\ aged.permissions = sessions[n].permissions
            /\ aged.lastSeen = clock
    BY <2>2 DEF Sessions
  <2> QED
    BY <2>5, <2>6, <2>7
<1>5. /\ admitted' \in Seq(Admissions)
      /\ DOMAIN admitted' = 1 .. last
      /\ DOMAIN admitted = 1 .. last - 1
      /\ last \in Nat \ {0}
      /\ admitted'[last] = new
      /\ \A k \in 1 .. last - 1 : admitted'[k] = admitted[k]
  BY <1>2, <1>3 DEF GateInv, SessionsAreTyped
<1>6. SessionsAreTyped'
  BY <1>1, <1>2, <1>3, <1>4, <1>5 DEF GateInv, SessionsAreTyped
<1>7. LastSeenIsEarned'
  <2> SUFFICES ASSUME NEW i \in DOMAIN sessions
               PROVE  \/ sessions'[i].lastSeen = sessions'[i].created
                      \/ \E k \in 1 .. last :
                            admitted'[k].session = i /\ admitted'[k].at = sessions'[i].lastSeen
    BY <1>4, <1>5 DEF LastSeenIsEarned
  <2>1. CASE i = n
    <3>1. sessions'[i].lastSeen = clock /\ last \in 1 .. last
      BY <2>1, <1>4, <1>5
    <3> QED
      BY <2>1, <3>1, <1>3, <1>5
  <2>2. CASE i # n
    <3>1. \/ sessions[i].lastSeen = sessions[i].created
          \/ \E k \in 1 .. last - 1 : admitted[k].session = i /\ admitted[k].at = sessions[i].lastSeen
      BY <1>5 DEF GateInv, LastSeenIsEarned
    <3>2. \A k \in 1 .. last - 1 : k \in 1 .. last
      BY <1>5
    <3> QED
      BY <2>2, <3>1, <3>2, <1>4, <1>5
  <2> QED
    BY <2>1, <2>2
<1>8. SessionsStayLive'
  <2> SUFFICES ASSUME NEW k \in 1 .. last
               PROVE  LET a == admitted'[k]
                          m == a.session
                          before == {sessions'[m].created}
                                      \cup {admitted'[j].at : j \in {i \in 1 .. k - 1 : admitted'[i].session = m}}
                      IN  /\ a.at < sessions'[m].created + SessionTtl
                          /\ \E t \in before : a.at - t < IdleTimeout
                          /\ \A r \in sessions'[m].revoked : a.at <= r
    BY <1>5 DEF SessionsStayLive
  <2>1. CASE k = last
    <3>1. \/ sessions[n].lastSeen = sessions[n].created
          \/ \E j \in 1 .. last - 1 : admitted[j].session = n /\ admitted[j].at = sessions[n].lastSeen
      BY <1>1, <1>5 DEF GateInv, LastSeenIsEarned
    <3>2. sessions[n].expires = sessions[n].created + SessionTtl
      BY <1>1 DEF GateInv, SessionsAreTyped
    <3> QED
      BY <2>1, <3>1, <3>2, <1>1, <1>3, <1>4, <1>5
  <2>2. CASE k # last
    <3>1. k \in DOMAIN admitted /\ admitted[k].session \in DOMAIN sessions
      BY <2>2, <1>5 DEF GateInv, SessionsAreTyped
    <3>2. \A i \in 1 .. k - 1 : admitted'[i] = admitted[i]
      BY <2>2, <1>5
    <3> QED
      BY <2>2, <3>1, <3>2, <1>4, <1>5 DEF GateInv, AdmissionsAreLawful, SessionsStayLive
  <2> QED
    BY <2>1, <2>2
<1>9. OthersAreOutOfReach'
  <2> SUFFICES ASSUME NEW k \in 1 .. last
               PROVE  LET a == admitted'[k]
                          session == sessions'[a.session]
                      IN  \E policy \in a.route :
                             /\ \/ "ADMIN" \in session.permissions
                                \/ /\ policy.required \in session.permissions
                                   /\ policy.scoped => a.owner = session.user
                             /\ policy.changes => a.trusted
    BY <1>5 DEF OthersAreOutOfReach
  <2>1. CASE k = last
    <3>1. /\ admitted'[k].session = n
          /\ admitted'[k].route = request.route
          /\ admitted'[k].owner = request.owner
          /\ admitted'[k].trusted = (request.origin = "allowed" /\ request.token)
      BY <2>1, <1>5 DEF Admission
    <3>2. sessions'[n].permissions = sessions[n].permissions /\ sessions'[n].user = sessions[n].user
      BY <1>1, <1>4
    <3> QED
      BY <1>1, <3>1, <3>2
  <2>2. CASE k # last
    <3>1. k \in DOMAIN admitted /\ admitted[k].session \in DOMAIN sessions
      BY <2>2, <1>5 DEF GateInv, SessionsAreTyped
    <3> QED
      BY <2>2, <3>1, <1>4, <1>5 DEF GateInv, AdmissionsAreLawful, OthersAreOutOfReach
  <2> QED
    BY <2>1, <2>2
<1> QED
  BY <1>6, <1>7, <1>8, <1>9 DEF GateInv, AdmissionsAreLawful
-----------------------------------------------------------------------------
(* What no other step does: it lets nothing through and changes neither    *)
(* whose a session is nor when it was issued and used.  It may issue one,  *)
(* and revokes none for a time that has passed.                            *)
Quiet ==
    /\ admitted' = admitted
    /\ clock' \in Nat /\ clock <= clock'
    /\ sessions' \in Seq(Sessions)
    /\ DOMAIN sessions \subseteq DOMAIN sessions'
    /\ \A i \in DOMAIN sessions' : sessions'[i].expires = sessions'[i].created + SessionTtl
    /\ \A i \in DOMAIN sessions :
          /\ sessions'[i].created = sessions[i].created
          /\ sessions'[i].lastSeen = sessions[i].lastSeen
          /\ sessions'[i].user = sessions[i].user
          /\ sessions'[i].permissions = sessions[i].permissions
          /\ sessions'[i].revoked \in {sessions[i].revoked, {clock}}
    /\ \A i \in DOMAIN sessions' \ DOMAIN sessions : sessions'[i].lastSeen = sessions'[i].created

LEMMA QuietKeeps == ASSUME GateInv, Quiet PROVE GateInv'
<1>1. \A k \in DOMAIN admitted : admitted[k].session \in DOMAIN sessions /\ admitted[k].at <= clock
  BY DEF GateInv, SessionsAreTyped
<1>2. \A k \in DOMAIN admitted : admitted[k].at \in Nat
  <2>1. \A k \in DOMAIN admitted : admitted[k] \in Admissions
    BY DEF GateInv, SessionsAreTyped
  <2> QED
    BY <2>1 DEF Admissions
<1>3. clock \in Nat /\ clock' \in Nat /\ clock <= clock'
  BY DEF GateInv, SessionsAreTyped, Quiet
<1>4. SessionsAreTyped'
  <2>1. \A k \in DOMAIN admitted : admitted[k].session \in DOMAIN sessions' /\ admitted[k].at <= clock'
    BY <1>1, <1>2, <1>3 DEF Quiet
  <2> QED
    BY <2>1 DEF GateInv, SessionsAreTyped, Quiet
<1>5. LastSeenIsEarned'
  BY DEF GateInv, LastSeenIsEarned, Quiet
<1>6. SessionsStayLive'
  <2> SUFFICES ASSUME NEW k \in DOMAIN admitted
               PROVE  LET a == admitted[k]
                          n == a.session
                          before == {sessions'[n].created}
                                      \cup {admitted[j].at : j \in {i \in 1 .. k - 1 : admitted[i].session = n}}
                      IN  /\ a.at < sessions'[n].created + SessionTtl
                          /\ \E t \in before : a.at - t < IdleTimeout
                          /\ \A r \in sessions'[n].revoked : a.at <= r
    BY DEF SessionsStayLive, Quiet
  <2> DEFINE n == admitted[k].session
  <2>1. n \in DOMAIN sessions /\ admitted[k].at <= clock
    BY <1>1
  <2>2. \A r \in sessions'[n].revoked : admitted[k].at <= r
    BY <2>1 DEF GateInv, AdmissionsAreLawful, SessionsStayLive, Quiet
  <2>3. sessions'[n].created = sessions[n].created
    BY <2>1 DEF Quiet
  <2> QED
    BY <2>2, <2>3 DEF GateInv, AdmissionsAreLawful, SessionsStayLive
<1>7. OthersAreOutOfReach'
  <2> SUFFICES ASSUME NEW k \in DOMAIN admitted
               PROVE  LET a == admitted[k]
                          session == sessions'[a.session]
                      IN  \E policy \in a.route :
                             /\ \/ "ADMIN" \in session.permissions
                                \/ /\ policy.required \in session.permissions
                                   /\ policy.scoped => a.owner = session.user
                             /\ policy.changes => a.trusted
    BY DEF OthersAreOutOfReach, Quiet
  <2>1. LET m == admitted[k].session
        IN  sessions'[m].permissions = sessions[m].permissions /\ sessions'[m].user = sessions[m].user
    BY <1>1 DEF Quiet
  <2> QED
    BY <2>1 DEF GateInv, AdmissionsAreLawful, OthersAreOutOfReach
<1> QED
  BY <1>4, <1>5, <1>6, <1>7 DEF GateInv, AdmissionsAreLawful

LEMMA RevokeIsQuiet == ASSUME GateInv, NEW n \in DOMAIN sessions, Revoke(n) PROVE Quiet
<1> DEFINE ended == [sessions[n] EXCEPT !.revoked = {clock}]
<1>1. clock \in Nat /\ sessions \in Seq(Sessions)
  BY DEF GateInv, SessionsAreTyped
<1>2. sessions[n] \in Sessions
  BY <1>1
<1>3. /\ ended \in Sessions
      /\ ended.created = sessions[n].created
      /\ ended.lastSeen = sessions[n].lastSeen
      /\ ended.expires = sessions[n].expires
      /\ ended.user = sessions[n].user
      /\ ended.permissions = sessions[n].permissions
      /\ ended.revoked = {clock}
  BY <1>1, <1>2 DEF Sessions
<1>4. sessions' = [sessions EXCEPT ![n] = ended] /\ UNCHANGED <<clock, admitted>>
  BY DEF Revoke
<1>5. sessions' \in Seq(Sessions) /\ DOMAIN sessions' = DOMAIN sessions
  BY <1>1, <1>3, <1>4
<1>6. \A i \in DOMAIN sessions : sessions'[i] = IF i = n THEN ended ELSE sessions[i]
  BY <1>1, <1>4
<1>7. \A i \in DOMAIN sessions : sessions[i].expires = sessions[i].created + SessionTtl
  BY DEF GateInv, SessionsAreTyped
<1>8. \A i \in DOMAIN sessions :
          /\ sessions'[i].created = sessions[i].created
          /\ sessions'[i].lastSeen = sessions[i].lastSeen
          /\ sessions'[i].expires = sessions[i].expires
          /\ sessions'[i].user = sessions[i].user
          /\ sessions'[i].permissions = sessions[i].permissions
          /\ sessions'[i].revoked \in {sessions[i].revoked, {clock}}
  BY <1>3, <1>6
<1> QED
  BY <1>1, <1>4, <1>5, <1>7, <1>8 DEF Quiet

LEMMA IssueIsQuiet == ASSUME GateInv, IssueSession PROVE Quiet
<1>1. clock \in Nat /\ sessions \in Seq(Sessions)
  BY DEF GateInv, SessionsAreTyped
<1>2. PICK user \in Users, permissions \in Grants : sessions' = Append(sessions, Issue(user, permissions))
  BY DEF IssueSession
<1> DEFINE fresh == Issue(user, permissions)
           last == Len(sessions) + 1
<1>3. fresh \in Sessions /\ fresh.lastSeen = fresh.created /\ fresh.expires = fresh.created + SessionTtl
  BY <1>1, GateAssumption DEF Issue, Sessions
<1>4. /\ sessions' \in Seq(Sessions)
      /\ DOMAIN sessions' = 1 .. last
      /\ DOMAIN sessions = 1 .. last - 1
      /\ last \in Nat \ {0}
      /\ sessions'[last] = fresh
      /\ \A i \in 1 .. last - 1 : sessions'[i] = sessions[i]
  BY <1>1, <1>2, <1>3
<1>5. DOMAIN sessions \subseteq DOMAIN sessions'
  BY <1>4
<1>6. \A i \in DOMAIN sessions' : sessions'[i].expires = sessions'[i].created + SessionTtl
  BY <1>3, <1>4 DEF GateInv, SessionsAreTyped
<1>7. \A i \in DOMAIN sessions' \ DOMAIN sessions : sessions'[i].lastSeen = sessions'[i].created
  BY <1>3, <1>4
<1>8. UNCHANGED <<clock, admitted>>
  BY DEF IssueSession
<1> QED
  BY <1>1, <1>4, <1>5, <1>6, <1>7, <1>8 DEF Quiet

LEMMA TimeIsQuiet == ASSUME GateInv, TimeGoesOn \/ UNCHANGED gateVars PROVE Quiet
<1>1. clock \in Nat /\ clock' \in Nat /\ clock <= clock'
  BY DEF GateInv, SessionsAreTyped, TimeGoesOn, gateVars
<1>2. sessions' = sessions /\ admitted' = admitted
  BY DEF TimeGoesOn, gateVars
<1> QED
  BY <1>1, <1>2 DEF GateInv, SessionsAreTyped, Quiet
-----------------------------------------------------------------------------
(* Whatever the gate lets through is of a live session of a user entitled  *)
(* to it, at every time, for any number of users, sessions and requests.   *)
THEOREM AdmissionsLawful == GateSpec => []AdmissionsAreLawful
<1>1. GateInit => GateInv
  BY DEF GateInit, GateInv, SessionsAreTyped, LastSeenIsEarned, AdmissionsAreLawful,
         SessionsStayLive, OthersAreOutOfReach
<1>2. GateInv /\ [GateNext]_gateVars => GateInv'
  <2> SUFFICES ASSUME GateInv, [GateNext]_gateVars PROVE GateInv'
    OBVIOUS
  <2>1. ASSUME NEW request \in Requests, Gate(request) PROVE GateInv'
    BY <2>1, GateStep
  <2>2. ASSUME NEW n \in DOMAIN sessions, Revoke(n) PROVE GateInv'
    BY <2>2, RevokeIsQuiet, QuietKeeps
  <2>3. CASE IssueSession
    BY <2>3, IssueIsQuiet, QuietKeeps
  <2>4. CASE TimeGoesOn \/ UNCHANGED gateVars
    BY <2>4, TimeIsQuiet, QuietKeeps
  <2> QED
    BY <2>1, <2>2, <2>3, <2>4 DEF GateNext
<1>3. GateInv => AdmissionsAreLawful
  BY DEF GateInv
<1> QED
  BY <1>1, <1>2, <1>3, PTL DEF GateSpec
-----------------------------------------------------------------------------
(* Of a stream only the newest occurrence lives, and what the router was   *)
(* told of an alert it is told again when it is restored.                  *)


Signals ==
    [status : DOMAIN PermittedStatus, strength : 0 .. 1, market : Nat, horizon : Nat,
     expires : {T + Horizon : T \in Nat}]

(* Only the newest occurrence of the stream lives.                         *)
SignalInv ==
    /\ now \in Nat
    /\ signals \in Seq(Signals)
    /\ \A n \in DOMAIN signals : n < Len(signals) => IsTerminal(signals[n].status)

SeparateStep ==
    /\ Len(signals) <= Len(signals') /\ Len(signals') <= Len(signals) + 1
    /\ \A n \in DOMAIN signals :
          LET was == signals[n].status
              is == signals'[n].status
          IN  /\ n < Len(signals') \/ Len(signals') = Len(signals)
                    \/ IsTerminal(was)
              /\ IsTerminal(was) => signals'[n] = signals[n]
              /\ is = was \/ is \in PermittedStatus[was]
    /\ \A n \in DOMAIN signals' :
          n < Len(signals') => IsTerminal(signals'[n].status)

(* What is reached from anywhere is a status.                              *)
LEMMA StatusesAre ==
    /\ DOMAIN PermittedStatus = {"FORMING", "ACTIVE", "CONFIRMED", "INVALIDATED", "EXPIRED", "FADED"}
    /\ \A was \in DOMAIN PermittedStatus : PermittedStatus[was] \subseteq DOMAIN PermittedStatus
  BY DEF PermittedStatus

LEMMA MovedIs ==
    ASSUME NEW was \in DOMAIN PermittedStatus, NEW target
    PROVE  /\ Moved(was, target) \in DOMAIN PermittedStatus
           /\ Moved(was, target) = was \/ Moved(was, target) \in PermittedStatus[was]
  BY StatusesAre DEF Moved

LEMMA CreateKeeps ==
    ASSUME SignalInv, NEW outcome \in Outcomes, NEW T \in Nat, NEW K \in Nat, Create(outcome, T, K)
    PROVE  /\ signals' \in Seq(Signals)
           /\ SeparateStep
<1> DEFINE new == Written(Target(outcome, T), outcome.strength, T, K, T + Horizon)
<1>1. new \in Signals
  <2>1. Target(outcome, T) \in DOMAIN PermittedStatus
    BY StatusesAre DEF Create
  <2> QED
    BY <2>1 DEF Written, Signals, Outcomes
<1>2. signals' = Append(signals, new) /\ signals \in Seq(Signals)
  BY DEF Create, SignalInv
<1> HIDE DEF new
<1>3. /\ signals' \in Seq(Signals)
      /\ Len(signals) \in Nat /\ Len(signals') = Len(signals) + 1
      /\ DOMAIN signals' = 1 .. Len(signals) + 1
      /\ DOMAIN signals = 1 .. Len(signals)
      /\ \A n \in DOMAIN signals : signals'[n] = signals[n]
  BY <1>1, <1>2
<1>4. \A n \in DOMAIN signals : IsTerminal(signals[n].status)
  <2>1. Len(signals) # 0 => IsTerminal(signals[Len(signals)].status)
    BY DEF Create, Live
  <2> QED
    BY <1>3, <2>1 DEF SignalInv
<1>5. \A n \in DOMAIN signals' : n < Len(signals') => n \in DOMAIN signals
  BY <1>3
<1>6. \A n \in DOMAIN signals' : n < Len(signals') => IsTerminal(signals'[n].status)
  BY <1>3, <1>4, <1>5
<1>7. /\ Len(signals) <= Len(signals') /\ Len(signals') <= Len(signals) + 1
      /\ \A n \in DOMAIN signals : n < Len(signals')
  BY <1>3
<1> QED
  BY <1>3, <1>4, <1>6, <1>7, Zenon DEF SeparateStep

LEMMA AdvanceKeeps ==
    ASSUME SignalInv, NEW outcome \in Outcomes, NEW T \in Nat, NEW K \in Nat, Advance(outcome, T, K)
    PROVE  /\ signals' \in Seq(Signals)
           /\ SeparateStep
<1> DEFINE was == signals[Live].status
           status == Moved(was, Target(outcome, T))
           new == Written(status, outcome.strength, T, K, signals[Live].expires)
<1>1. /\ Live \in DOMAIN signals /\ Live = Len(signals)
      /\ ~IsTerminal(was)
      /\ signals[Live] \in Signals
  BY DEF Advance, Live, SignalInv
<1>2. was \in DOMAIN PermittedStatus /\ signals[Live].expires \in {t + Horizon : t \in Nat}
  BY <1>1 DEF Signals
<1>3. status \in DOMAIN PermittedStatus /\ (status = was \/ status \in PermittedStatus[was])
  BY <1>2, MovedIs
<1>4. new \in Signals /\ new.status = status
  BY <1>2, <1>3 DEF Written, Signals, Outcomes
<1>5. signals' = [signals EXCEPT ![Live] = new] /\ signals \in Seq(Signals)
  BY DEF Advance, SignalInv
<1> HIDE DEF new, status
<1>6. /\ signals' \in Seq(Signals)
      /\ Len(signals) \in Nat /\ Len(signals') = Len(signals)
      /\ DOMAIN signals' = DOMAIN signals
      /\ \A n \in DOMAIN signals : n # Live => signals'[n] = signals[n]
      /\ signals'[Live] = new
  BY <1>1, <1>4, <1>5
<1>7. ASSUME NEW n \in DOMAIN signals
      PROVE  /\ IsTerminal(signals[n].status) => signals'[n] = signals[n]
             /\ \/ signals'[n].status = signals[n].status
                \/ signals'[n].status \in PermittedStatus[signals[n].status]
             /\ n < Len(signals) => IsTerminal(signals'[n].status)
  <2>1. CASE n = Live
    BY <2>1, <1>1, <1>3, <1>4, <1>6
  <2>2. CASE n # Live
    BY <2>2, <1>6 DEF SignalInv
  <2> QED
    BY <2>1, <2>2
<1> QED
  BY <1>6, <1>7 DEF SeparateStep

LEMMA SignalStep ==
    ASSUME SignalInv, [AlertNext]_<<signalVars, alertVars>>
    PROVE  SignalInv' /\ [SeparateStep]_signalVars
<1>1. CASE UNCHANGED signalVars
  BY <1>1 DEF SignalInv, signalVars
<1>2. CASE TimePasses
  <2>1. now' \in Nat /\ signals' = signals
    BY <1>2 DEF TimePasses, SignalInv
  <2>2. Len(signals) \in Nat
    BY DEF SignalInv
  <2> QED
    BY <2>1, <2>2 DEF SignalInv, SeparateStep
<1>3. CASE EvaluateLive
  <2>1. PICK T \in 1 .. now, quality \in {"OK", "UNRELIABLE"}, delay \in 0 .. 1, outcome \in Outcomes :
           Evaluate(T, now, quality, T + delay, outcome)
    BY <1>3 DEF EvaluateLive
  <2>2. now' = now /\ now \in Nat /\ T \in Nat
    BY <2>1 DEF Evaluate, SignalInv
  <2>3. signals' \in Seq(Signals) /\ SeparateStep
    BY <2>1, <2>2, CreateKeeps, AdvanceKeeps DEF Evaluate
  <2> QED
    BY <2>2, <2>3 DEF SignalInv, SeparateStep
<1> QED
  BY <1>1, <1>2, <1>3 DEF AlertNext, AlertStep, alertVars

LEMMA NowGrows ==
    ASSUME SignalInv, [AlertNext]_<<signalVars, alertVars>>
    PROVE  now' \in {now, now + 1}
  BY DEF AlertNext, AlertStep, TimePasses, EvaluateLive, Evaluate, signalVars

LEMMA SignalAlways == AlertSpec => []SignalInv
<1>1. SignalInit => SignalInv
  BY DEF SignalInit, SignalInv
<1> QED
  BY <1>1, SignalStep, PTL DEF AlertSpec

(* For any rule, horizon and persistence: of a stream's occurrences only   *)
(* the newest lives, one that ended is never touched again, and none moves *)
(* but as the table of lifecycle.py lets it.                               *)
THEOREM OccurrencesStaySeparate == AlertSpec => OccurrencesAreSeparate
<1>1. SignalInv /\ [AlertNext]_<<signalVars, alertVars>> => [SeparateStep]_signalVars
  BY SignalStep
<1> QED
  BY <1>1, SignalAlways, PTL DEF AlertSpec, OccurrencesAreSeparate, SeparateStep
-----------------------------------------------------------------------------
Statuses == DOMAIN PermittedStatus

Window(at) == at \div DedupWindow

Alerts ==
    [stream : Nat, about : Nat \X Nat \X Nat, reported : Statuses,
     key : {<<n, reported, Window(at)>> : n \in Nat, reported \in Statuses, at \in Nat},
     at : Nat, status : {"delivered", "failed"}]

(* What a router knows of an alert that was raised, restored or not.       *)
Remembered(o, time, keys, last) ==
    /\ o.at <= time
    /\ o.key = <<o.stream, o.reported, Window(o.at)>>
    /\ o.key \in keys
    /\ o.about \in DOMAIN last
    /\ o.at <= last[o.about]

AlertInv ==
    /\ SignalInv
    /\ stored \in Seq(Alerts)
    /\ \A k \in DOMAIN stored : Remembered(stored[k], now, DOMAIN byKey, lastAt)
    /\ \A id \in DOMAIN lastAt : lastAt[id] \in Nat
    /\ ToldOncePerWindow

(* The two halves of ToldOncePerWindow, of two alerts.                     *)
Apart(o, p) ==
    o.stream = p.stream =>
        /\ o.reported = p.reported => Window(o.at) # Window(p.at)
        /\ o.about = p.about => p.at - o.at >= Cooldown

LEMMA ApartIs == ToldOncePerWindow <=> \A k, l \in DOMAIN stored : k < l => Apart(stored[k], stored[l])
  BY DEF ToldOncePerWindow, Apart, Window

LEMMA RouteKeeps ==
    ASSUME AlertInv, NEW n \in DOMAIN signals, NEW succeeded \in BOOLEAN, RouteAndDeliver(n, succeeded),
           UNCHANGED signalVars
    PROVE  AlertInv'
<1> DEFINE new == [stream |-> n, about |-> SignalId(n), reported |-> signals[n].status,
                   key |-> DedupKeyOf(n), at |-> now,
                   status |-> IF succeeded THEN "delivered" ELSE "failed"]
           last == Len(stored) + 1
<1>1. now \in Nat /\ n \in Nat /\ signals[n] \in Signals
  BY DEF AlertInv, SignalInv
<1>2. new \in Alerts
  <2>1. /\ signals[n].status \in Statuses
        /\ SignalId(n) \in Nat \X Nat \X Nat
    BY <1>1 DEF Signals, SignalId, Statuses
  <2>2. DedupKeyOf(n) \in {<<m, reported, Window(at)>> : m \in Nat, reported \in Statuses, at \in Nat}
    BY <1>1, <2>1 DEF DedupKeyOf, Window
  <2> QED
    BY <1>1, <2>1, <2>2 DEF Alerts
<1>3. new.key = <<new.stream, new.reported, Window(new.at)>> /\ new.key = DedupKeyOf(n)
      /\ new.about = SignalId(n) /\ new.at = now
  BY DEF DedupKeyOf, Window
<1>4. /\ stored' = Append(stored, new) /\ stored \in Seq(Alerts)
      /\ byKey' = Put(byKey, DedupKeyOf(n), Len(stored'))
      /\ lastAt' = Put(lastAt, SignalId(n), now)
      /\ now' = now /\ SignalInv'
  BY DEF RouteAndDeliver, AlertInv, signalVars, SignalInv
<1> HIDE DEF new
<1>5. /\ stored' \in Seq(Alerts)
      /\ last \in Nat \ {0}
      /\ DOMAIN stored' = 1 .. last /\ DOMAIN stored = 1 .. last - 1
      /\ stored'[last] = new
      /\ \A k \in 1 .. last - 1 : stored'[k] = stored[k]
  BY <1>2, <1>4
<1>6. ASSUME NEW k \in 1 .. last - 1
      PROVE  Remembered(stored[k], now', DOMAIN byKey', lastAt') /\ Apart(stored[k], new)
  <2> DEFINE o == stored[k]
  <2>1. o \in Alerts /\ Remembered(o, now, DOMAIN byKey, lastAt)
    BY <1>4, <1>5 DEF AlertInv
  <2>2. o.at \in Nat
    BY <2>1 DEF Alerts
  <2>3. Remembered(o, now', DOMAIN byKey', lastAt')
    <3>1. o.key \in DOMAIN byKey'
      BY <1>4, <2>1 DEF Remembered, Put
    <3>2. o.about \in DOMAIN lastAt' /\ lastAt'[o.about] \in {now, lastAt[o.about]}
      BY <1>4, <2>1 DEF Remembered, Put
    <3>3. o.at <= lastAt'[o.about]
      BY <3>2, <2>1 DEF Remembered
    <3> QED
      BY <1>4, <2>1, <3>1, <3>2, <3>3 DEF Remembered
  <2>4. o.stream = new.stream /\ o.reported = new.reported => Window(o.at) # Window(new.at)
    <3>1. new.key # o.key
      BY <1>3, <2>1 DEF RouteAndDeliver, Remembered
    <3> QED
      BY <1>3, <2>1, <3>1 DEF Remembered
  <2>5. o.about = new.about => new.at - o.at >= Cooldown
    <3> SUFFICES ASSUME o.about = new.about PROVE new.at - o.at >= Cooldown
      OBVIOUS
    <3>1. SignalId(n) \in DOMAIN lastAt /\ o.at <= lastAt[SignalId(n)] /\ lastAt[SignalId(n)] \in Nat
      BY <1>3, <2>1 DEF Remembered, AlertInv
    <3>2. ~(now - lastAt[SignalId(n)] < Cooldown)
      BY <3>1 DEF RouteAndDeliver, OnCooldown
    <3> QED
      BY <1>1, <1>3, <2>2, <3>1, <3>2, AlertAssumption
  <2> QED
    BY <2>3, <2>4, <2>5 DEF Apart
<1>7. Remembered(new, now', DOMAIN byKey', lastAt')
  <2>1. /\ DedupKeyOf(n) \in DOMAIN byKey'
        /\ SignalId(n) \in DOMAIN lastAt' /\ lastAt'[SignalId(n)] = now
    BY <1>4 DEF Put
  <2>2. new.at <= now' /\ new.at <= lastAt'[new.about]
    BY <1>1, <1>3, <1>4, <2>1
  <2> QED
    BY <1>3, <2>1, <2>2, Zenon DEF Remembered
<1>8. \A k \in DOMAIN stored' : Remembered(stored'[k], now', DOMAIN byKey', lastAt')
  <2> SUFFICES ASSUME NEW k \in 1 .. last PROVE Remembered(stored'[k], now', DOMAIN byKey', lastAt')
    BY <1>5
  <2>1. CASE k = last
    BY <2>1, <1>5, <1>7
  <2>2. CASE k # last
    <3>1. k \in 1 .. last - 1
      BY <2>2, <1>5
    <3> QED
      BY <3>1, <1>5, <1>6
  <2> QED
    BY <2>1, <2>2
<1>9. \A id \in DOMAIN lastAt' : lastAt'[id] \in Nat
  BY <1>1, <1>4 DEF AlertInv, Put
<1>10. ToldOncePerWindow'
  <2> SUFFICES ASSUME NEW k \in 1 .. last, NEW l \in 1 .. last, k < l
               PROVE  Apart(stored'[k], stored'[l])
    BY <1>5 DEF ToldOncePerWindow, Apart, Window
  <2>1. k \in 1 .. last - 1 /\ (l = last \/ l \in 1 .. last - 1)
    BY <1>5
  <2> QED
    BY <1>5, <1>6, <2>1, ApartIs DEF AlertInv
<1> QED
  BY <1>4, <1>5, <1>8, <1>9, <1>10 DEF AlertInv

(* A restored router knows again what was raised.                          *)
LEMMA RestartKeeps ==
    ASSUME AlertInv, RestartRouter, UNCHANGED signalVars
    PROVE  AlertInv'
<1>1. stored' = stored /\ now' = now /\ SignalInv' /\ stored \in Seq(Alerts)
  BY DEF RestartRouter, AlertInv, signalVars, SignalInv
<1> DEFINE raised == ToSet(stored)
           times(id) == {o.at : o \in {p \in raised : p.about = id}}
<1>2. /\ raised = {stored[k] : k \in DOMAIN stored}
      /\ raised \subseteq Alerts
      /\ IsFiniteSet(raised)
  <2>1. raised = {stored[k] : k \in DOMAIN stored}
    BY DEF ToSet
  <2>2. DOMAIN stored = 1 .. Len(stored) /\ Len(stored) \in Nat
    BY <1>1
  <2>3. IsFiniteSet(DOMAIN stored)
    BY <2>2, FS_Interval
  <2> QED
    <3>1. stored \in Surjection(DOMAIN stored, raised)
      BY <1>1, <2>1 DEF Surjection
    <3> QED
      BY <1>1, <2>1, <2>3, <3>1, FS_Surjection
<1> HIDE DEF raised
<1>3. /\ DOMAIN byKey' = {o.key : o \in raised}
      /\ lastAt' = [id \in {o.about : o \in raised} |-> Max(times(id))]
  BY DEF RestartRouter, Restore, raised
<1>4. ASSUME NEW o \in raised
      PROVE  /\ Max(times(o.about)) \in Nat
             /\ o.at <= Max(times(o.about))
  <2>1. IsFiniteSet({p \in raised : p.about = o.about})
    BY <1>2, FS_Subset
  <2>2. IsFiniteSet(times(o.about))
    <3> DEFINE about == {p \in raised : p.about = o.about}
    <3>1. [p \in about |-> p.at] \in Surjection(about, times(o.about))
      BY DEF Surjection
    <3> QED
      BY <2>1, <3>1, FS_Surjection
  <2>3. times(o.about) \subseteq Nat
    BY <1>2 DEF Alerts
  <2>4. o.at \in times(o.about)
    OBVIOUS
  <2> HIDE DEF times
  <2> QED
    BY <2>2, <2>3, <2>4, MaxOfNumbers
<1> HIDE DEF times
<1>5. \A k \in DOMAIN stored' : Remembered(stored'[k], now', DOMAIN byKey', lastAt')
  <2> SUFFICES ASSUME NEW k \in DOMAIN stored PROVE Remembered(stored[k], now', DOMAIN byKey', lastAt')
    BY <1>1
  <2>1. stored[k] \in raised /\ Remembered(stored[k], now, DOMAIN byKey, lastAt)
    BY <1>2 DEF AlertInv
  <2>2. /\ stored[k].key \in DOMAIN byKey'
        /\ stored[k].about \in DOMAIN lastAt'
        /\ lastAt'[stored[k].about] = Max(times(stored[k].about))
    BY <1>3, <2>1
  <2> QED
    BY <1>1, <1>4, <2>1, <2>2 DEF Remembered
<1>6. \A id \in DOMAIN lastAt' : lastAt'[id] \in Nat
  <2> SUFFICES ASSUME NEW id \in DOMAIN lastAt' PROVE lastAt'[id] \in Nat
    OBVIOUS
  <2>1. PICK o \in raised : id = o.about
    BY <1>3
  <2> QED
    BY <1>3, <1>4, <2>1
<1>7. ToldOncePerWindow'
  BY <1>1 DEF AlertInv, ToldOncePerWindow
<1> QED
  BY <1>1, <1>5, <1>6, <1>7 DEF AlertInv

LEMMA AlertStepKeeps ==
    ASSUME AlertInv, [AlertNext]_<<signalVars, alertVars>>
    PROVE  AlertInv'
<1>1. SignalInv'
  BY SignalStep DEF AlertInv
<1>2. CASE UNCHANGED alertVars
  <2>1. now \in Nat /\ now' \in Nat /\ now <= now'
    BY <1>1, NowGrows DEF AlertInv, SignalInv
  <2>2. ASSUME NEW k \in DOMAIN stored
        PROVE  Remembered(stored[k], now', DOMAIN byKey', lastAt')
    <3>1. Remembered(stored[k], now, DOMAIN byKey, lastAt) /\ stored[k] \in Alerts
      BY DEF AlertInv
    <3>2. stored[k].at \in Nat
      BY <3>1 DEF Alerts
    <3> QED
      BY <1>2, <2>1, <3>1, <3>2 DEF Remembered, alertVars
  <2> QED
    BY <1>1, <1>2, <2>2 DEF AlertInv, ToldOncePerWindow, alertVars
<1> QED
  BY <1>2, RouteKeeps, RestartKeeps DEF AlertNext, AlertStep

LEMMA AlertAlways == AlertSpec => []AlertInv
<1>1. SignalInit /\ AlertInit => AlertInv
  <2>1. SignalInit => SignalInv
    BY DEF SignalInit, SignalInv
  <2> QED
    BY <2>1 DEF AlertInit, AlertInv, ToldOncePerWindow
<1> QED
  BY <1>1, AlertStepKeeps, PTL DEF AlertSpec

(* For any rule, cooldown and dedup window, and however often the router   *)
(* is restarted: one status of a stream is reported once in a window, and  *)
(* one evaluation once in a cooldown.                                      *)
THEOREM ToldOnce == AlertSpec => []ToldOncePerWindow
<1>1. AlertInv => ToldOncePerWindow
  BY DEF AlertInv
<1> QED
  BY <1>1, AlertAlways, PTL
-----------------------------------------------------------------------------
(* The run that is not interrupted: intents are decided at the instants of *)
(* steps that are over, and scheduled for the first step they may run at.  *)


Intents == [side : {"BUY", "SELL"}, decided : Nat]

(* What a runner holds.                                                    *)
Runs ==
    [book : SUBSET Intents, pending : SUBSET [intent : Intents, due : Nat],
     generated : SUBSET Intents, rejected : SUBSET Intents, expired : SUBSET Intents,
     outcomes : SUBSET [intent : Intents, step : Nat, filled : BOOLEAN]]

(* The instants of the steps whose answers are in.                         *)
Asked == {timeline[n] : n \in {m \in DOMAIN timeline : m < step \/ stage = "over"}}

(* It is scheduled for the first step that lies the latency after it.      *)
Due(intent, s) ==
    /\ s \in DOMAIN timeline
    /\ timeline[s] >= intent.decided + latency
    /\ \A n \in 1 .. s - 1 : timeline[n] < intent.decided + latency

(* A run keeps what it generated, and ended, apart.                        *)
Sorted(r) ==
    LET executed == {o.intent : o \in r.outcomes}
        waiting == {p.intent : p \in r.pending}
    IN  /\ r.generated = r.rejected \cup r.expired \cup executed \cup waiting
        /\ r.rejected \cap r.expired = {} /\ r.rejected \cap executed = {}
        /\ r.rejected \cap waiting = {} /\ r.expired \cap executed = {}
        /\ r.expired \cap waiting = {} /\ executed \cap waiting = {}

Scheduled(r) == \A p \in r.pending : Due(p.intent, p.due)

Executed(r) ==
    \A o \in r.outcomes :
        /\ Due(o.intent, o.step)
        /\ timeline[o.step] > o.intent.decided
        /\ o.filled => VisibleAt(timeline[o.step]) # {}

RunInv ==
    /\ straight \in Runs
    /\ timeline \in Timelines /\ latency \in Nat /\ pinned \in Nat
    /\ stage \in {"idle", "execute", "decide", "over"}
    /\ stage = "idle" => straight = Started
    /\ stage # "idle" => step \in DOMAIN timeline
    /\ \A i \in straight.generated : i.decided \in Asked
    /\ Sorted(straight)
    /\ Scheduled(straight)
    /\ Executed(straight)

LEMMA TimelineIs ==
    ASSUME NEW t \in Timelines
    PROVE  /\ t \in Seq(Nat)
           /\ Len(t) \in Nat /\ DOMAIN t = 1 .. Len(t)
           /\ \A n \in DOMAIN t : t[n] \in Nat
           /\ \A m, n \in DOMAIN t : m < n => t[m] < t[n]
<1>1. PICK n \in 0 .. LastTime : t \in [1 .. n -> 1 .. LastTime]
  BY DEF Timelines
<1>2. n \in Nat /\ t \in Seq(1 .. LastTime)
  BY <1>1, BacktestAssumption
<1>3. \A k \in DOMAIN t : t[k] \in Nat
  BY <1>1, BacktestAssumption
<1>4. t \in Seq(Nat)
  BY <1>2, <1>3
<1> QED
  BY <1>1, <1>2, <1>3, <1>4 DEF Timelines

(* The step an intent is due at, if there is one.                          *)
LEMMA ExecutionStepIs ==
    ASSUME timeline \in Timelines, latency \in Nat, NEW i \in Intents
    PROVE  ExecutionStep(i.decided) # 0 => Due(i, ExecutionStep(i.decided))
<1> DEFINE reached == {n \in DOMAIN timeline : timeline[n] >= i.decided + latency}
<1>1. /\ Len(timeline) \in Nat /\ DOMAIN timeline = 1 .. Len(timeline)
      /\ \A n \in DOMAIN timeline : timeline[n] \in Nat
  BY TimelineIs
<1>2. i.decided \in Nat
  BY DEF Intents
<1>3. CASE reached = {}
  BY <1>3 DEF ExecutionStep
<1>4. CASE reached # {}
  <2>1. \E n \in reached : \A m \in reached : n <= m
    <3>1. reached \in SUBSET Nat
      BY <1>1
    <3> HIDE DEF reached
    <3> QED
      BY <1>4, <3>1, LeastNumber
  <2>2. /\ ExecutionStep(i.decided) \in reached
        /\ \A m \in reached : ExecutionStep(i.decided) <= m
    BY <1>4, <2>1 DEF ExecutionStep
  <2>3. ASSUME NEW n \in 1 .. ExecutionStep(i.decided) - 1
        PROVE  timeline[n] < i.decided + latency
    <3>1. n \in DOMAIN timeline /\ n \notin reached
      BY <1>1, <2>2
    <3>2. timeline[n] \in Nat /\ ~(timeline[n] >= i.decided + latency)
      BY <1>1, <3>1
    <3> QED
      BY <1>2, <3>2
  <2> QED
    BY <2>2, <2>3 DEF Due
<1> QED
  BY <1>3, <1>4

(* Two steps an intent is due at are one.                                  *)
LEMMA DueOnce ==
    ASSUME timeline \in Timelines, latency \in Nat, NEW i \in Intents, NEW s, NEW t, Due(i, s), Due(i, t)
    PROVE  s = t
<1>1. /\ Len(timeline) \in Nat /\ DOMAIN timeline = 1 .. Len(timeline)
      /\ \A n \in DOMAIN timeline : timeline[n] \in Nat
  BY TimelineIs
<1>2. i.decided \in Nat
  BY DEF Intents
<1>3. s \in 1 .. Len(timeline) /\ t \in 1 .. Len(timeline)
  BY <1>1 DEF Due
<1>4. ~(s < t)
  <2> SUFFICES ASSUME s < t PROVE FALSE
    OBVIOUS
  <2>1. s \in 1 .. t - 1
    BY <1>3
  <2> QED
    BY <1>1, <1>2, <1>3, <2>1 DEF Due
<1>5. ~(t < s)
  <2> SUFFICES ASSUME t < s PROVE FALSE
    OBVIOUS
  <2>1. t \in 1 .. s - 1
    BY <1>3
  <2> QED
    BY <1>1, <1>2, <1>3, <2>1 DEF Due
<1> QED
  BY <1>3, <1>4, <1>5

(* What is due at the step is executed.                                    *)
LEMMA ExecuteKeeps ==
    ASSUME RunInv, stage = "execute"
    PROVE  LET r == Execute(straight)
           IN  /\ r \in Runs
               /\ r.generated = straight.generated
               /\ Sorted(r) /\ Scheduled(r) /\ Executed(r)
<1> DEFINE s == straight
           due == {p \in s.pending : p.due = step}
           priced == VisibleAt(timeline[step]) # {}
           done == {[intent |-> p.intent, step |-> step, filled |-> priced] : p \in due}
           r == Execute(s)
<1>1. /\ Len(timeline) \in Nat /\ DOMAIN timeline = 1 .. Len(timeline)
      /\ \A n \in DOMAIN timeline : timeline[n] \in Nat
      /\ \A m, n \in DOMAIN timeline : m < n => timeline[m] < timeline[n]
  BY TimelineIs DEF RunInv
<1>2. /\ s \in Runs /\ step \in DOMAIN timeline
      /\ Sorted(s) /\ Scheduled(s) /\ Executed(s)
      /\ \A i \in s.generated : i.decided \in Asked
  BY DEF RunInv
<1>3. /\ s.book \in SUBSET Intents /\ s.pending \in SUBSET [intent : Intents, due : Nat]
      /\ s.generated \in SUBSET Intents /\ s.rejected \in SUBSET Intents
      /\ s.expired \in SUBSET Intents
      /\ s.outcomes \in SUBSET [intent : Intents, step : Nat, filled : BOOLEAN]
  BY <1>2 DEF Runs
<1>4. /\ r.pending = s.pending \ due
      /\ r.outcomes = s.outcomes \cup done
      /\ r.book = s.book \cup {p.intent : p \in {q \in due : priced}}
      /\ r.generated = s.generated /\ r.rejected = s.rejected /\ r.expired = s.expired
      /\ r = [book |-> r.book, pending |-> r.pending, generated |-> r.generated,
              rejected |-> r.rejected, expired |-> r.expired, outcomes |-> r.outcomes]
  <2>1. \E b, p, g, j, e, o : s = [book |-> b, pending |-> p, generated |-> g,
                                  rejected |-> j, expired |-> e, outcomes |-> o]
    BY <1>2 DEF Runs
  <2>2. r = [s EXCEPT !.pending = s.pending \ due, !.outcomes = s.outcomes \cup done,
                      !.book = s.book \cup {p.intent : p \in {q \in due : priced}}]
    BY DEF Execute
  <2> HIDE DEF r, due, done, priced
  <2> QED
    BY <2>1, <2>2
<1>5. done \in SUBSET [intent : Intents, step : Nat, filled : BOOLEAN]
  <2> SUFFICES ASSUME NEW p \in due
               PROVE  [intent |-> p.intent, step |-> step, filled |-> priced]
                        \in [intent : Intents, step : Nat, filled : BOOLEAN]
    OBVIOUS
  <2>1. p.intent \in Intents /\ step \in Nat
    BY <1>1, <1>2, <1>3
  <2>2. priced \in BOOLEAN
    OBVIOUS
  <2> HIDE DEF priced
  <2> QED
    BY <2>1, <2>2
<1>6. r \in Runs
  BY <1>3, <1>4, <1>5 DEF Runs
<1>7. Scheduled(r)
  BY <1>2, <1>4 DEF Scheduled
<1>8. Executed(r)
  <2> SUFFICES ASSUME NEW o \in done
               PROVE  /\ Due(o.intent, o.step)
                      /\ timeline[o.step] > o.intent.decided
                      /\ o.filled => VisibleAt(timeline[o.step]) # {}
    BY <1>2, <1>4 DEF Executed
  <2>1. PICK p \in due : o = [intent |-> p.intent, step |-> step, filled |-> priced]
    OBVIOUS
  <2>2. o.intent = p.intent /\ o.step = step /\ o.filled = priced /\ Due(p.intent, step)
    BY <1>2, <2>1 DEF Scheduled
  <2>3. p.intent.decided \in Asked
    BY <1>2 DEF Sorted
  <2>4. PICK m \in DOMAIN timeline : p.intent.decided = timeline[m] /\ m < step
    BY <2>3 DEF Asked
  <2>5. timeline[step] > timeline[m]
    BY <1>1, <1>2, <2>4
  <2> HIDE DEF priced
  <2> QED
    BY <2>2, <2>4, <2>5 DEF priced
<1>9. Sorted(r)
  <2> DEFINE executed(q) == {o.intent : o \in q.outcomes}
             waiting(q) == {p.intent : p \in q.pending}
             ending == {p.intent : p \in due}
  <2>1. executed(r) = executed(s) \cup ending
    <3>1. \A p \in due : [intent |-> p.intent, step |-> step, filled |-> priced].intent = p.intent
      OBVIOUS
    <3>2. {o.intent : o \in done} = ending
      BY <3>1
    <3> QED
      BY <1>4, <3>2
  <2>2. waiting(s) = waiting(r) \cup ending
    BY <1>4
  <2>3. waiting(r) \cap ending = {}
    <3> SUFFICES ASSUME NEW p \in s.pending \ due, NEW q \in due, p.intent = q.intent PROVE FALSE
      BY <1>4
    <3>1. p.due = q.due
      BY <1>2, <1>3, DueOnce DEF Scheduled, RunInv
    <3> QED
      BY <3>1
  <2> HIDE DEF ending
  <2>4. /\ s.generated = s.rejected \cup s.expired \cup executed(s) \cup waiting(s)
        /\ s.rejected \cap s.expired = {} /\ s.rejected \cap executed(s) = {}
        /\ s.rejected \cap waiting(s) = {} /\ s.expired \cap executed(s) = {}
        /\ s.expired \cap waiting(s) = {} /\ executed(s) \cap waiting(s) = {}
    BY <1>2 DEF Sorted
  <2> HIDE DEF executed, waiting
  <2>5. /\ r.generated = r.rejected \cup r.expired \cup executed(r) \cup waiting(r)
        /\ r.rejected \cap r.expired = {} /\ r.rejected \cap executed(r) = {}
        /\ r.rejected \cap waiting(r) = {} /\ r.expired \cap executed(r) = {}
        /\ r.expired \cap waiting(r) = {} /\ executed(r) \cap waiting(r) = {}
    BY <1>4, <2>1, <2>2, <2>3, <2>4
  <2> QED
    BY <2>5 DEF Sorted, executed, waiting
<1> QED
  BY <1>4, <1>6, <1>7, <1>8, <1>9 DEF r

(* What is decided at the step is rejected, expires or is scheduled.       *)
LEMMA DecideKeeps ==
    ASSUME RunInv, stage = "decide", NEW sides \in SUBSET {"BUY", "SELL"}, NEW approved
    PROVE  LET r == Decide(straight, sides, approved)
           IN  /\ r \in Runs
               /\ \A i \in r.generated : i.decided \in Asked \cup {timeline[step]}
               /\ Sorted(r) /\ Scheduled(r) /\ Executed(r)
<1> DEFINE s == straight
           intents == {[side |-> side, decided |-> timeline[step]] : side \in sides}
           passed == {i \in intents : i.side \in approved}
           late == {i \in passed : ExecutionStep(i.decided) = 0}
           new == {[intent |-> i, due |-> ExecutionStep(i.decided)] : i \in passed \ late}
           r == Decide(s, sides, approved)
<1>1. /\ Len(timeline) \in Nat /\ DOMAIN timeline = 1 .. Len(timeline)
      /\ \A n \in DOMAIN timeline : timeline[n] \in Nat
      /\ \A m, n \in DOMAIN timeline : m < n => timeline[m] < timeline[n]
      /\ timeline \in Timelines /\ latency \in Nat
  BY TimelineIs DEF RunInv
<1>2. /\ s \in Runs /\ step \in DOMAIN timeline
      /\ Sorted(s) /\ Scheduled(s) /\ Executed(s)
      /\ \A i \in s.generated : i.decided \in Asked
  BY DEF RunInv
<1>3. /\ s.book \in SUBSET Intents /\ s.pending \in SUBSET [intent : Intents, due : Nat]
      /\ s.generated \in SUBSET Intents /\ s.rejected \in SUBSET Intents
      /\ s.expired \in SUBSET Intents
      /\ s.outcomes \in SUBSET [intent : Intents, step : Nat, filled : BOOLEAN]
  BY <1>2 DEF Runs
<1>4. /\ r.pending = s.pending \cup new
      /\ r.generated = s.generated \cup intents
      /\ r.rejected = s.rejected \cup (intents \ passed)
      /\ r.expired = s.expired \cup late
      /\ r.outcomes = s.outcomes /\ r.book = s.book
      /\ r = [book |-> r.book, pending |-> r.pending, generated |-> r.generated,
              rejected |-> r.rejected, expired |-> r.expired, outcomes |-> r.outcomes]
  <2>1. \E b, p, g, j, e, o : s = [book |-> b, pending |-> p, generated |-> g,
                                  rejected |-> j, expired |-> e, outcomes |-> o]
    BY <1>2 DEF Runs
  <2>2. r = [s EXCEPT !.generated = s.generated \cup intents,
                      !.rejected = s.rejected \cup (intents \ passed),
                      !.expired = s.expired \cup late,
                      !.pending = s.pending \cup new]
    BY DEF Decide
  <2> HIDE DEF r, intents, passed, late, new
  <2> QED
    BY <2>1, <2>2
<1> HIDE DEF r
<1>5. \A i \in intents : i \in Intents /\ i.decided = timeline[step]
  BY <1>1, <1>2 DEF Intents
<1>6. late \subseteq passed /\ passed \subseteq intents
  OBVIOUS
<1>7. ASSUME NEW i \in passed \ late
      PROVE  ExecutionStep(i.decided) \in Nat /\ Due(i, ExecutionStep(i.decided))
  <2>1. i \in Intents /\ ExecutionStep(i.decided) # 0
    BY <1>5
  <2>2. Due(i, ExecutionStep(i.decided))
    BY <1>1, <2>1, ExecutionStepIs
  <2> QED
    BY <1>1, <2>2 DEF Due
<1>8. {p.intent : p \in new} = passed \ late
  <2>1. \A i \in passed \ late : [intent |-> i, due |-> ExecutionStep(i.decided)].intent = i
    OBVIOUS
  <2> QED
    BY <2>1
<1>9. new \in SUBSET [intent : Intents, due : Nat]
  <2> SUFFICES ASSUME NEW i \in passed \ late
               PROVE  [intent |-> i, due |-> ExecutionStep(i.decided)] \in [intent : Intents, due : Nat]
    OBVIOUS
  <2>1. ExecutionStep(i.decided) \in Nat
    BY <1>7
  <2> QED
    BY <1>5, <2>1
<1>10. \A i \in intents : i \notin s.generated
  <2> SUFFICES ASSUME NEW i \in s.generated, i.decided = timeline[step] PROVE FALSE
    BY <1>5
  <2>1. PICK m \in DOMAIN timeline : i.decided = timeline[m] /\ m < step
    BY <1>2 DEF Asked
  <2>2. timeline[m] < timeline[step] /\ timeline[m] \in Nat /\ timeline[step] \in Nat
    BY <1>1, <1>2, <2>1
  <2> QED
    BY <2>1, <2>2
<1>11. \A p \in new : Due(p.intent, p.due)
  BY <1>7
<1> HIDE DEF intents, passed, late, new
<1>12. r \in Runs
  BY <1>3, <1>4, <1>5, <1>6, <1>9 DEF Runs
<1>13. \A i \in r.generated : i.decided \in Asked \cup {timeline[step]}
  BY <1>2, <1>4, <1>5
<1>14. Scheduled(r) /\ Executed(r)
  BY <1>2, <1>4, <1>11 DEF Scheduled, Executed
<1>15. Sorted(r)
  <2> DEFINE executed(q) == {o.intent : o \in q.outcomes}
             waiting(q) == {p.intent : p \in q.pending}
  <2>1. executed(r) = executed(s) /\ waiting(r) = waiting(s) \cup (passed \ late)
    BY <1>4, <1>8
  <2>2. /\ s.generated = s.rejected \cup s.expired \cup executed(s) \cup waiting(s)
        /\ s.rejected \cap s.expired = {} /\ s.rejected \cap executed(s) = {}
        /\ s.rejected \cap waiting(s) = {} /\ s.expired \cap executed(s) = {}
        /\ s.expired \cap waiting(s) = {} /\ executed(s) \cap waiting(s) = {}
    BY <1>2 DEF Sorted
  <2> HIDE DEF executed, waiting
  <2>3. /\ r.generated = r.rejected \cup r.expired \cup executed(r) \cup waiting(r)
        /\ r.rejected \cap r.expired = {} /\ r.rejected \cap executed(r) = {}
        /\ r.rejected \cap waiting(r) = {} /\ r.expired \cap executed(r) = {}
        /\ r.expired \cap waiting(r) = {} /\ executed(r) \cap waiting(r) = {}
    BY <1>4, <1>6, <1>10, <2>1, <2>2
  <2> QED
    BY <2>3 DEF Sorted, executed, waiting
<1> QED
  BY <1>12, <1>13, <1>14, <1>15 DEF r

LEMMA RunStep == RunInv /\ [BacktestNext]_backtestVars => RunInv'
<1> SUFFICES ASSUME RunInv, [BacktestNext]_backtestVars PROVE RunInv'
  OBVIOUS
<1>1. /\ Len(timeline) \in Nat /\ DOMAIN timeline = 1 .. Len(timeline)
  BY TimelineIs DEF RunInv
<1>2. CASE StartRun
  <2>1. /\ latency' \in Nat /\ timeline' \in Timelines /\ timeline' # <<>> /\ pinned' \in Nat
        /\ step' = 1 /\ stage' = "execute" /\ straight' = Started
    BY <1>2, BacktestAssumption DEF StartRun, RunInv
  <2>2. 1 \in DOMAIN timeline'
    <3>1. PICK t \in Timelines : t = timeline'
      BY <2>1
    <3>2. t \in Seq(Nat)
      BY TimelineIs
    <3> QED
      BY <2>1, <3>1, <3>2
  <2>3. Started \in Runs
    BY DEF Started, Runs
  <2>4. Started.generated = {} /\ Sorted(Started)' /\ Scheduled(Started)' /\ Executed(Started)'
    BY DEF Started, Sorted, Scheduled, Executed
  <2> QED
    BY <2>1, <2>2, <2>3, <2>4 DEF RunInv, Sorted, Scheduled, Executed
<1>3. CASE ExecuteStep
  <2>1. /\ stage = "execute" /\ stage' = "decide" /\ straight' = Execute(straight)
        /\ UNCHANGED <<latency, timeline, pinned, history, step>>
    BY <1>3 DEF ExecuteStep
  <2>2. /\ straight' \in Runs
        /\ straight'.generated = straight.generated
        /\ Sorted(straight') /\ Scheduled(straight') /\ Executed(straight')
    BY <2>1, ExecuteKeeps
  <2>3. Asked' = Asked
    BY <2>1 DEF Asked
  <2> QED
    BY <2>1, <2>2, <2>3 DEF RunInv, Sorted, Scheduled, Executed, Due, VisibleAt, KnowledgeHorizonAt
<1>4. CASE DecideStep
  <2>1. PICK sides \in SUBSET {"BUY", "SELL"}, approved \in {{"BUY"}, {"BUY", "SELL"}} :
           straight' = Decide(straight, sides, approved)
    BY <1>4 DEF DecideStep
  <2>2. /\ stage = "decide" /\ UNCHANGED <<latency, timeline, pinned, history>>
        /\ IF step = Len(timeline) THEN stage' = "over" /\ step' = step
           ELSE stage' = "execute" /\ step' = step + 1
        /\ step \in DOMAIN timeline
    BY <1>4 DEF DecideStep, RunInv
  <2>3. /\ straight' \in Runs
        /\ \A i \in straight'.generated : i.decided \in Asked \cup {timeline[step]}
        /\ Sorted(straight') /\ Scheduled(straight') /\ Executed(straight')
    BY <2>1, <2>2, DecideKeeps
  <2>4. step' \in DOMAIN timeline /\ stage' \in {"over", "execute"}
    BY <1>1, <2>2
  <2>5. Asked \cup {timeline[step]} \subseteq Asked'
    BY <1>1, <2>2 DEF Asked
  <2>6. Sorted(straight)' /\ Scheduled(straight)' /\ Executed(straight)'
    BY <2>2, <2>3 DEF Sorted, Scheduled, Executed, Due, VisibleAt, KnowledgeHorizonAt
  <2>7. \A i \in straight'.generated : i.decided \in Asked'
    BY <2>3, <2>5
  <2>8. straight' \in Runs /\ step' \in DOMAIN timeline' /\ stage' # "idle"
        /\ stage' \in {"idle", "execute", "decide", "over"}
    BY <2>2, <2>3, <2>4
  <2>9. timeline' \in Timelines /\ latency' \in Nat /\ pinned' \in Nat
    BY <2>2 DEF RunInv
  <2> QED
    BY <2>6, <2>7, <2>8, <2>9 DEF RunInv
<1>5. CASE Resume
  <2>1. UNCHANGED <<latency, timeline, pinned, history, step, straight>> /\ stage' = stage
    BY <1>5 DEF Resume
  <2>2. /\ Sorted(straight)' /\ Scheduled(straight)' /\ Executed(straight)'
        /\ Asked' = Asked
    BY <2>1 DEF RunInv, Sorted, Scheduled, Executed, Due, VisibleAt, KnowledgeHorizonAt, Asked
  <2> QED
    BY <2>1, <2>2 DEF RunInv
<1>6. CASE UNCHANGED backtestVars
  BY <1>6 DEF backtestVars, RunInv, Sorted, Scheduled, Executed, Due, VisibleAt, KnowledgeHorizonAt, Asked
<1> QED
  BY <1>2, <1>3, <1>4, <1>5, <1>6 DEF BacktestNext

LEMMA RunInitially == BacktestInit => RunInv
<1> SUFFICES ASSUME BacktestInit PROVE RunInv
  OBVIOUS
<1>1. timeline \in Timelines
  <2>1. 0 \in 0 .. LastTime /\ <<>> \in [1 .. 0 -> 1 .. LastTime]
    BY BacktestAssumption
  <2> QED
    BY <2>1 DEF BacktestInit, Timelines
<1>2. straight \in Runs /\ straight.generated = {} /\ Sorted(straight) /\ Scheduled(straight) /\ Executed(straight)
  BY DEF BacktestInit, Started, Runs, Sorted, Scheduled, Executed
<1> QED
  BY <1>1, <1>2 DEF BacktestInit, RunInv

LEMMA SettledOnce == RunInv => IntentsSettleOnce
<1> SUFFICES ASSUME RunInv PROVE IntentsSettleOnce
  OBVIOUS
<1> DEFINE executed == {o.intent : o \in straight.outcomes}
           waiting == {p.intent : p \in straight.pending}
           ends == <<straight.rejected, straight.expired, executed, waiting>>
<1>1. /\ straight.generated = straight.rejected \cup straight.expired \cup executed \cup waiting
      /\ straight.rejected \cap straight.expired = {} /\ straight.rejected \cap executed = {}
      /\ straight.rejected \cap waiting = {} /\ straight.expired \cap executed = {}
      /\ straight.expired \cap waiting = {} /\ executed \cap waiting = {}
  BY DEF RunInv, Sorted
<1>2. ASSUME NEW o \in straight.outcomes
      PROVE  /\ timeline[o.step] >= o.intent.decided + latency
             /\ timeline[o.step] > o.intent.decided
             /\ \A n \in 1 .. o.step - 1 : timeline[n] < o.intent.decided + latency
             /\ o.filled => \E row \in history : row.ingested <= KnowledgeHorizonAt(timeline[o.step])
  BY DEF RunInv, Executed, Due, VisibleAt
<1> HIDE DEF executed, waiting
<1>3. straight.generated = UNION {ends[n] : n \in 1 .. 4}
  <2>1. {ends[n] : n \in 1 .. 4} = {straight.rejected, straight.expired, executed, waiting}
    OBVIOUS
  <2> QED
    BY <1>1, <2>1
<1>4. \A m, n \in 1 .. 4 : m # n => ends[m] \cap ends[n] = {}
  BY <1>1
<1> QED
  BY <1>2, <1>3, <1>4 DEF IntentsSettleOnce, executed, waiting

(* For any latency, timeline, knowledge horizon and answers: an intent     *)
(* comes to one end or waits, and is executed at the first step that lies  *)
(* the latency after its decision, never at its own.                       *)
THEOREM SettledAlways == BacktestSpec => []IntentsSettleOnce
<1> QED
  BY RunInitially, RunStep, SettledOnce, PTL DEF BacktestSpec
-----------------------------------------------------------------------------
Observations == [direction : Directions, above : BOOLEAN]

Migrations ==
    [direction : Directions, status : {"FORMING", "CONFIRMED", "FADED"}, origin : Nat,
     destination : Nat, first : Nat, last : Nat, windows : Nat]

(* The observations of a log that entity m was advanced by.                *)
AboveOf(m, log) == {n \in m.first .. m.last : log[n].direction = m.direction /\ log[n].above}

(* What is true of an entity by itself.                                    *)
Faithful(m, log) ==
    /\ m \in Migrations
    /\ 1 <= m.first /\ m.first <= m.last /\ m.last <= Len(log)
    /\ m.first \in AboveOf(m, log)
    /\ Cardinality(AboveOf(m, log)) = m.windows
    /\ m.origin = m.first /\ m.destination \in AboveOf(m, log)
    /\ \A n \in AboveOf(m, log) : n <= m.destination
    /\ m.status = "CONFIRMED" => m.windows >= ConfirmAfter
    /\ m.status = "FORMING" => m.windows < ConfirmAfter \/ m.windows = 1
    /\ (m.status = "FADED") = ~log[m.last].above

(* A live entity has seen every observation of its direction.              *)
UpToDate(m, log) == \A n \in m.last + 1 .. Len(log) : log[n].direction # m.direction

Separate(m, k) == m.last < k.first \/ k.last < m.first

TrackerInv ==
    /\ observed \in Seq(Observations)
    /\ faded \in Seq(Migrations)
    /\ DOMAIN live \subseteq Directions
    /\ \A d \in DOMAIN live :
          /\ Faithful(live[d], observed)
          /\ UpToDate(live[d], observed)
          /\ live[d].direction = d /\ live[d].status # "FADED"
    /\ \A n \in DOMAIN faded :
          /\ Faithful(faded[n], observed)
          /\ faded[n].status = "FADED"
          /\ \A k \in DOMAIN faded : n < k => faded[n].last < faded[k].last
    /\ \A m, k \in Entities : m # k /\ m.direction = k.direction => Separate(m, k)
    /\ \A n \in DOMAIN observed : observed[n].above => \E m \in Entities : n \in Covered(m)

LEMMA FaithfulStays ==
    ASSUME NEW log \in Seq(Observations), NEW o \in Observations, NEW m, Faithful(m, log)
    PROVE  Faithful(m, Append(log, o)) /\ AboveOf(m, Append(log, o)) = AboveOf(m, log)
<1>1. /\ m.first \in Nat /\ m.last \in Nat /\ m.last <= Len(log) /\ 1 <= m.first
      /\ Len(log) \in Nat /\ Len(Append(log, o)) = Len(log) + 1
      /\ \A n \in 1 .. Len(log) : Append(log, o)[n] = log[n]
  BY DEF Faithful, Migrations
<1>2. \A n \in m.first .. m.last : n \in 1 .. Len(log)
  BY <1>1
<1>3. AboveOf(m, Append(log, o)) = AboveOf(m, log)
  BY <1>1, <1>2 DEF AboveOf
<1>4. Append(log, o)[m.last] = log[m.last]
  BY <1>1 DEF Faithful
<1>5. m.last <= Len(Append(log, o))
  BY <1>1
<1> QED
  BY <1>3, <1>4, <1>5 DEF Faithful

(* An entity that saw everything and the next observation of its direction *)
(* ends with it, or is advanced by it.                                     *)
LEMMA NextOfEntity ==
    ASSUME NEW log \in Seq(Observations), NEW o \in Observations, NEW m,
           Faithful(m, log), UpToDate(m, log), m.status # "FADED", m.direction = o.direction,
           NEW at, at = Len(log) + 1
    PROVE  /\ ~o.above => Faithful([m EXCEPT !.status = "FADED", !.last = at], Append(log, o))
           /\ o.above => Faithful(Advanced(m, at), Append(log, o))
<1> DEFINE next == Append(log, o)
           ended == [m EXCEPT !.status = "FADED", !.last = at]
           more == Advanced(m, at)
<1>1. /\ m \in Migrations /\ m.first \in Nat /\ m.last \in Nat /\ m.windows \in Nat
      /\ m.last <= Len(log) /\ 1 <= m.first /\ m.first <= m.last
      /\ Len(log) \in Nat /\ Len(next) = at /\ at \in Nat /\ next[at] = o
      /\ \A n \in 1 .. Len(log) : next[n] = log[n]
  BY DEF Faithful, Migrations
<1>2. ASSUME NEW n \in m.first .. at
      PROVE  /\ n \in m.first .. m.last => next[n] = log[n]
             /\ n = at => next[n] = o
             /\ (n \notin m.first .. m.last /\ n # at) => next[n].direction # m.direction
  <2>1. n \in 1 .. Len(log) \/ n = at
    BY <1>1
  <2>2. n \notin m.first .. m.last /\ n # at => n \in m.last + 1 .. Len(log)
    BY <1>1
  <2> QED
    BY <1>1, <2>1, <2>2 DEF UpToDate
<1>3. /\ at \in m.first .. at /\ at \notin m.first .. m.last
      /\ \A n \in m.first .. m.last : n \in m.first .. at /\ n <= at
  BY <1>1
<1> DEFINE wide == {n \in m.first .. at : next[n].direction = m.direction /\ next[n].above}
<1>4. wide = IF o.above THEN AboveOf(m, log) \cup {at} ELSE AboveOf(m, log)
  BY <1>1, <1>2, <1>3 DEF AboveOf
<1>5. /\ AboveOf(ended, next) = wide /\ AboveOf(more, next) = wide
      /\ ended \in Migrations /\ more \in Migrations
      /\ ended.direction = m.direction /\ more.direction = m.direction
      /\ ended.first = m.first /\ ended.last = at /\ ended.windows = m.windows /\ ended.origin = m.origin
      /\ ended.destination = m.destination /\ ended.status = "FADED"
      /\ more.first = m.first /\ more.last = at /\ more.windows = m.windows + 1 /\ more.origin = m.origin
      /\ more.destination = at
      /\ more.status = IF m.windows + 1 >= ConfirmAfter THEN "CONFIRMED" ELSE m.status
  <2>1. /\ ended \in Migrations
        /\ ended.first = m.first /\ ended.last = at /\ ended.windows = m.windows
        /\ ended.origin = m.origin /\ ended.destination = m.destination /\ ended.status = "FADED"
        /\ ended.direction = m.direction
    BY <1>1 DEF Migrations
  <2>2. /\ more \in Migrations /\ more.direction = m.direction
        /\ more.first = m.first /\ more.last = at /\ more.windows = m.windows + 1
        /\ more.origin = m.origin /\ more.destination = at
        /\ more.status = IF m.windows + 1 >= ConfirmAfter THEN "CONFIRMED" ELSE m.status
    <3>1. /\ more.direction = m.direction /\ more.first = m.first /\ more.last = at
          /\ more.windows = m.windows + 1 /\ more.origin = m.origin /\ more.destination = at
          /\ more.status = IF m.windows + 1 >= ConfirmAfter THEN "CONFIRMED" ELSE m.status
      BY <1>1 DEF Migrations, Advanced
    <3>2. /\ m.windows + 1 \in Nat
          /\ (IF m.windows + 1 >= ConfirmAfter THEN "CONFIRMED" ELSE m.status)
                \in {"FORMING", "CONFIRMED", "FADED"}
      BY <1>1 DEF Migrations
    <3>3. more \in Migrations
      BY <1>1, <3>2 DEF Migrations, Advanced
    <3> QED
      BY <3>1, <3>3
  <2> HIDE DEF ended, more, next
  <2>3. AboveOf(ended, next) = wide /\ AboveOf(more, next) = wide
    BY <2>1, <2>2 DEF AboveOf
  <2> QED
    BY <2>1, <2>2, <2>3
<1>6. IsFiniteSet(AboveOf(m, log)) /\ at \notin AboveOf(m, log)
  <2>0. m.first \in Int /\ m.last \in Int
    BY <1>1
  <2>1. IsFiniteSet(m.first .. m.last)
    BY <2>0, FS_Interval
  <2>2. AboveOf(m, log) \subseteq m.first .. m.last
    BY DEF AboveOf
  <2> QED
    BY <1>3, <2>1, <2>2, FS_Subset
<1>7. Cardinality(AboveOf(m, log) \cup {at}) = m.windows + 1
  <2>1. Cardinality(AboveOf(m, log)) = m.windows
    BY DEF Faithful
  <2> QED
    BY <1>6, <2>1, FS_AddElement
<1> HIDE DEF next, ended, more, wide
<1>8. ASSUME ~o.above PROVE Faithful(ended, next)
  <2>1. wide = AboveOf(m, log)
    BY <1>4, <1>8
  <2>2. (ended.status = "FADED") = ~next[ended.last].above
    BY <1>1, <1>5, <1>8
  <2>3. 1 <= ended.first /\ ended.first <= ended.last /\ ended.last <= Len(next)
    BY <1>1, <1>5
  <2> QED
    BY <1>5, <2>1, <2>2, <2>3 DEF Faithful
<1>9. ASSUME o.above PROVE Faithful(more, next)
  <2>1. wide = AboveOf(m, log) \cup {at}
    BY <1>4, <1>9
  <2>2. more.status # "FADED" /\ next[more.last].above
    BY <1>1, <1>5, <1>9
  <2>3. 1 <= more.first /\ more.first <= more.last /\ more.last <= Len(next)
    BY <1>1, <1>5
  <2>4. \A n \in wide : n <= more.destination
    BY <1>3, <1>5, <2>1 DEF AboveOf
  <2>5. /\ more.status = "CONFIRMED" => more.windows >= ConfirmAfter
        /\ more.status = "FORMING" => more.windows < ConfirmAfter
    BY <1>1, <1>5, TrackerAssumption DEF Faithful
  <2>6. Cardinality(wide) = more.windows
    BY <1>5, <1>7, <2>1
  <2> QED
    BY <1>5, <2>1, <2>2, <2>3, <2>4, <2>5, <2>6 DEF Faithful
<1> QED
  BY <1>8, <1>9 DEF ended, more, next

(* So does one that begins with it.                                        *)
LEMMA FirstOfEntity ==
    ASSUME NEW log \in Seq(Observations), NEW o \in Observations, o.above,
           NEW at, at = Len(log) + 1
    PROVE  Faithful(Forming(o, at), Append(log, o))
<1> DEFINE next == Append(log, o)
           m == Forming(o, at)
<1>1. at \in Nat /\ 1 <= at /\ Len(next) = at /\ next[at] = o /\ o.direction \in Directions
  BY DEF Observations
<1>2. /\ m \in Migrations /\ m.first = at /\ m.last = at /\ m.windows = 1 /\ m.origin = at
      /\ m.destination = at /\ m.status = "FORMING" /\ m.direction = o.direction
  BY <1>1 DEF Forming, Migrations
<1>3. AboveOf(m, next) = {at}
  <2>1. m.first .. m.last = {at}
    BY <1>1, <1>2
  <2> QED
    BY <1>1, <1>2, <2>1 DEF AboveOf
<1>4. Cardinality({at}) = 1
  BY FS_Singleton
<1> HIDE DEF m, next
<1>5. (m.status = "FADED") = ~next[m.last].above
  BY <1>1, <1>2
<1>6. 1 <= m.first /\ m.first <= m.last /\ m.last <= Len(next)
  BY <1>1, <1>2
<1>7. \A n \in AboveOf(m, next) : n <= m.destination
  BY <1>1, <1>2, <1>3
<1>8. Cardinality(AboveOf(m, next)) = m.windows
  BY <1>2, <1>3, <1>4
<1>9. m.status # "CONFIRMED"
  BY <1>2
<1>10. m.origin = m.first /\ m.first \in AboveOf(m, next) /\ m.destination \in AboveOf(m, next)
  BY <1>2, <1>3
<1>11. Faithful(m, next)
  BY <1>2, <1>5, <1>6, <1>7, <1>8, <1>9, <1>10 DEF Faithful
<1> QED
  BY <1>11 DEF m, next

LEMMA TrackerInitially == TrackerInit => TrackerInv
<1> SUFFICES ASSUME TrackerInit PROVE TrackerInv
  OBVIOUS
<1>1. DOMAIN live = {} /\ DOMAIN faded = {} /\ DOMAIN observed = {} /\ observed = <<>> /\ faded = <<>>
  BY DEF TrackerInit
<1>2. Entities = {}
  BY <1>1 DEF Entities
<1> QED
  BY <1>1, <1>2 DEF TrackerInv

LEMMA TrackerStep == TrackerInv /\ [TrackerNext]_trackerVars => TrackerInv'
<1> SUFFICES ASSUME TrackerInv, [TrackerNext]_trackerVars
             PROVE  TrackerInv'
  OBVIOUS
<1>1. CASE UNCHANGED trackerVars
  BY <1>1 DEF trackerVars, TrackerInv, Entities, Covered
<1>2. ASSUME NEW o \in Observations, Observe(o)
      PROVE  TrackerInv'
  <2> DEFINE at == Len(observed) + 1
             d == o.direction
             next == Append(observed, o)
  <2>1. /\ observed \in Seq(Observations) /\ faded \in Seq(Migrations)
        /\ DOMAIN live \subseteq Directions
        /\ Len(observed) \in Nat /\ Len(faded) \in Nat
        /\ DOMAIN faded = 1 .. Len(faded) /\ DOMAIN observed = 1 .. Len(observed)
        /\ d \in Directions /\ o.above \in BOOLEAN
    BY DEF TrackerInv, Observations
  <2>2. /\ observed' = next /\ observed' \in Seq(Observations)
        /\ Len(next) = at /\ next[at] = o /\ DOMAIN observed' = 1 .. at
        /\ \A n \in 1 .. Len(observed) : next[n] = observed[n]
    BY <1>2, <2>1 DEF Observe
  <2>3. \A c \in DOMAIN live :
           /\ Faithful(live[c], observed) /\ UpToDate(live[c], observed)
           /\ live[c].direction = c /\ live[c].status # "FADED" /\ live[c] \in Entities
    BY DEF TrackerInv, Entities
  <2>4. \A n \in DOMAIN faded :
           /\ Faithful(faded[n], observed) /\ faded[n].status = "FADED" /\ faded[n] \in Entities
           /\ \A k \in DOMAIN faded : n < k => faded[n].last < faded[k].last
    BY DEF TrackerInv, Entities
  <2>5. \A m \in Entities :
           /\ Faithful(m, observed) /\ Faithful(m, next)
           /\ m.first \in Nat /\ m.last \in Nat /\ m.last < at /\ m.first < at
           /\ observed[m.first].direction = m.direction /\ m.first \in 1 .. Len(observed)
    <3> SUFFICES ASSUME NEW m \in Entities
                 PROVE  /\ Faithful(m, observed) /\ Faithful(m, next)
                        /\ m.first \in Nat /\ m.last \in Nat /\ m.last < at /\ m.first < at
                        /\ observed[m.first].direction = m.direction
                        /\ m.first \in 1 .. Len(observed)
      OBVIOUS
    <3>1. Faithful(m, observed)
      BY <2>3, <2>4 DEF Entities
    <3>2. Faithful(m, next)
      BY <2>1, <3>1, FaithfulStays
    <3>3. /\ m.first \in Nat /\ m.last \in Nat /\ m.last <= Len(observed) /\ m.first <= m.last
          /\ 1 <= m.first /\ m.first \in AboveOf(m, observed)
      BY <3>1 DEF Faithful, Migrations
    <3> QED
      BY <2>1, <3>1, <3>2, <3>3 DEF AboveOf
  <2>6. \A m, k \in Entities : m # k /\ m.direction = k.direction => Separate(m, k)
    BY DEF TrackerInv
  <2>7. ASSUME NEW m \in Entities, d \in DOMAIN live, m.direction = d, m # live[d]
        PROVE  m.last < live[d].first
    <3>1. Separate(m, live[d])
      BY <2>3, <2>6, <2>7
    <3>2. CASE live[d].last < m.first
      <4>1. m.first \in live[d].last + 1 .. Len(observed)
        BY <2>3, <2>5, <2>7, <3>2
      <4> QED
        BY <2>3, <2>5, <2>7, <4>1 DEF UpToDate
    <3> QED
      BY <3>1, <3>2 DEF Separate
  \* What holds of the entities after the step, if the last is m.
  <2>8. ASSUME NEW m, NEW others, Entities' = others \cup {m}, others \subseteq Entities,
               Faithful(m, next), m.direction = d, m.last = at,
               \A k \in others : k.direction = d => k.last < m.first,
               \A k \in Entities \ others : k.direction = d /\ k.first = m.first
        PROVE  /\ \A i, k \in Entities' : i # k /\ i.direction = k.direction => Separate(i, k)
               /\ \A n \in 1 .. at : next[n].above =>
                     \E k \in Entities' : n \in {l \in k.first .. k.last : next[l].direction = k.direction}
    <3>1. \A i, k \in Entities' : i # k /\ i.direction = k.direction => Separate(i, k)
      BY <2>6, <2>8 DEF Separate
    <3>2. ASSUME NEW n \in 1 .. at, next[n].above
          PROVE  \E k \in Entities' : n \in {l \in k.first .. k.last : next[l].direction = k.direction}
      <4>1. m.first \in Nat /\ m.first <= at
        BY <2>8 DEF Faithful, Migrations
      <4>2. CASE n = at
        BY <2>1, <2>2, <2>8, <3>2, <4>1, <4>2
      <4>3. CASE n # at
        <5>1. n \in 1 .. Len(observed) /\ observed[n].above /\ next[n] = observed[n]
          BY <2>1, <2>2, <3>2, <4>3
        <5>2. PICK k \in Entities : n \in Covered(k)
          BY <2>1, <5>1 DEF TrackerInv
        <5>3. n \in k.first .. k.last /\ next[n].direction = k.direction
          BY <5>1, <5>2 DEF Covered
        <5>4. CASE k \in others
          BY <2>8, <5>3, <5>4
        <5>5. CASE k \notin others
          <6>1. k.direction = d /\ k.first = m.first /\ k.last <= at
            BY <2>5, <2>8, <5>5
          <6>2. n \in m.first .. m.last
            BY <2>5, <2>8, <4>1, <5>3, <6>1
          <6> QED
            BY <2>8, <5>3, <6>1, <6>2
        <5> QED
          BY <5>4, <5>5
      <4> QED
        BY <4>2, <4>3
    <3> QED
      BY <3>1, <3>2
  \* Of the live ones only that of o's direction sees anything new.
  <2>9. \A c \in DOMAIN live : c # d => UpToDate(live[c], next)
    <3> SUFFICES ASSUME NEW c \in DOMAIN live, c # d, NEW n \in live[c].last + 1 .. Len(next)
                 PROVE  next[n].direction # live[c].direction
      BY DEF UpToDate
    <3>1. live[c].last \in Nat
      BY <2>3, <2>5
    <3>2. n = at \/ (n \in live[c].last + 1 .. Len(observed) /\ n \in 1 .. Len(observed))
      BY <2>1, <2>2, <3>1
    <3> QED
      BY <2>2, <2>3, <3>2 DEF UpToDate
  <2>10. \A c \in DOMAIN live : \A n \in DOMAIN faded : live[c] # faded[n]
    BY <2>3, <2>4
  <2>11. \A b, c \in DOMAIN live : b # c => live[b] # live[c]
    BY <2>3
  <2>12. CASE ~o.above /\ d \in DOMAIN live
    <3> DEFINE m == [live[d] EXCEPT !.status = "FADED", !.last = at]
    <3>1. live' = [c \in DOMAIN live \ {d} |-> live[c]] /\ faded' = Append(faded, m)
      BY <1>2, <2>1, <2>12 DEF Observe, Fade
    <3>2. /\ Faithful(m, next)
          /\ m \in Migrations /\ m.direction = d /\ m.last = at /\ m.status = "FADED"
          /\ m.first = live[d].first
      <4>1. live[d] \in Migrations
        BY <2>3, <2>12 DEF Faithful
      <4>2. Faithful(m, next)
        BY <2>1, <2>3, <2>12, NextOfEntity
      <4> QED
        BY <2>3, <2>12, <4>1, <4>2 DEF Faithful, Migrations
    <3> HIDE DEF m
    <3>3. /\ faded' \in Seq(Migrations) /\ Len(faded') = Len(faded) + 1
          /\ DOMAIN faded' = 1 .. Len(faded) + 1 /\ faded'[Len(faded) + 1] = m
          /\ \A n \in DOMAIN faded : faded'[n] = faded[n]
      BY <2>1, <3>1, <3>2
    <3>4. /\ DOMAIN live' = DOMAIN live \ {d}
          /\ \A c \in DOMAIN live \ {d} : live'[c] = live[c]
      BY <3>1
    <3>5. Entities' = (Entities \ {live[d]}) \cup {m}
      <4>1. {faded'[n] : n \in DOMAIN faded'} = {faded[n] : n \in DOMAIN faded} \cup {m}
        BY <2>1, <3>3
      <4>2. {live'[c] : c \in DOMAIN live'} = {live[c] : c \in DOMAIN live} \ {live[d]}
        BY <2>11, <2>12, <3>4
      <4>3. live[d] \notin {faded[n] : n \in DOMAIN faded}
        BY <2>10, <2>12
      <4> QED
        BY <4>1, <4>2, <4>3 DEF Entities
    <3>6. \A k \in Entities \ {live[d]} : k.direction = d => k.last < m.first
      BY <2>7, <2>12, <3>2
    <3>7. \A k \in Entities \ (Entities \ {live[d]}) : k.direction = d /\ k.first = m.first
      BY <2>3, <2>12, <3>2
    <3>8. /\ \A i, k \in Entities' : i # k /\ i.direction = k.direction => Separate(i, k)
          /\ \A n \in 1 .. at : next[n].above =>
                \E k \in Entities' : n \in {l \in k.first .. k.last : next[l].direction = k.direction}
      BY <2>8, <3>2, <3>5, <3>6, <3>7
    <3>9. \A c \in DOMAIN live' :
             /\ Faithful(live'[c], next) /\ UpToDate(live'[c], next)
             /\ live'[c].direction = c /\ live'[c].status # "FADED"
      BY <2>3, <2>5, <2>9, <3>4
    <3>10. \A n \in DOMAIN faded' :
              /\ Faithful(faded'[n], next) /\ faded'[n].status = "FADED"
              /\ \A k \in DOMAIN faded' : n < k => faded'[n].last < faded'[k].last
      <4>1. \A n \in DOMAIN faded : Faithful(faded[n], next) /\ faded[n].last < at
        BY <2>4, <2>5
      <4>2. Len(faded) \in Nat /\ DOMAIN faded = 1 .. Len(faded)
        BY <2>1
      <4> SUFFICES ASSUME NEW n \in DOMAIN faded'
                   PROVE  /\ Faithful(faded'[n], next) /\ faded'[n].status = "FADED"
                          /\ \A k \in DOMAIN faded' : n < k => faded'[n].last < faded'[k].last
        OBVIOUS
      <4>3. CASE n = Len(faded) + 1
        <5>1. \A k \in DOMAIN faded' : ~(n < k)
          BY <3>3, <4>2, <4>3
        <5> QED
          BY <3>2, <3>3, <4>3, <5>1
      <4>4. CASE n \in DOMAIN faded
        <5>1. \A k \in DOMAIN faded' : k \in DOMAIN faded \/ k = Len(faded) + 1
          BY <3>3, <4>2
        <5> QED
          BY <2>4, <3>2, <3>3, <4>1, <4>4, <5>1
      <4> QED
        BY <3>3, <4>2, <4>3, <4>4
    <3>11. observed' \in Seq(Observations) /\ DOMAIN live' \subseteq Directions
      BY <2>1, <2>2, <3>4 DEF TrackerInv
    <3>12. \A n \in DOMAIN observed' : observed'[n].above => \E k \in Entities' : n \in Covered(k)'
      BY <2>1, <2>2, <3>8 DEF Covered
    <3>13. observed' = next
      BY <2>1, <2>2
    <3> QED
      BY <3>3, <3>8, <3>9, <3>10, <3>11, <3>12, <3>13 DEF TrackerInv
  <2>13. CASE ~o.above /\ d \notin DOMAIN live
    <3>1. /\ faded' = faded
          /\ DOMAIN live' = DOMAIN live /\ \A c \in DOMAIN live : live'[c] = live[c]
      <4>1. /\ faded' = faded \o <<>>
            /\ live' = [c \in DOMAIN live \ {d} |-> live[c]]
        BY <1>2, <2>13 DEF Observe
      <4>2. faded \o <<>> = faded
        BY <2>1
      <4> QED
        BY <2>13, <4>1, <4>2
    <3>2. Entities' = Entities
      BY <3>1 DEF Entities
    <3>3. \A n \in 1 .. at : next[n].above =>
              \E k \in Entities' : n \in {l \in k.first .. k.last : next[l].direction = k.direction}
      <4> SUFFICES ASSUME NEW n \in 1 .. at, next[n].above
                   PROVE  \E k \in Entities : n \in {l \in k.first .. k.last : next[l].direction = k.direction}
        BY <3>2
      <4>1. n \in 1 .. Len(observed) /\ next[n] = observed[n]
        BY <2>1, <2>2, <2>13
      <4>2. PICK k \in Entities : n \in Covered(k)
        BY <2>1, <4>1 DEF TrackerInv
      <4> QED
        BY <4>1, <4>2 DEF Covered
    <3>4. \A c \in DOMAIN live' :
             /\ Faithful(live'[c], next) /\ UpToDate(live'[c], next)
             /\ live'[c].direction = c /\ live'[c].status # "FADED"
      BY <2>3, <2>5, <2>9, <2>13, <3>1
    <3>5. \A n \in DOMAIN faded' :
             /\ Faithful(faded'[n], next) /\ faded'[n].status = "FADED"
             /\ \A k \in DOMAIN faded' : n < k => faded'[n].last < faded'[k].last
      BY <2>4, <2>5, <3>1
    <3> QED
      BY <2>1, <2>2, <2>6, <3>1, <3>2, <3>3, <3>4, <3>5 DEF TrackerInv, Covered
  <2>14. ASSUME NEW m, o.above, NEW others, others \subseteq Entities,
                Faithful(m, next), m.direction = d, m.last = at, m.status # "FADED",
                faded' = faded, live' = [c \in DOMAIN live \cup {d} |-> IF c = d THEN m ELSE live[c]],
                others = Entities \ (IF d \in DOMAIN live THEN {live[d]} ELSE {}),
                m.first = IF d \in DOMAIN live THEN live[d].first ELSE at
         PROVE  TrackerInv'
    <3>1. /\ DOMAIN live' = DOMAIN live \cup {d} /\ live'[d] = m
          /\ \A c \in DOMAIN live : c # d => live'[c] = live[c]
      BY <2>14
    <3>2. Entities' = others \cup {m}
      <4>1. {faded'[n] : n \in DOMAIN faded'} = {faded[n] : n \in DOMAIN faded}
        BY <2>14
      <4>2. {live'[c] : c \in DOMAIN live'} = {live[c] : c \in DOMAIN live \ {d}} \cup {m}
        BY <3>1
      <4>3. {live[c] : c \in DOMAIN live \ {d}} =
                {live[c] : c \in DOMAIN live} \ (IF d \in DOMAIN live THEN {live[d]} ELSE {})
        BY <2>11
      <4>4. d \in DOMAIN live => live[d] \notin {faded[n] : n \in DOMAIN faded}
        BY <2>10
      <4> QED
        BY <2>14, <4>1, <4>2, <4>3, <4>4 DEF Entities
    <3>3. \A k \in others : k.direction = d => k.last < m.first
      BY <2>5, <2>7, <2>14
    <3>4. \A k \in Entities \ others : k.direction = d /\ k.first = m.first
      BY <2>3, <2>14
    <3>5. /\ \A i, k \in Entities' : i # k /\ i.direction = k.direction => Separate(i, k)
          /\ \A n \in 1 .. at : next[n].above =>
                \E k \in Entities' : n \in {l \in k.first .. k.last : next[l].direction = k.direction}
      <4>1. others \subseteq Entities /\ Faithful(m, next) /\ m.direction = d /\ m.last = at
        BY <2>14
      <4> HIDE DEF at, next, d
      <4> QED
        BY <2>8, <3>2, <3>3, <3>4, <4>1
    <3>6. UpToDate(m, next)
      BY <2>1, <2>2, <2>14 DEF UpToDate
    <3>7. \A c \in DOMAIN live' :
             /\ Faithful(live'[c], next) /\ UpToDate(live'[c], next)
             /\ live'[c].direction = c /\ live'[c].status # "FADED"
      BY <2>3, <2>5, <2>9, <2>14, <3>1, <3>6
    <3>8. \A n \in DOMAIN faded' :
             /\ Faithful(faded'[n], next) /\ faded'[n].status = "FADED"
             /\ \A k \in DOMAIN faded' : n < k => faded'[n].last < faded'[k].last
      BY <2>4, <2>5, <2>14
    <3> QED
      <4>1. faded' \in Seq(Migrations) /\ DOMAIN live' \subseteq Directions
        BY <2>1, <2>14, <3>1
      <4>2. \A n \in DOMAIN observed' : observed'[n].above => \E k \in Entities' : n \in Covered(k)'
        BY <2>2, <3>5 DEF Covered
      <4> QED
        BY <2>2, <3>5, <3>7, <3>8, <4>1, <4>2 DEF TrackerInv
  <2>15. CASE o.above /\ d \in DOMAIN live
    <3> DEFINE m == Advanced(live[d], at)
    <3>1. faded' = faded /\ live' = [c \in DOMAIN live \cup {d} |-> IF c = d THEN m ELSE live[c]]
      BY <1>2, <2>1, <2>15 DEF Observe
    <3>2. Faithful(m, next)
      BY <2>1, <2>3, <2>15, NextOfEntity
    <3>3. m.direction = d /\ m.last = at /\ m.status # "FADED" /\ m.first = live[d].first
      <4>1. live[d] \in Migrations
        BY <2>3, <2>15 DEF Faithful
      <4> QED
        BY <2>3, <2>15, <4>1 DEF Advanced, Migrations
    <3> HIDE DEF m
    <3> QED
      BY <2>14, <2>15, <3>1, <3>2, <3>3
  <2>16. CASE o.above /\ d \notin DOMAIN live
    <3> DEFINE m == Forming(o, at)
    <3>1. faded' = faded /\ live' = [c \in DOMAIN live \cup {d} |-> IF c = d THEN m ELSE live[c]]
      BY <1>2, <2>1, <2>16 DEF Observe
    <3>2. Faithful(m, next)
      BY <2>1, <2>16, FirstOfEntity
    <3>3. m.direction = d /\ m.last = at /\ m.status # "FADED" /\ m.first = at
      BY DEF Forming
    <3> HIDE DEF m
    <3> QED
      BY <2>14, <2>16, <3>1, <3>2, <3>3
  <2> QED
    BY <2>1, <2>12, <2>13, <2>15, <2>16
<1> QED
  BY <1>1, <1>2 DEF TrackerNext, Observations

LEMMA TilesTheLog == TrackerInv => EntitiesTileTheLog
<1> SUFFICES ASSUME TrackerInv PROVE EntitiesTileTheLog
  OBVIOUS
<1>1. ASSUME NEW n \in DOMAIN observed, observed[n].above
      PROVE  Cardinality({m \in Entities : n \in Covered(m)}) = 1
  <2>1. PICK m \in Entities : n \in Covered(m)
    BY <1>1 DEF TrackerInv
  <2>2. ASSUME NEW k \in Entities, n \in Covered(k) PROVE k = m
    <3>1. /\ m.direction = k.direction /\ n \in m.first .. m.last /\ n \in k.first .. k.last
      BY <2>1, <2>2 DEF Covered
    <3>2. m \in Migrations /\ k \in Migrations
      BY DEF TrackerInv, Entities, Faithful
    <3>3. m.first \in Nat /\ m.last \in Nat /\ k.first \in Nat /\ k.last \in Nat
      BY <3>2 DEF Migrations
    <3>4. ~Separate(m, k)
      BY <3>1, <3>3 DEF Separate
    <3> QED
      BY <3>1, <3>4 DEF TrackerInv
  <2>3. {k \in Entities : n \in Covered(k)} = {m}
    BY <2>1, <2>2
  <2> QED
    BY <2>3, FS_Singleton
<1>2. ASSUME NEW m \in Entities
      PROVE  LET above == {n \in Covered(m) : observed[n].above}
             IN  /\ Cardinality(above) = m.windows
                 /\ m.origin = m.first /\ m.destination \in above
                 /\ \A n \in above : m.first <= n /\ n <= m.destination
                 /\ m.status = "CONFIRMED" => m.windows >= ConfirmAfter
                 /\ m.status = "FORMING" => m.windows < ConfirmAfter \/ m.windows = 1
                 /\ (m.status = "FADED") = ~observed[m.last].above
  <2>1. Faithful(m, observed)
    BY DEF TrackerInv, Entities
  <2>2. {n \in Covered(m) : observed[n].above} = AboveOf(m, observed)
    BY DEF Covered, AboveOf
  <2>3. m.first \in Nat /\ m.last \in Nat
    BY <2>1 DEF Faithful, Migrations
  <2>4. \A n \in AboveOf(m, observed) : m.first <= n
    BY <2>3 DEF AboveOf
  <2> QED
    BY <2>1, <2>2, <2>4 DEF Faithful
<1> QED
  BY <1>1, <1>2 DEF EntitiesTileTheLog, TrackerInv

(* For any threshold and history of observations: what is above the        *)
(* threshold belongs to exactly one migration of its direction, which      *)
(* counts it, and a migration fades with the first observation below.      *)
THEOREM MigrationsTile == TrackerSpec => []EntitiesTileTheLog
<1> QED
  BY TrackerInitially, TrackerStep, TilesTheLog, PTL DEF TrackerSpec
-----------------------------------------------------------------------------
(* What a feature sees when the results so far are r, and all of them.     *)
ContextOf(s, h, params, f, r) ==
    [state |-> s, history |-> h, params |-> params,
     deps |-> [d \in DependsOn(f) \cap FeatureIds |-> r[d]]]

Pass(s, h, params, at, r) ==
    [f \in FeatureIds |-> ResultOf(f, ContextOf(s, h, params, f, r), at)]

LEMMA DependenciesAreFirst ==
    ASSUME NEW f, NEW d \in DependsOn(f)
    PROVE  DependsOn(d) = {} /\ d \in FeatureIds /\ d \in {"ATM_IV", "BASIS", "REALIZED_VOL_CLOSE_TO_CLOSE"}
<1>1. d \in {"ATM_IV", "BASIS", "REALIZED_VOL_CLOSE_TO_CLOSE"}
  BY DEF DependsOn
<1>2. d \in FeatureIds
  BY <1>1 DEF FeatureIds, OfIv, OfFutures, OfPrice
<1>3. DependsOn(d) = {}
  BY <1>1 DEF DependsOn
<1> QED
  BY <1>1, <1>2, <1>3

(* After two passes nothing changes any more.                              *)
LEMMA PassSettles ==
    ASSUME NEW s, NEW h, NEW params, NEW at
    PROVE  \E r : r = Pass(s, h, params, at, r)
<1> DEFINE P(r) == Pass(s, h, params, at, r)
           C(f, r) == ContextOf(s, h, params, f, r)
<1>1. ASSUME NEW d, DependsOn(d) = {}, d \in FeatureIds, NEW x, NEW y
      PROVE  P(x)[d] = P(y)[d]
  <2>1. [e \in DependsOn(d) \cap FeatureIds |-> x[e]] = [e \in DependsOn(d) \cap FeatureIds |-> y[e]]
    BY <1>1
  <2>2. C(d, x) = C(d, y)
    BY <2>1 DEF ContextOf
  <2> QED
    BY <1>1, <2>2 DEF Pass
<1>2. ASSUME NEW x, NEW y
      PROVE  P(P(x)) = P(P(y))
  <2>1. ASSUME NEW f \in FeatureIds
        PROVE  C(f, P(x)) = C(f, P(y))
    <3>1. ASSUME NEW d \in DependsOn(f) \cap FeatureIds PROVE P(x)[d] = P(y)[d]
      BY <1>1, DependenciesAreFirst
    <3> HIDE DEF P
    <3>2. [d \in DependsOn(f) \cap FeatureIds |-> P(x)[d]] = [d \in DependsOn(f) \cap FeatureIds |-> P(y)[d]]
      BY <3>1
    <3> QED
      BY <3>2 DEF ContextOf
  <2> QED
    BY <2>1 DEF Pass
<1>3. P(P(P(0))) = P(P(0))
  BY <1>2
<1> QED
  BY <1>3

LEMMA RunIs ==
    ASSUME NEW s, NEW h, NEW params, NEW at
    PROVE  LET r == RunOf(s, h, params, at, FeatureIds)
           IN  r = Pass(s, h, params, at, r)
<1> DEFINE results == CHOOSE r : r = Pass(s, h, params, at, r)
<1>1. results = Pass(s, h, params, at, results)
  BY PassSettles
<1>2. RunOf(s, h, params, at, FeatureIds) = results
  BY Zenon DEF RunOf, Pass, ContextOf
<1> QED
  BY <1>1, <1>2
-----------------------------------------------------------------------------
FeatureInv ==
    /\ built \in Seq(MarketStates)
    /\ \A n \in DOMAIN built : built[n].time = n
    /\ report # NoReport =>
          /\ report.state \in MarketStates /\ report.history \in Seq(MarketStates)
          /\ report.params \in ParameterSets /\ report.at \in Nat
          /\ report.results = RunOf(report.state, report.history, report.params, report.at, FeatureIds)

LEMMA FeatureInitially == FeatureInit => FeatureInv
BY DEF FeatureInit, FeatureInv

LEMMA FeatureStep == FeatureInv /\ [FeatureNext]_featureVars => FeatureInv'
<1> SUFFICES ASSUME FeatureInv, [FeatureNext]_featureVars PROVE FeatureInv'
  OBVIOUS
<1>1. ASSUME NEW content \in Contents, BuildState(content) PROVE FeatureInv'
  <2> DEFINE time == Len(built) + 1
             s == [content EXCEPT !.time = time, !.ingested = time + @]
  <2>1. Len(built) \in Nat /\ content \in MarketStates
    BY FeatureAssumption DEF FeatureInv
  <2>2. s \in MarketStates /\ s.time = Len(built) + 1
    <3>1. content \in Readings /\ IsFiniteSet(content.legs) /\ \A l \in content.legs : l.expiry \in content.expiries
      BY <2>1 DEF MarketStates
    <3>2. time \in Nat /\ time + content.ingested \in Nat
      BY <2>1, <3>1 DEF Readings
    <3>3. /\ s \in Readings /\ s.time = time /\ s.legs = content.legs /\ s.expiries = content.expiries
      <4> HIDE DEF time
      <4> QED
        BY <3>1, <3>2 DEF Readings
    <3> HIDE DEF s
    <3> QED
      BY <3>1, <3>3 DEF MarketStates
  <2>3. built' = Append(built, s) /\ report' = NoReport
    BY <1>1 DEF BuildState
  <2> HIDE DEF s
  <2> QED
    BY <2>1, <2>2, <2>3 DEF FeatureInv
<1>2. ASSUME NEW from \in {1, 2}, NEW params \in ParameterSets, NEW wait \in 0 .. MaxWait,
             from <= Len(built), RunEngine(from, params, Len(built) + wait)
      PROVE  FeatureInv'
  <2> DEFINE at == Len(built) + wait
             s == built[Len(built)]
             h == SubSeq(built, from, Len(built) - 1)
  <2>1. at \in Nat /\ Len(built) \in Nat /\ Len(built) \in DOMAIN built /\ built \in Seq(MarketStates)
    BY <1>2, FeatureAssumption DEF FeatureInv
  <2>2. s \in MarketStates /\ h \in Seq(MarketStates)
    BY <1>2, <2>1
  <2>3. /\ built' = built
        /\ report' = [state |-> s, history |-> h, params |-> params, at |-> at,
                      results |-> RunOf(s, h, params, at, FeatureIds)]
    BY <1>2 DEF RunEngine
  <2> HIDE DEF s, h, at
  <2> QED
    BY <2>1, <2>2, <2>3 DEF FeatureInv
<1>3. CASE UNCHANGED featureVars
  BY <1>3 DEF FeatureInv, featureVars, NoReport
<1> QED
  BY <1>1, <1>2, <1>3 DEF FeatureNext
-----------------------------------------------------------------------------
Ctx(f) == ContextOf(report.state, report.history, report.params, f, report.results)

LEMMA ResultsAre ==
    ASSUME FeatureInv, report # NoReport
    PROVE  /\ DOMAIN report.results = FeatureIds
           /\ \A f \in FeatureIds : report.results[f] = ResultOf(f, Ctx(f), report.at)
<1> DEFINE r == report.results
<1>1. r = RunOf(report.state, report.history, report.params, report.at, FeatureIds)
  BY DEF FeatureInv
<1>2. r = Pass(report.state, report.history, report.params, report.at, r)
  BY <1>1, RunIs
<1> HIDE DEF r
<1>3. DOMAIN r = FeatureIds
  BY <1>2 DEF Pass
<1>4. \A f \in FeatureIds : r[f] = ResultOf(f, ContextOf(report.state, report.history, report.params, f, r), report.at)
  BY <1>2 DEF Pass
<1> QED
  BY <1>3, <1>4 DEF r, Ctx

LEMMA EmitIs ==
    ASSUME NEW v, NEW c, NEW at, NEW ready
    PROVE  /\ Emit(v, c, at, ready).kind = "value" => IsValue(v)
           /\ IsValue(v) => /\ Emit(v, c, at, ready).kind = "value"
                            /\ Emit(v, c, at, ready).value = v.value
                            /\ Emit(v, c, at, ready).available = AvailableAt(c, at, ready)
<1>1. CASE IsValue(v)
  <2>1. Emit(v, c, at, ready) = [kind |-> "value", reason |-> "", value |-> v.value,
                                 available |-> AvailableAt(c, at, ready)]
    BY <1>1, Zenon DEF Emit
  <2> DEFINE e == Emit(v, c, at, ready)
             w == v.value
             a == AvailableAt(c, at, ready)
  <2>2. e = [kind |-> "value", reason |-> "", value |-> w, available |-> a]
    BY <2>1
  <2> HIDE DEF e, w, a
  <2>3. e.kind = "value" /\ e.value = w /\ e.available = a
    BY <2>2
  <2> QED
    BY <1>1, <2>3 DEF e, w, a
<1>2. CASE ~IsValue(v)
  <2>1. Emit(v, c, at, ready) = [kind |-> "unavailable", reason |-> v.reason, value |-> Unseen,
                                 available |-> Unseen]
    BY <1>2, Zenon DEF Emit
  <2>2. Emit(v, c, at, ready).kind # "value"
    BY <2>1
  <2> QED
    BY <1>2, <2>2
<1> QED
  BY <1>1, <1>2

(* What a value that is known has met: the gates, and what it depends on.  *)
LEMMA KnownMeans ==
    ASSUME FeatureInv, NEW f, Known(f)
    PROVE  /\ report # NoReport /\ f \in FeatureIds
           /\ \A r \in Requirements(f) : Meets(r, report.state)
           /\ \A d \in DependsOn(f) : Known(d)
           /\ IsValue(Compute(f, Ctx(f)))
           /\ Of(f) = Compute(f, Ctx(f)).value
           /\ report.results[f].available
                 = AvailableAt(Ctx(f), report.at, {report.results[d].available : d \in DependsOn(f)})
<1>1. report # NoReport
  BY DEF Known, NoReport
<1>2. f \in FeatureIds /\ report.results[f] = ResultOf(f, Ctx(f), report.at) /\ DOMAIN report.results = FeatureIds
  BY <1>1, ResultsAre DEF Known
<1>3. report.results[f].kind = "value"
  BY DEF Known
<1> DEFINE c == Ctx(f)
<1>4. /\ DOMAIN c.deps = DependsOn(f) \cap FeatureIds /\ c.state = report.state
      /\ \A d \in DOMAIN c.deps : c.deps[d] = report.results[d]
  BY DEF Ctx, ContextOf
<1>5. DependsOn(f) \subseteq FeatureIds
  BY DependenciesAreFirst
<1> HIDE DEF c
<1>6. /\ \A r \in Requirements(f) : Meets(r, c.state)
      /\ DOMAIN c.deps = DependsOn(f)
      /\ \A d \in DOMAIN c.deps : c.deps[d].kind = "value"
      /\ report.results[f] = Emit(Compute(f, c), c, report.at, {c.deps[d].available : d \in DOMAIN c.deps})
  BY <1>2, <1>3 DEF ResultOf, Skipped, c
<1>7. {c.deps[d].available : d \in DOMAIN c.deps} = {report.results[d].available : d \in DependsOn(f)}
  BY <1>4, <1>6
<1>8. IsValue(Compute(f, c)) /\ report.results[f].value = Compute(f, c).value
      /\ report.results[f].available = AvailableAt(c, report.at, {c.deps[d].available : d \in DOMAIN c.deps})
  <2> DEFINE ready == {c.deps[d].available : d \in DOMAIN c.deps}
             v == Compute(f, c)
  <2>1. report.results[f] = Emit(v, c, report.at, ready)
    BY <1>6
  <2> HIDE DEF ready, v
  <2>2. IsValue(v)
    BY <1>3, <2>1, EmitIs
  <2>3. report.results[f].value = v.value /\ report.results[f].available = AvailableAt(c, report.at, ready)
    BY <2>1, <2>2, EmitIs
  <2> QED
    BY <2>2, <2>3 DEF ready, v
<1>9. \A d \in DependsOn(f) : Known(d)
  BY <1>2, <1>4, <1>5, <1>6 DEF Known
<1> QED
  BY <1>1, <1>2, <1>4, <1>6, <1>7, <1>8, <1>9 DEF Of, c

LEMMA ComputedMeans ==
    ASSUME NEW f, NEW c, IsValue(Compute(f, c))
    PROVE  /\ f \in NeedsExpiry \cup {"FUTURES_OPTIONS_CONFIRMATION"} => Seen(c.params.expiry)
           /\ f \in NeedsSlice => c.params.expiry \in c.state.expiries
           /\ Covers(c, Lookback(f))
           /\ Compute(f, c) = Formula(f, c) /\ IsValue(Formula(f, c))
BY DEF Compute, Given, Unavailable, IsValue

(* The other way: what has no dependencies and meets the gates is known.   *)
LEMMA MeetsToBeKnown ==
    ASSUME FeatureInv, report # NoReport, NEW f \in FeatureIds, DependsOn(f) = {},
           \A r \in Requirements(f) : Meets(r, report.state),
           f \in NeedsExpiry \cup {"FUTURES_OPTIONS_CONFIRMATION"} => Seen(report.params.expiry),
           f \in NeedsSlice => report.params.expiry \in report.state.expiries,
           Covers(Ctx(f), Lookback(f)), IsValue(Formula(f, Ctx(f)))
    PROVE  Known(f) /\ Of(f) = Formula(f, Ctx(f)).value
<1> DEFINE c == Ctx(f)
<1>1. report.results[f] = ResultOf(f, c, report.at) /\ f \in DOMAIN report.results
  BY ResultsAre
<1>2. DOMAIN c.deps = {} /\ c.state = report.state /\ c.params = report.params
  BY DEF Ctx, ContextOf
<1> HIDE DEF c
<1>3. Compute(f, c) = Formula(f, c)
  BY <1>2 DEF Compute, Given, c
<1>4. report.results[f] = Emit(Compute(f, c), c, report.at, {c.deps[d].available : d \in DOMAIN c.deps})
  BY <1>1, <1>2 DEF ResultOf
<1> QED
  <2> DEFINE ready == {c.deps[d].available : d \in DOMAIN c.deps}
  <2>1. report.results[f] = Emit(Formula(f, c), c, report.at, ready) /\ IsValue(Formula(f, c))
    BY <1>3, <1>4 DEF c
  <2> HIDE DEF ready
  <2>2. report.results[f].kind = "value" /\ report.results[f].value = Formula(f, c).value
    BY <2>1, EmitIs
  <2> QED
    BY <1>1, <2>2 DEF Known, Of, c
-----------------------------------------------------------------------------
LEMMA LatestIs ==
    ASSUME NEW h \in Seq(MarketStates), NEW state \in MarketStates, NEW c,
           c.history = h, c.state = state
    PROVE  /\ LatestIngested(c) \in Nat
           /\ \A s \in Range(Append(h, state)) : s.ingested <= LatestIngested(c)
<1> DEFINE q == Append(h, state)
           I == [n \in DOMAIN q |-> q[n].ingested]
           X == {I[n] : n \in DOMAIN I}
<1>1. q \in Seq(MarketStates) /\ Len(q) = Len(h) + 1 /\ Len(h) \in Nat /\ DOMAIN q = 1 .. Len(q)
  OBVIOUS
<1>2. \A s \in MarketStates : s.ingested \in Nat
  BY DEF MarketStates, Readings
<1>3. IsFiniteSet(DOMAIN I)
  BY <1>1, FS_Interval
<1>4. IsFiniteSet(X)
  <2> HIDE DEF I
  <2> QED
    BY <1>3, RangeIsFinite
<1>5. \A n \in DOMAIN q : q[n].ingested \in Nat
  <2> HIDE DEF q
  <2> QED
    BY <1>1, <1>2
<1>6. X \subseteq Nat /\ X # {} /\ {s.ingested : s \in Range(q)} = X
  <2>1. 1 \in DOMAIN q
    BY <1>1
  <2> HIDE DEF q
  <2> QED
    BY <1>5, <2>1 DEF Range
<1>7. LatestIngested(c) = Max(X)
  BY <1>6 DEF LatestIngested, Series
<1> HIDE DEF X
<1>8. X \in SUBSET Int
  BY <1>6
<1>9. Max(X) \in X /\ \A y \in X : y <= Max(X)
  BY <1>4, <1>6, <1>8, MaxOfNumbers
<1>10. \A s \in Range(q) : s.ingested \in X
  BY <1>6
<1> HIDE DEF q
<1>11. \A s \in Range(q) : s.ingested <= LatestIngested(c)
  BY <1>7, <1>9, <1>10
<1> QED
  BY <1>6, <1>7, <1>9, <1>11 DEF q

LEMMA AvailableIs ==
    ASSUME FeatureInv, report # NoReport, NEW f, NEW ready \in SUBSET Nat, IsFiniteSet(ready)
    PROVE  LET available == AvailableAt(Ctx(f), report.at, ready)
           IN  /\ available \in Nat /\ report.at <= available /\ report.state.time <= available
               /\ \A s \in Range(Append(report.history, report.state)) : s.ingested <= available
               /\ \A t \in ready : t <= available
<1> DEFINE c == Ctx(f)
           latest == LatestIngested(c)
           X == {c.state.time, report.at, latest} \cup ready
<1>1. /\ report.history \in Seq(MarketStates) /\ report.state \in MarketStates /\ report.at \in Nat
      /\ c.history = report.history /\ c.state = report.state
  BY DEF FeatureInv, Ctx, ContextOf
<1>2. report.state.time \in Nat
  BY <1>1 DEF MarketStates, Readings
<1> HIDE DEF c
<1>3. latest \in Nat /\ \A s \in Range(Append(report.history, report.state)) : s.ingested <= latest
  BY <1>1, LatestIs
<1>3a. \A s \in Range(Append(report.history, report.state)) : s.ingested \in Nat
  <2>1. Append(report.history, report.state) \in Seq(MarketStates)
    BY <1>1
  <2>2. Range(Append(report.history, report.state)) \subseteq MarketStates
    BY <2>1 DEF Range
  <2> QED
    BY <2>2 DEF MarketStates, Readings
<1>4. IsFiniteSet(X)
  <2>1. X = ready \cup {c.state.time} \cup {report.at} \cup {latest}
    OBVIOUS
  <2> QED
    BY <2>1, FS_Singleton, FS_Union
<1>5. X \in SUBSET Nat /\ X # {} /\ report.at \in X /\ c.state.time \in X /\ latest \in X /\ ready \subseteq X
  BY <1>1, <1>2, <1>3
<1>6. AvailableAt(c, report.at, ready) = Max(X) + Delay
  BY DEF AvailableAt
<1> HIDE DEF X, latest
<1>7. X \in SUBSET Int
  BY <1>5
<1>8. Max(X) \in X /\ \A y \in X : y <= Max(X)
  BY <1>4, <1>5, <1>7, MaxOfNumbers
<1>9. Delay \in Nat
  BY FeatureAssumption
<1>10. Max(X) \in Nat
  BY <1>5, <1>8
<1>11. ASSUME NEW y \in X PROVE y \in Nat /\ y <= Max(X) + Delay
  BY <1>5, <1>8, <1>9, <1>10
<1>12. \A s \in Range(Append(report.history, report.state)) : s.ingested <= Max(X) + Delay
  <2>1. latest \in Nat /\ latest <= Max(X) + Delay
    BY <1>3, <1>5, <1>11
  <2> QED
    BY <1>3, <1>3a, <1>9, <1>10, <2>1
<1>13. /\ report.at <= Max(X) + Delay /\ report.state.time <= Max(X) + Delay
       /\ \A t \in ready : t <= Max(X) + Delay
  BY <1>1, <1>5, <1>11
<1>14. Max(X) + Delay \in Nat
  BY <1>9, <1>10
<1>15. AvailableAt(Ctx(f), report.at, ready) = Max(X) + Delay
  BY <1>6 DEF c
<1> QED
  BY <1>12, <1>13, <1>14, <1>15

LEMMA DependenciesAreFew == \A f : IsFiniteSet(DependsOn(f))
<1>1. SUFFICES ASSUME NEW f PROVE IsFiniteSet(DependsOn(f))
  OBVIOUS
<1> DEFINE three == {"ATM_IV"} \cup {"BASIS"} \cup {"REALIZED_VOL_CLOSE_TO_CLOSE"}
<1>2. IsFiniteSet(three)
  BY FS_Singleton, FS_Union
<1>3. DependsOn(f) \subseteq three
  BY DependenciesAreFirst
<1> QED
  BY <1>2, <1>3, FS_Subset

LEMMA KnownIsAvailable ==
    ASSUME FeatureInv, NEW f, Known(f)
    PROVE  LET available == report.results[f].available
           IN  /\ available \in Nat /\ report.at <= available /\ report.state.time <= available
               /\ \A s \in Range(Append(report.history, report.state)) : s.ingested <= available
               /\ \A d \in DependsOn(f) : Known(d) /\ report.results[d].available <= available
<1> DEFINE Ready(g) == {report.results[d].available : d \in DependsOn(g)}
<1>1. ASSUME NEW g, Known(g), Ready(g) \in SUBSET Nat
      PROVE  LET available == report.results[g].available
             IN  /\ available \in Nat /\ report.at <= available /\ report.state.time <= available
                 /\ \A s \in Range(Append(report.history, report.state)) : s.ingested <= available
                 /\ \A t \in Ready(g) : t <= available
  <2>1. IsFiniteSet(Ready(g))
    <3> DEFINE q == [d \in DependsOn(g) |-> report.results[d].available]
    <3>1. IsFiniteSet(DOMAIN q) /\ Ready(g) = {q[d] : d \in DOMAIN q}
      BY DependenciesAreFew
    <3> HIDE DEF q
    <3> QED
      BY <3>1, RangeIsFinite
  <2>2. report # NoReport /\ report.results[g].available = AvailableAt(Ctx(g), report.at, Ready(g))
    BY <1>1, KnownMeans
  <2> HIDE DEF Ready
  <2> QED
    BY <1>1, <2>1, <2>2, AvailableIs
<1>2. ASSUME NEW d \in DependsOn(f) PROVE Known(d) /\ report.results[d].available \in Nat
  <2>1. Known(d) /\ Ready(d) \in SUBSET Nat
    BY DependenciesAreFirst, KnownMeans
  <2> HIDE DEF Ready
  <2> QED
    BY <1>1, <2>1
<1>3. Ready(f) \in SUBSET Nat
  BY <1>2
<1> QED
  BY <1>1, <1>2, <1>3

(* By induction on what depends on what, which is two levels deep.         *)
LEMMA InputsComeFirst == FeatureInv => NothingBeforeItsInputs
<1> SUFFICES ASSUME FeatureInv PROVE NothingBeforeItsInputs
  OBVIOUS
<1>1. Series(Reported) = Append(report.history, report.state)
  BY DEF Series, Reported
<1> QED
  BY <1>1, KnownIsAvailable DEF NothingBeforeItsInputs

LEMMA FeaturesKeep == FeatureSpec => []FeatureInv
BY FeatureInitially, FeatureStep, PTL DEF FeatureSpec
-----------------------------------------------------------------------------
Evidences(R) == [metric : R, weight : 1 .. 100]

(* What an outcome that fires rests on.                                    *)
RestsOn(outcome, R) ==
    outcome.fired =>
        /\ outcome.support # {}
        /\ outcome.support \subseteq Evidences(R) /\ outcome.against \subseteq Evidences(R)

LEMMA ConcludeRests ==
    ASSUME NEW fires, NEW met, NEW S, NEW A, NEW R,
           S # {}, S \subseteq Evidences(R), A \subseteq Evidences(R)
    PROVE  RestsOn(Conclude(fires, met, S, A), R)
<1>1. CASE fires
  <2>1. Conclude(fires, met, S, A) = [fired |-> TRUE, met |-> met, support |-> S, against |-> A]
    BY <1>1, Zenon DEF Conclude
  <2> DEFINE o == Conclude(fires, met, S, A)
  <2>2. o.support = S /\ o.against = A
    BY <2>1
  <2> HIDE DEF o
  <2> QED
    BY <2>2 DEF RestsOn, o
<1>2. CASE ~fires
  <2>1. Conclude(fires, met, S, A) = NoSignal
    BY <1>2, Zenon DEF Conclude
  <2>2. ~Conclude(fires, met, S, A).fired
    BY <2>1 DEF NoSignal
  <2> QED
    BY <2>2 DEF RestsOn
<1> QED
  BY <1>1, <1>2

LEMMA SmallIsFinite ==
    ASSUME NEW S, NEW a, IsFiniteSet(S)
    PROVE  IsFiniteSet(S \cup {a})
<1>1. IsFiniteSet({a})
  BY FS_Singleton
<1> QED
  BY <1>1, FS_Union

LEMMA RequiresFew == \A rule \in RuleTypes : IsFiniteSet(RequiresFeatures[rule])
<1> SUFFICES ASSUME NEW rule \in RuleTypes PROVE IsFiniteSet(RequiresFeatures[rule])
  OBVIOUS
<1>1. IsFiniteSet(RequiresFeatures["PUT_SUPPORT_MIGRATION"])
  <2>1. RequiresFeatures["PUT_SUPPORT_MIGRATION"] = {"PUT_OI_MIGRATION"} \cup {"OI_WALL_PUT"}
        \cup {"FUTURES_OI_CHANGE"} \cup {"ATM_IV"} \cup {"OI_WALL_CALL"} \cup {"IV_CHANGE"}
    BY DEF RequiresFeatures
  <2>2. IsFiniteSet({"PUT_OI_MIGRATION"})
    BY FS_Singleton
  <2>3. IsFiniteSet({"PUT_OI_MIGRATION"} \cup {"OI_WALL_PUT"})
    BY <2>2, SmallIsFinite
  <2>4. IsFiniteSet({"PUT_OI_MIGRATION"} \cup {"OI_WALL_PUT"} \cup {"FUTURES_OI_CHANGE"})
    BY <2>3, SmallIsFinite
  <2>5. IsFiniteSet({"PUT_OI_MIGRATION"} \cup {"OI_WALL_PUT"} \cup {"FUTURES_OI_CHANGE"}
        \cup {"ATM_IV"})
    BY <2>4, SmallIsFinite
  <2>6. IsFiniteSet({"PUT_OI_MIGRATION"} \cup {"OI_WALL_PUT"} \cup {"FUTURES_OI_CHANGE"}
        \cup {"ATM_IV"} \cup {"OI_WALL_CALL"})
    BY <2>5, SmallIsFinite
  <2>7. IsFiniteSet({"PUT_OI_MIGRATION"} \cup {"OI_WALL_PUT"} \cup {"FUTURES_OI_CHANGE"}
        \cup {"ATM_IV"} \cup {"OI_WALL_CALL"} \cup {"IV_CHANGE"})
    BY <2>6, SmallIsFinite
  <2> QED
    BY <2>1, <2>7
<1>2. IsFiniteSet(RequiresFeatures["CALL_RESISTANCE_MIGRATION"])
  <2>1. RequiresFeatures["CALL_RESISTANCE_MIGRATION"] = {"CALL_OI_MIGRATION"}
        \cup {"OI_WALL_CALL"} \cup {"OI_WALL_PUT"} \cup {"ATM_IV"}
    BY DEF RequiresFeatures
  <2>2. IsFiniteSet({"CALL_OI_MIGRATION"})
    BY FS_Singleton
  <2>3. IsFiniteSet({"CALL_OI_MIGRATION"} \cup {"OI_WALL_CALL"})
    BY <2>2, SmallIsFinite
  <2>4. IsFiniteSet({"CALL_OI_MIGRATION"} \cup {"OI_WALL_CALL"} \cup {"OI_WALL_PUT"})
    BY <2>3, SmallIsFinite
  <2>5. IsFiniteSet({"CALL_OI_MIGRATION"} \cup {"OI_WALL_CALL"} \cup {"OI_WALL_PUT"}
        \cup {"ATM_IV"})
    BY <2>4, SmallIsFinite
  <2> QED
    BY <2>1, <2>5
<1>3. IsFiniteSet(RequiresFeatures["OI_EXPANSION"])
  <2>1. RequiresFeatures["OI_EXPANSION"] = {"OI_CHANGE_PCT"} \cup {"VOLUME_OI_RATIO"} \cup {"PCR"}
    BY DEF RequiresFeatures
  <2>2. IsFiniteSet({"OI_CHANGE_PCT"})
    BY FS_Singleton
  <2>3. IsFiniteSet({"OI_CHANGE_PCT"} \cup {"VOLUME_OI_RATIO"})
    BY <2>2, SmallIsFinite
  <2>4. IsFiniteSet({"OI_CHANGE_PCT"} \cup {"VOLUME_OI_RATIO"} \cup {"PCR"})
    BY <2>3, SmallIsFinite
  <2> QED
    BY <2>1, <2>4
<1>4. IsFiniteSet(RequiresFeatures["OI_UNWINDING"])
  <2>1. RequiresFeatures["OI_UNWINDING"] = {"OI_CHANGE_PCT"} \cup {"VOLUME_OI_RATIO"}
    BY DEF RequiresFeatures
  <2>2. IsFiniteSet({"OI_CHANGE_PCT"})
    BY FS_Singleton
  <2>3. IsFiniteSet({"OI_CHANGE_PCT"} \cup {"VOLUME_OI_RATIO"})
    BY <2>2, SmallIsFinite
  <2> QED
    BY <2>1, <2>3
<1>5. IsFiniteSet(RequiresFeatures["POSITIONING_SHIFT"])
  <2>1. RequiresFeatures["POSITIONING_SHIFT"] = {"PCR"} \cup {"PCR_OI_CHANGE"}
        \cup {"OI_CHANGE_PCT"}
    BY DEF RequiresFeatures
  <2>2. IsFiniteSet({"PCR"})
    BY FS_Singleton
  <2>3. IsFiniteSet({"PCR"} \cup {"PCR_OI_CHANGE"})
    BY <2>2, SmallIsFinite
  <2>4. IsFiniteSet({"PCR"} \cup {"PCR_OI_CHANGE"} \cup {"OI_CHANGE_PCT"})
    BY <2>3, SmallIsFinite
  <2> QED
    BY <2>1, <2>4
<1>6. IsFiniteSet(RequiresFeatures["CONCENTRATION_BUILDING"])
  <2>1. RequiresFeatures["CONCENTRATION_BUILDING"] = {"OI_CONCENTRATION"} \cup {"OI_CHANGE_PCT"}
    BY DEF RequiresFeatures
  <2>2. IsFiniteSet({"OI_CONCENTRATION"})
    BY FS_Singleton
  <2>3. IsFiniteSet({"OI_CONCENTRATION"} \cup {"OI_CHANGE_PCT"})
    BY <2>2, SmallIsFinite
  <2> QED
    BY <2>1, <2>3
<1>7. IsFiniteSet(RequiresFeatures["BREAKOUT_CONTEXT"])
  <2>1. RequiresFeatures["BREAKOUT_CONTEXT"] = {"REGIME"} \cup {"RESISTANCE_FROM_POSITIONING"}
        \cup {"GEX_TOTAL"} \cup {"REALIZED_MOVE"}
    BY DEF RequiresFeatures
  <2>2. IsFiniteSet({"REGIME"})
    BY FS_Singleton
  <2>3. IsFiniteSet({"REGIME"} \cup {"RESISTANCE_FROM_POSITIONING"})
    BY <2>2, SmallIsFinite
  <2>4. IsFiniteSet({"REGIME"} \cup {"RESISTANCE_FROM_POSITIONING"} \cup {"GEX_TOTAL"})
    BY <2>3, SmallIsFinite
  <2>5. IsFiniteSet({"REGIME"} \cup {"RESISTANCE_FROM_POSITIONING"} \cup {"GEX_TOTAL"}
        \cup {"REALIZED_MOVE"})
    BY <2>4, SmallIsFinite
  <2> QED
    BY <2>1, <2>5
<1>8. IsFiniteSet(RequiresFeatures["BREAKDOWN_CONTEXT"])
  <2>1. RequiresFeatures["BREAKDOWN_CONTEXT"] = {"REGIME"} \cup {"SUPPORT_FROM_POSITIONING"}
        \cup {"GEX_TOTAL"} \cup {"REALIZED_MOVE"}
    BY DEF RequiresFeatures
  <2>2. IsFiniteSet({"REGIME"})
    BY FS_Singleton
  <2>3. IsFiniteSet({"REGIME"} \cup {"SUPPORT_FROM_POSITIONING"})
    BY <2>2, SmallIsFinite
  <2>4. IsFiniteSet({"REGIME"} \cup {"SUPPORT_FROM_POSITIONING"} \cup {"GEX_TOTAL"})
    BY <2>3, SmallIsFinite
  <2>5. IsFiniteSet({"REGIME"} \cup {"SUPPORT_FROM_POSITIONING"} \cup {"GEX_TOTAL"}
        \cup {"REALIZED_MOVE"})
    BY <2>4, SmallIsFinite
  <2> QED
    BY <2>1, <2>5
<1>9. IsFiniteSet(RequiresFeatures["GAMMA_CONCENTRATION_SHIFT"])
  <2>1. RequiresFeatures["GAMMA_CONCENTRATION_SHIFT"] = {"GEX_CONCENTRATION"} \cup {"GEX_TOTAL"}
        \cup {"GAMMA_FLIP_LEVEL"}
    BY DEF RequiresFeatures
  <2>2. IsFiniteSet({"GEX_CONCENTRATION"})
    BY FS_Singleton
  <2>3. IsFiniteSet({"GEX_CONCENTRATION"} \cup {"GEX_TOTAL"})
    BY <2>2, SmallIsFinite
  <2>4. IsFiniteSet({"GEX_CONCENTRATION"} \cup {"GEX_TOTAL"} \cup {"GAMMA_FLIP_LEVEL"})
    BY <2>3, SmallIsFinite
  <2> QED
    BY <2>1, <2>4
<1>10. IsFiniteSet(RequiresFeatures["REGIME_TRANSITION"])
  <2>1. RequiresFeatures["REGIME_TRANSITION"] = {"REGIME"} \cup {"RANGE"} \cup {"ATR"}
    BY DEF RequiresFeatures
  <2>2. IsFiniteSet({"REGIME"})
    BY FS_Singleton
  <2>3. IsFiniteSet({"REGIME"} \cup {"RANGE"})
    BY <2>2, SmallIsFinite
  <2>4. IsFiniteSet({"REGIME"} \cup {"RANGE"} \cup {"ATR"})
    BY <2>3, SmallIsFinite
  <2> QED
    BY <2>1, <2>4
<1>11. IsFiniteSet(RequiresFeatures["VOLATILITY_EXPANSION"])
  <2>1. RequiresFeatures["VOLATILITY_EXPANSION"] = {"IV_CHANGE"} \cup {"ATM_IV"}
        \cup {"REALIZED_VOL_CLOSE_TO_CLOSE"} \cup {"IMPLIED_REALIZED_SPREAD"}
    BY DEF RequiresFeatures
  <2>2. IsFiniteSet({"IV_CHANGE"})
    BY FS_Singleton
  <2>3. IsFiniteSet({"IV_CHANGE"} \cup {"ATM_IV"})
    BY <2>2, SmallIsFinite
  <2>4. IsFiniteSet({"IV_CHANGE"} \cup {"ATM_IV"} \cup {"REALIZED_VOL_CLOSE_TO_CLOSE"})
    BY <2>3, SmallIsFinite
  <2>5. IsFiniteSet({"IV_CHANGE"} \cup {"ATM_IV"} \cup {"REALIZED_VOL_CLOSE_TO_CLOSE"}
        \cup {"IMPLIED_REALIZED_SPREAD"})
    BY <2>4, SmallIsFinite
  <2> QED
    BY <2>1, <2>5
<1>12. IsFiniteSet(RequiresFeatures["VOLATILITY_CONTRACTION"])
  <2>1. RequiresFeatures["VOLATILITY_CONTRACTION"] = {"IV_CHANGE"} \cup {"ATM_IV"}
        \cup {"REALIZED_VOL_CLOSE_TO_CLOSE"}
    BY DEF RequiresFeatures
  <2>2. IsFiniteSet({"IV_CHANGE"})
    BY FS_Singleton
  <2>3. IsFiniteSet({"IV_CHANGE"} \cup {"ATM_IV"})
    BY <2>2, SmallIsFinite
  <2>4. IsFiniteSet({"IV_CHANGE"} \cup {"ATM_IV"} \cup {"REALIZED_VOL_CLOSE_TO_CLOSE"})
    BY <2>3, SmallIsFinite
  <2> QED
    BY <2>1, <2>4
<1>13. IsFiniteSet(RequiresFeatures["SKEW_STEEPENING"])
  <2>1. RequiresFeatures["SKEW_STEEPENING"] = {"IV_SKEW_DELTA"} \cup {"IV_SKEW_STRIKE"}
        \cup {"ATM_IV"}
    BY DEF RequiresFeatures
  <2>2. IsFiniteSet({"IV_SKEW_DELTA"})
    BY FS_Singleton
  <2>3. IsFiniteSet({"IV_SKEW_DELTA"} \cup {"IV_SKEW_STRIKE"})
    BY <2>2, SmallIsFinite
  <2>4. IsFiniteSet({"IV_SKEW_DELTA"} \cup {"IV_SKEW_STRIKE"} \cup {"ATM_IV"})
    BY <2>3, SmallIsFinite
  <2> QED
    BY <2>1, <2>4
<1>14. IsFiniteSet(RequiresFeatures["TERM_STRUCTURE_INVERSION"])
  <2>1. RequiresFeatures["TERM_STRUCTURE_INVERSION"] = {"IV_TERM_STRUCTURE"} \cup {"ATM_IV"}
    BY DEF RequiresFeatures
  <2>2. IsFiniteSet({"IV_TERM_STRUCTURE"})
    BY FS_Singleton
  <2>3. IsFiniteSet({"IV_TERM_STRUCTURE"} \cup {"ATM_IV"})
    BY <2>2, SmallIsFinite
  <2> QED
    BY <2>1, <2>3
<1>15. IsFiniteSet(RequiresFeatures["FUTURES_OPTIONS_DIVERGENCE"])
  <2>1. RequiresFeatures["FUTURES_OPTIONS_DIVERGENCE"] = {"FUTURES_OPTIONS_CONFIRMATION"}
        \cup {"FUTURES_OI_CHANGE"} \cup {"OI_CHANGE"} \cup {"SPOT_FUTURES_DIVERGENCE"}
    BY DEF RequiresFeatures
  <2>2. IsFiniteSet({"FUTURES_OPTIONS_CONFIRMATION"})
    BY FS_Singleton
  <2>3. IsFiniteSet({"FUTURES_OPTIONS_CONFIRMATION"} \cup {"FUTURES_OI_CHANGE"})
    BY <2>2, SmallIsFinite
  <2>4. IsFiniteSet({"FUTURES_OPTIONS_CONFIRMATION"} \cup {"FUTURES_OI_CHANGE"} \cup {"OI_CHANGE"})
    BY <2>3, SmallIsFinite
  <2>5. IsFiniteSet({"FUTURES_OPTIONS_CONFIRMATION"} \cup {"FUTURES_OI_CHANGE"}
        \cup {"OI_CHANGE"} \cup {"SPOT_FUTURES_DIVERGENCE"})
    BY <2>4, SmallIsFinite
  <2> QED
    BY <2>1, <2>5
<1>16. IsFiniteSet(RequiresFeatures["BASIS_ANOMALY"])
  <2>1. RequiresFeatures["BASIS_ANOMALY"] = {"ANNUALIZED_BASIS"} \cup {"BASIS"}
        \cup {"BASIS_CHANGE"}
    BY DEF RequiresFeatures
  <2>2. IsFiniteSet({"ANNUALIZED_BASIS"})
    BY FS_Singleton
  <2>3. IsFiniteSet({"ANNUALIZED_BASIS"} \cup {"BASIS"})
    BY <2>2, SmallIsFinite
  <2>4. IsFiniteSet({"ANNUALIZED_BASIS"} \cup {"BASIS"} \cup {"BASIS_CHANGE"})
    BY <2>3, SmallIsFinite
  <2> QED
    BY <2>1, <2>4
<1>50. rule \in {"PUT_SUPPORT_MIGRATION", "CALL_RESISTANCE_MIGRATION", "OI_EXPANSION",
      "OI_UNWINDING", "POSITIONING_SHIFT", "CONCENTRATION_BUILDING", "BREAKOUT_CONTEXT",
      "BREAKDOWN_CONTEXT", "GAMMA_CONCENTRATION_SHIFT", "REGIME_TRANSITION",
      "VOLATILITY_EXPANSION", "VOLATILITY_CONTRACTION", "SKEW_STEEPENING",
      "TERM_STRUCTURE_INVERSION", "FUTURES_OPTIONS_DIVERGENCE", "BASIS_ANOMALY"}
  BY DEF RuleTypes, RequiresFeatures
<1> QED
  BY <1>50, <1>1, <1>2, <1>3, <1>4, <1>5, <1>6, <1>7, <1>8, <1>9, <1>10, <1>11, <1>12, <1>13,
     <1>14, <1>15, <1>16

LEMMA EvidencesAreFinite ==
    ASSUME NEW R, IsFiniteSet(R)
    PROVE  IsFiniteSet(Evidences(R))
<1> DEFINE q == [x \in R \X (1 .. 100) |-> [metric |-> x[1], weight |-> x[2]]]
<1>1. IsFiniteSet(R \X (1 .. 100))
  <2>1. 1 \in Int /\ 100 \in Int
    OBVIOUS
  <2>4. IsFiniteSet(1 .. 100)
    BY ONLY <2>1, FS_Interval
  <2> QED
    BY <2>4, FS_Product
<1>2. Evidences(R) = {q[x] : x \in DOMAIN q}
  <2>1. \A y \in R, w \in 1 .. 100 : <<y, w>> \in DOMAIN q /\ q[<<y, w>>] = [metric |-> y, weight |-> w]
    OBVIOUS
  <2>2. \A x \in DOMAIN q : q[x] \in Evidences(R)
    BY DEF Evidences
  <2>3. \A e \in Evidences(R) : e = [metric |-> e.metric, weight |-> e.weight] /\ e.metric \in R /\ e.weight \in 1 .. 100
    BY DEF Evidences
  <2> HIDE DEF q
  <2>4. \A e \in Evidences(R) : \E x \in DOMAIN q : e = q[x]
    <3>1. ASSUME NEW e \in Evidences(R) PROVE \E x \in DOMAIN q : e = q[x]
      <4>1. e.metric \in R /\ e.weight \in 1 .. 100
        BY <2>3
      <4>2. <<e.metric, e.weight>> \in DOMAIN q /\ q[<<e.metric, e.weight>>] = e
        BY <2>1, <2>3, <4>1
      <4> QED
        BY <4>2, Zenon
    <3> QED
      BY <3>1
  <2> QED
    BY <2>2, <2>4
<1>3. IsFiniteSet(DOMAIN q)
  BY <1>1
<1> HIDE DEF q
<1> QED
  BY <1>2, <1>3, RangeIsFinite

LEMMA OneEvidence ==
    ASSUME NEW f, NEW R, f \in R, NEW w \in 1 .. 100
    PROVE  {Evidence(f, w)} \subseteq Evidences(R)
BY DEF Evidence, Evidences

LEMMA RulesRest ==
    ASSUME NEW rule \in RuleTypes, NEW m, NEW realisedAbove
    PROVE  RestsOn(Ask(rule, m, realisedAbove), RequiresFeatures[rule])
<1>1. RestsOn(PutSupportMigration(m), RequiresFeatures["PUT_SUPPORT_MIGRATION"])
  <2> DEFINE R == RequiresFeatures["PUT_SUPPORT_MIGRATION"]
             migration == m["PUT_OI_MIGRATION"]
             W1 == When(m["FUTURES_OI_CHANGE"] > 0, "FUTURES_OI_CHANGE", 20)
             W2 == When(Above(m["IV_CHANGE"], 0, 1), "IV_CHANGE", 5)
             S == {Evidence("PUT_OI_MIGRATION", 30), Evidence("OI_WALL_PUT", 25)} \cup W1
             A == {Evidence("OI_WALL_CALL", 12)} \cup W2
  <2>1. {"PUT_OI_MIGRATION", "OI_WALL_PUT", "OI_WALL_CALL", "FUTURES_OI_CHANGE",
        "IV_CHANGE"} \subseteq R
    BY DEF RequiresFeatures
  <2> HIDE DEF R
  <2>2. /\ {Evidence("PUT_OI_MIGRATION", 30)} \subseteq Evidences(R)
        /\ {Evidence("OI_WALL_PUT", 25)} \subseteq Evidences(R)
        /\ {Evidence("OI_WALL_CALL", 12)} \subseteq Evidences(R)
        /\ {Evidence("FUTURES_OI_CHANGE", 20)} \subseteq Evidences(R)
        /\ {Evidence("IV_CHANGE", 5)} \subseteq Evidences(R)
    BY <2>1, OneEvidence
  <2>3. W1 \subseteq Evidences(R)
    <3>1. W1 = {Evidence("FUTURES_OI_CHANGE", 20)} \/ W1 = {}
      BY Zenon DEF When
    <3> HIDE DEF W1
    <3> QED
      BY <2>2, <3>1
  <2>4. W2 \subseteq Evidences(R)
    <3>1. W2 = {Evidence("IV_CHANGE", 5)} \/ W2 = {}
      BY Zenon DEF When
    <3> HIDE DEF W2
    <3> QED
      BY <2>2, <3>1
  <2> HIDE DEF W1, W2
  <2>5. S # {} /\ S \subseteq Evidences(R) /\ A \subseteq Evidences(R)
    BY <2>2, <2>3, <2>4
  <2> HIDE DEF S, A
  <2>6. RestsOn(Conclude(Reaches(migration, 50, 1),
                         Reaches(migration, 100, 1), S, A), R)
    BY <2>5, ConcludeRests
  <2> QED
    BY <2>6 DEF PutSupportMigration, S, A, R, W1, W2
<1>2. RestsOn(CallResistanceMigration(m), RequiresFeatures["CALL_RESISTANCE_MIGRATION"])
  <2> DEFINE R == RequiresFeatures["CALL_RESISTANCE_MIGRATION"]
             size == Magnitude(m["CALL_OI_MIGRATION"])
             S == {Evidence("CALL_OI_MIGRATION", 35), Evidence("OI_WALL_CALL", 25)}
             A == {Evidence("OI_WALL_PUT", 10)}
  <2>1. {"CALL_OI_MIGRATION", "OI_WALL_CALL", "OI_WALL_PUT"} \subseteq R
    BY DEF RequiresFeatures
  <2> HIDE DEF R
  <2>2. /\ {Evidence("CALL_OI_MIGRATION", 35)} \subseteq Evidences(R)
        /\ {Evidence("OI_WALL_CALL", 25)} \subseteq Evidences(R)
        /\ {Evidence("OI_WALL_PUT", 10)} \subseteq Evidences(R)
    BY <2>1, OneEvidence
  <2>3. S # {} /\ S \subseteq Evidences(R) /\ A \subseteq Evidences(R)
    BY <2>2
  <2> HIDE DEF S, A
  <2>4. RestsOn(Conclude(Reaches(size, 50, 1),
                         Reaches(size, 100, 1), S, A), R)
    BY <2>3, ConcludeRests
  <2> QED
    BY <2>4 DEF CallResistanceMigration, S, A, R
<1>3. RestsOn(OiExpansion(m), RequiresFeatures["OI_EXPANSION"])
  <2> DEFINE R == RequiresFeatures["OI_EXPANSION"]
             change == m["OI_CHANGE_PCT"]
             W1 == When(Below(m["VOLUME_OI_RATIO"], 1, 10), "VOLUME_OI_RATIO", 10)
             S == {Evidence("OI_CHANGE_PCT", 40), Evidence("VOLUME_OI_RATIO", 15)}
             A == W1
  <2>1. {"OI_CHANGE_PCT", "VOLUME_OI_RATIO"} \subseteq R
    BY DEF RequiresFeatures
  <2> HIDE DEF R
  <2>2. /\ {Evidence("OI_CHANGE_PCT", 40)} \subseteq Evidences(R)
        /\ {Evidence("VOLUME_OI_RATIO", 15)} \subseteq Evidences(R)
        /\ {Evidence("VOLUME_OI_RATIO", 10)} \subseteq Evidences(R)
    BY <2>1, OneEvidence
  <2>3. W1 \subseteq Evidences(R)
    <3>1. W1 = {Evidence("VOLUME_OI_RATIO", 10)} \/ W1 = {}
      BY Zenon DEF When
    <3> HIDE DEF W1
    <3> QED
      BY <2>2, <3>1
  <2> HIDE DEF W1
  <2>4. S # {} /\ S \subseteq Evidences(R) /\ A \subseteq Evidences(R)
    BY <2>2, <2>3
  <2> HIDE DEF S, A
  <2>5. RestsOn(Conclude(Reaches(change, 2, 100),
                         Reaches(change, 5, 100), S, A), R)
    BY <2>4, ConcludeRests
  <2> QED
    BY <2>5 DEF OiExpansion, S, A, R, W1
<1>4. RestsOn(OiUnwinding(m), RequiresFeatures["OI_UNWINDING"])
  <2> DEFINE R == RequiresFeatures["OI_UNWINDING"]
             change == m["OI_CHANGE_PCT"]
             W1 == When(Above(m["VOLUME_OI_RATIO"], 5, 10), "VOLUME_OI_RATIO", 15)
             S == {Evidence("OI_CHANGE_PCT", 40)}
             A == W1
  <2>1. {"OI_CHANGE_PCT", "VOLUME_OI_RATIO"} \subseteq R
    BY DEF RequiresFeatures
  <2> HIDE DEF R
  <2>2. /\ {Evidence("OI_CHANGE_PCT", 40)} \subseteq Evidences(R)
        /\ {Evidence("VOLUME_OI_RATIO", 15)} \subseteq Evidences(R)
    BY <2>1, OneEvidence
  <2>3. W1 \subseteq Evidences(R)
    <3>1. W1 = {Evidence("VOLUME_OI_RATIO", 15)} \/ W1 = {}
      BY Zenon DEF When
    <3> HIDE DEF W1
    <3> QED
      BY <2>2, <3>1
  <2> HIDE DEF W1
  <2>4. S # {} /\ S \subseteq Evidences(R) /\ A \subseteq Evidences(R)
    BY <2>2, <2>3
  <2> HIDE DEF S, A
  <2>5. RestsOn(Conclude(Falls(change, -2, 100),
                         Falls(change, -5, 100), S, A), R)
    BY <2>4, ConcludeRests
  <2> QED
    BY <2>5 DEF OiUnwinding, S, A, R, W1
<1>5. RestsOn(PositioningShift(m), RequiresFeatures["POSITIONING_SHIFT"])
  <2> DEFINE R == RequiresFeatures["POSITIONING_SHIFT"]
             divergence == Magnitude(Minus(m["PCR_OI_CHANGE"], m["PCR"]))
             B == Below(Magnitude(m["OI_CHANGE_PCT"]), 5, 1000)
             W1 == When(B, "OI_CHANGE_PCT", 20)
             S == {Evidence("PCR_OI_CHANGE", 35)}
             A == W1
  <2>1. {"PCR_OI_CHANGE", "OI_CHANGE_PCT"} \subseteq R
    BY DEF RequiresFeatures
  <2> HIDE DEF R, B
  <2>2. /\ {Evidence("PCR_OI_CHANGE", 35)} \subseteq Evidences(R)
        /\ {Evidence("OI_CHANGE_PCT", 20)} \subseteq Evidences(R)
    BY <2>1, OneEvidence
  <2>3. W1 \subseteq Evidences(R)
    <3>1. W1 = {Evidence("OI_CHANGE_PCT", 20)} \/ W1 = {}
      BY Zenon DEF When
    <3> HIDE DEF W1
    <3> QED
      BY <2>2, <3>1
  <2> HIDE DEF W1
  <2>4. S # {} /\ S \subseteq Evidences(R) /\ A \subseteq Evidences(R)
    BY <2>2, <2>3
  <2> HIDE DEF S, A
  <2>5. RestsOn(Conclude(Reaches(divergence, 25, 100),
                         Reaches(divergence, 50, 100), S, A), R)
    BY <2>4, ConcludeRests
  <2>6. PositioningShift(m) = Conclude(Reaches(divergence, 25, 100), Reaches(divergence, 50, 100), S, A)
    BY SMT DEF PositioningShift, S, A, B, W1
  <2> QED
    BY <2>5, <2>6, Zenon DEF R
<1>6. RestsOn(ConcentrationBuilding(m), RequiresFeatures["CONCENTRATION_BUILDING"])
  <2> DEFINE R == RequiresFeatures["CONCENTRATION_BUILDING"]
             index == m["OI_CONCENTRATION"]
             W1 == When(Below(m["OI_CHANGE_PCT"], 0, 1), "OI_CHANGE_PCT", 15)
             S == {Evidence("OI_CONCENTRATION", 35)}
             A == W1
  <2>1. {"OI_CONCENTRATION", "OI_CHANGE_PCT"} \subseteq R
    BY DEF RequiresFeatures
  <2> HIDE DEF R
  <2>2. /\ {Evidence("OI_CONCENTRATION", 35)} \subseteq Evidences(R)
        /\ {Evidence("OI_CHANGE_PCT", 15)} \subseteq Evidences(R)
    BY <2>1, OneEvidence
  <2>3. W1 \subseteq Evidences(R)
    <3>1. W1 = {Evidence("OI_CHANGE_PCT", 15)} \/ W1 = {}
      BY Zenon DEF When
    <3> HIDE DEF W1
    <3> QED
      BY <2>2, <3>1
  <2> HIDE DEF W1
  <2>4. S # {} /\ S \subseteq Evidences(R) /\ A \subseteq Evidences(R)
    BY <2>2, <2>3
  <2> HIDE DEF S, A
  <2>5. RestsOn(Conclude(Reaches(index, 20, 100),
                         Reaches(index, 30, 100), S, A), R)
    BY <2>4, ConcludeRests
  <2> QED
    BY <2>5 DEF ConcentrationBuilding, S, A, R, W1
<1>7. RestsOn(BreakoutContext(m), RequiresFeatures["BREAKOUT_CONTEXT"])
  <2> DEFINE R == RequiresFeatures["BREAKOUT_CONTEXT"]
             W1 == When(m["GEX_TOTAL"] > 0, "GEX_TOTAL", 10)
             S == {Evidence("REGIME", 35), Evidence("REALIZED_MOVE", 20)}
             A == {Evidence("RESISTANCE_FROM_POSITIONING", 15)} \cup W1
  <2>1. {"REGIME", "REALIZED_MOVE", "RESISTANCE_FROM_POSITIONING", "GEX_TOTAL"} \subseteq R
    BY DEF RequiresFeatures
  <2> HIDE DEF R
  <2>2. /\ {Evidence("REGIME", 35)} \subseteq Evidences(R)
        /\ {Evidence("REALIZED_MOVE", 20)} \subseteq Evidences(R)
        /\ {Evidence("RESISTANCE_FROM_POSITIONING", 15)} \subseteq Evidences(R)
        /\ {Evidence("GEX_TOTAL", 10)} \subseteq Evidences(R)
    BY <2>1, OneEvidence
  <2>3. W1 \subseteq Evidences(R)
    <3>1. W1 = {Evidence("GEX_TOTAL", 10)} \/ W1 = {}
      BY Zenon DEF When
    <3> HIDE DEF W1
    <3> QED
      BY <2>2, <3>1
  <2> HIDE DEF W1
  <2>4. S # {} /\ S \subseteq Evidences(R) /\ A \subseteq Evidences(R)
    BY <2>2, <2>3
  <2> HIDE DEF S, A
  <2>5. RestsOn(Conclude(m["REGIME"] \in {"BREAKOUT", "TRENDING_UP"},
                         m["REGIME"] = "BREAKOUT", S, A), R)
    BY <2>4, ConcludeRests
  <2> QED
    BY <2>5 DEF BreakoutContext, S, A, R, W1
<1>8. RestsOn(BreakdownContext(m), RequiresFeatures["BREAKDOWN_CONTEXT"])
  <2> DEFINE R == RequiresFeatures["BREAKDOWN_CONTEXT"]
             S == {Evidence("REGIME", 35), Evidence("REALIZED_MOVE", 20)}
             A == {Evidence("SUPPORT_FROM_POSITIONING", 15)}
  <2>1. {"REGIME", "REALIZED_MOVE", "SUPPORT_FROM_POSITIONING"} \subseteq R
    BY DEF RequiresFeatures
  <2> HIDE DEF R
  <2>2. /\ {Evidence("REGIME", 35)} \subseteq Evidences(R)
        /\ {Evidence("REALIZED_MOVE", 20)} \subseteq Evidences(R)
        /\ {Evidence("SUPPORT_FROM_POSITIONING", 15)} \subseteq Evidences(R)
    BY <2>1, OneEvidence
  <2>3. S # {} /\ S \subseteq Evidences(R) /\ A \subseteq Evidences(R)
    BY <2>2
  <2> HIDE DEF S, A
  <2>4. RestsOn(Conclude(m["REGIME"] \in {"BREAKDOWN", "TRENDING_DOWN"},
                         m["REGIME"] = "BREAKDOWN", S, A), R)
    BY <2>3, ConcludeRests
  <2> QED
    BY <2>4 DEF BreakdownContext, S, A, R
<1>9. RestsOn(GammaConcentrationShift(m), RequiresFeatures["GAMMA_CONCENTRATION_SHIFT"])
  <2> DEFINE R == RequiresFeatures["GAMMA_CONCENTRATION_SHIFT"]
             index == m["GEX_CONCENTRATION"]
             B == AbsInt(m["GEX_TOTAL"]) < 1000
             W1 == When(B, "GEX_TOTAL", 20)
             S == {Evidence("GEX_CONCENTRATION", 35), Evidence("GAMMA_FLIP_LEVEL", 15)}
             A == W1
  <2>1. {"GEX_CONCENTRATION", "GAMMA_FLIP_LEVEL", "GEX_TOTAL"} \subseteq R
    BY DEF RequiresFeatures
  <2> HIDE DEF R, B
  <2>2. /\ {Evidence("GEX_CONCENTRATION", 35)} \subseteq Evidences(R)
        /\ {Evidence("GAMMA_FLIP_LEVEL", 15)} \subseteq Evidences(R)
        /\ {Evidence("GEX_TOTAL", 20)} \subseteq Evidences(R)
    BY <2>1, OneEvidence
  <2>3. W1 \subseteq Evidences(R)
    <3>1. W1 = {Evidence("GEX_TOTAL", 20)} \/ W1 = {}
      BY Zenon DEF When
    <3> HIDE DEF W1
    <3> QED
      BY <2>2, <3>1
  <2> HIDE DEF W1
  <2>4. S # {} /\ S \subseteq Evidences(R) /\ A \subseteq Evidences(R)
    BY <2>2, <2>3
  <2> HIDE DEF S, A
  <2>5. RestsOn(Conclude(Reaches(index, 25, 100),
                         Reaches(index, 40, 100), S, A), R)
    BY <2>4, ConcludeRests
  <2>6. GammaConcentrationShift(m) = Conclude(Reaches(index, 25, 100), Reaches(index, 40, 100), S, A)
    BY SMT DEF GammaConcentrationShift, S, A, B, W1
  <2> QED
    BY <2>5, <2>6, Zenon DEF R
<1>10. RestsOn(RegimeTransition(m), RequiresFeatures["REGIME_TRANSITION"])
  <2> DEFINE R == RequiresFeatures["REGIME_TRANSITION"]
             W1 == When(m["ATR"][1] = 0, "ATR", 25)
             S == {Evidence("REGIME", 40), Evidence("RANGE", 15)}
             A == W1
  <2>1. {"REGIME", "RANGE", "ATR"} \subseteq R
    BY DEF RequiresFeatures
  <2> HIDE DEF R
  <2>2. /\ {Evidence("REGIME", 40)} \subseteq Evidences(R)
        /\ {Evidence("RANGE", 15)} \subseteq Evidences(R)
        /\ {Evidence("ATR", 25)} \subseteq Evidences(R)
    BY <2>1, OneEvidence
  <2>3. W1 \subseteq Evidences(R)
    <3>1. W1 = {Evidence("ATR", 25)} \/ W1 = {}
      BY Zenon DEF When
    <3> HIDE DEF W1
    <3> QED
      BY <2>2, <3>1
  <2> HIDE DEF W1
  <2>4. S # {} /\ S \subseteq Evidences(R) /\ A \subseteq Evidences(R)
    BY <2>2, <2>3
  <2> HIDE DEF S, A
  <2>5. RestsOn(Conclude(m["REGIME"] = "TRANSITION",
                         TRUE, S, A), R)
    BY <2>4, ConcludeRests
  <2> QED
    BY <2>5 DEF RegimeTransition, S, A, R, W1
<1>11. RestsOn(VolatilityExpansion(m, realisedAbove), RequiresFeatures["VOLATILITY_EXPANSION"])
  <2> DEFINE R == RequiresFeatures["VOLATILITY_EXPANSION"]
             change == m["IV_CHANGE"]
             W1 == When(~realisedAbove, "IMPLIED_REALIZED_SPREAD", 15)
             S == {Evidence("IV_CHANGE", 40), Evidence("ATM_IV", 15)}
             A == W1
  <2>1. {"IV_CHANGE", "ATM_IV", "IMPLIED_REALIZED_SPREAD"} \subseteq R
    BY DEF RequiresFeatures
  <2> HIDE DEF R
  <2>2. /\ {Evidence("IV_CHANGE", 40)} \subseteq Evidences(R)
        /\ {Evidence("ATM_IV", 15)} \subseteq Evidences(R)
        /\ {Evidence("IMPLIED_REALIZED_SPREAD", 15)} \subseteq Evidences(R)
    BY <2>1, OneEvidence
  <2>3. W1 \subseteq Evidences(R)
    <3>1. W1 = {Evidence("IMPLIED_REALIZED_SPREAD", 15)} \/ W1 = {}
      BY Zenon DEF When
    <3> HIDE DEF W1
    <3> QED
      BY <2>2, <3>1
  <2> HIDE DEF W1
  <2>4. S # {} /\ S \subseteq Evidences(R) /\ A \subseteq Evidences(R)
    BY <2>2, <2>3
  <2> HIDE DEF S, A
  <2>5. RestsOn(Conclude(Reaches(change, 1, 1),
                         Reaches(change, 3, 1), S, A), R)
    BY <2>4, ConcludeRests
  <2> QED
    BY <2>5 DEF VolatilityExpansion, S, A, R, W1
<1>12. RestsOn(VolatilityContraction(m, realisedAbove), RequiresFeatures["VOLATILITY_CONTRACTION"])
  <2> DEFINE R == RequiresFeatures["VOLATILITY_CONTRACTION"]
             change == m["IV_CHANGE"]
             W1 == When(realisedAbove, "REALIZED_VOL_CLOSE_TO_CLOSE", 20)
             S == {Evidence("IV_CHANGE", 40)}
             A == W1
  <2>1. {"IV_CHANGE", "REALIZED_VOL_CLOSE_TO_CLOSE"} \subseteq R
    BY DEF RequiresFeatures
  <2> HIDE DEF R
  <2>2. /\ {Evidence("IV_CHANGE", 40)} \subseteq Evidences(R)
        /\ {Evidence("REALIZED_VOL_CLOSE_TO_CLOSE", 20)} \subseteq Evidences(R)
    BY <2>1, OneEvidence
  <2>3. W1 \subseteq Evidences(R)
    <3>1. W1 = {Evidence("REALIZED_VOL_CLOSE_TO_CLOSE", 20)} \/ W1 = {}
      BY Zenon DEF When
    <3> HIDE DEF W1
    <3> QED
      BY <2>2, <3>1
  <2> HIDE DEF W1
  <2>4. S # {} /\ S \subseteq Evidences(R) /\ A \subseteq Evidences(R)
    BY <2>2, <2>3
  <2> HIDE DEF S, A
  <2>5. RestsOn(Conclude(Falls(change, -1, 1),
                         Falls(change, -3, 1), S, A), R)
    BY <2>4, ConcludeRests
  <2> QED
    BY <2>5 DEF VolatilityContraction, S, A, R, W1
<1>13. RestsOn(SkewSteepening(m), RequiresFeatures["SKEW_STEEPENING"])
  <2> DEFINE R == RequiresFeatures["SKEW_STEEPENING"]
             W1 == When(m["IV_SKEW_STRIKE"] < 0, "IV_SKEW_STRIKE", 20)
             S == {Evidence("IV_SKEW_DELTA", 35)}
             A == W1
  <2>1. {"IV_SKEW_DELTA", "IV_SKEW_STRIKE"} \subseteq R
    BY DEF RequiresFeatures
  <2> HIDE DEF R
  <2>2. /\ {Evidence("IV_SKEW_DELTA", 35)} \subseteq Evidences(R)
        /\ {Evidence("IV_SKEW_STRIKE", 20)} \subseteq Evidences(R)
    BY <2>1, OneEvidence
  <2>3. W1 \subseteq Evidences(R)
    <3>1. W1 = {Evidence("IV_SKEW_STRIKE", 20)} \/ W1 = {}
      BY Zenon DEF When
    <3> HIDE DEF W1
    <3> QED
      BY <2>2, <3>1
  <2> HIDE DEF W1
  <2>4. S # {} /\ S \subseteq Evidences(R) /\ A \subseteq Evidences(R)
    BY <2>2, <2>3
  <2> HIDE DEF S, A
  <2>5. RestsOn(Conclude(m["IV_SKEW_DELTA"] >= 2,
                         m["IV_SKEW_DELTA"] >= 5, S, A), R)
    BY <2>4, ConcludeRests
  <2> QED
    BY <2>5 DEF SkewSteepening, S, A, R, W1
<1>14. RestsOn(TermStructureInversion(m), RequiresFeatures["TERM_STRUCTURE_INVERSION"])
  <2> DEFINE R == RequiresFeatures["TERM_STRUCTURE_INVERSION"]
             term == m["IV_TERM_STRUCTURE"]
             W1 == When(Below(m["ATM_IV"], 16, 1), "ATM_IV", 15)
             S == {Evidence("IV_TERM_STRUCTURE", 45)}
             A == W1
  <2>1. {"IV_TERM_STRUCTURE", "ATM_IV"} \subseteq R
    BY DEF RequiresFeatures
  <2> HIDE DEF R
  <2>2. /\ {Evidence("IV_TERM_STRUCTURE", 45)} \subseteq Evidences(R)
        /\ {Evidence("ATM_IV", 15)} \subseteq Evidences(R)
    BY <2>1, OneEvidence
  <2>3. W1 \subseteq Evidences(R)
    <3>1. W1 = {Evidence("ATM_IV", 15)} \/ W1 = {}
      BY Zenon DEF When
    <3> HIDE DEF W1
    <3> QED
      BY <2>2, <3>1
  <2> HIDE DEF W1
  <2>4. S # {} /\ S \subseteq Evidences(R) /\ A \subseteq Evidences(R)
    BY <2>2, <2>3
  <2> HIDE DEF S, A
  <2>5. RestsOn(Conclude(Falls(term, -1, 1),
                         Falls(term, -3, 1), S, A), R)
    BY <2>4, ConcludeRests
  <2> QED
    BY <2>5 DEF TermStructureInversion, S, A, R, W1
<1>15. RestsOn(FuturesOptionsDivergence(m), RequiresFeatures["FUTURES_OPTIONS_DIVERGENCE"])
  <2> DEFINE R == RequiresFeatures["FUTURES_OPTIONS_DIVERGENCE"]
             B == Below(Magnitude(m["SPOT_FUTURES_DIVERGENCE"]), 5, 10000)
             W1 == When(B, "SPOT_FUTURES_DIVERGENCE", 15)
             S == {Evidence("FUTURES_OPTIONS_CONFIRMATION", 40), Evidence("FUTURES_OI_CHANGE",
                   15), Evidence("OI_CHANGE", 15)}
             A == W1
  <2>1. {"FUTURES_OPTIONS_CONFIRMATION", "FUTURES_OI_CHANGE", "OI_CHANGE",
        "SPOT_FUTURES_DIVERGENCE"} \subseteq R
    BY DEF RequiresFeatures
  <2> HIDE DEF R, B
  <2>2. /\ {Evidence("FUTURES_OPTIONS_CONFIRMATION", 40)} \subseteq Evidences(R)
        /\ {Evidence("FUTURES_OI_CHANGE", 15)} \subseteq Evidences(R)
        /\ {Evidence("OI_CHANGE", 15)} \subseteq Evidences(R)
        /\ {Evidence("SPOT_FUTURES_DIVERGENCE", 15)} \subseteq Evidences(R)
    BY <2>1, OneEvidence
  <2>3. W1 \subseteq Evidences(R)
    <3>1. W1 = {Evidence("SPOT_FUTURES_DIVERGENCE", 15)} \/ W1 = {}
      BY Zenon DEF When
    <3> HIDE DEF W1
    <3> QED
      BY <2>2, <3>1
  <2> HIDE DEF W1
  <2>4. S # {} /\ S \subseteq Evidences(R) /\ A \subseteq Evidences(R)
    BY <2>2, <2>3
  <2> HIDE DEF S, A
  <2>5. RestsOn(Conclude(m["FUTURES_OPTIONS_CONFIRMATION"] = "DIVERGING",
                         TRUE, S, A), R)
    BY <2>4, ConcludeRests
  <2>6. FuturesOptionsDivergence(m) = Conclude(m["FUTURES_OPTIONS_CONFIRMATION"] = "DIVERGING", TRUE, S, A)
    BY SMT DEF FuturesOptionsDivergence, S, A, B, W1
  <2> QED
    BY <2>5, <2>6, Zenon DEF R
<1>16. RestsOn(BasisAnomaly(m), RequiresFeatures["BASIS_ANOMALY"])
  <2> DEFINE R == RequiresFeatures["BASIS_ANOMALY"]
             annualised == m["ANNUALIZED_BASIS"]
             W1 == When(AbsInt(m["BASIS_CHANGE"]) < 1, "BASIS_CHANGE", 20)
             S == {Evidence("ANNUALIZED_BASIS", 40), Evidence("BASIS", 15)}
             A == W1
  <2>1. {"ANNUALIZED_BASIS", "BASIS", "BASIS_CHANGE"} \subseteq R
    BY DEF RequiresFeatures
  <2> HIDE DEF R
  <2>2. /\ {Evidence("ANNUALIZED_BASIS", 40)} \subseteq Evidences(R)
        /\ {Evidence("BASIS", 15)} \subseteq Evidences(R)
        /\ {Evidence("BASIS_CHANGE", 20)} \subseteq Evidences(R)
    BY <2>1, OneEvidence
  <2>3. W1 \subseteq Evidences(R)
    <3>1. W1 = {Evidence("BASIS_CHANGE", 20)} \/ W1 = {}
      BY Zenon DEF When
    <3> HIDE DEF W1
    <3> QED
      BY <2>2, <3>1
  <2> HIDE DEF W1
  <2>4. S # {} /\ S \subseteq Evidences(R) /\ A \subseteq Evidences(R)
    BY <2>2, <2>3
  <2> HIDE DEF S, A
  <2>5. RestsOn(Conclude(Below(annualised, -2, 100) \/ Above(annualised, 12, 100),
                         Falls(annualised, -5, 100) \/ Reaches(annualised, 20, 100), S, A), R)
    BY <2>4, ConcludeRests
  <2> QED
    BY <2>5 DEF BasisAnomaly, S, A, R, W1
<1>50. rule \in {"PUT_SUPPORT_MIGRATION", "CALL_RESISTANCE_MIGRATION", "OI_EXPANSION",
      "OI_UNWINDING", "POSITIONING_SHIFT", "CONCENTRATION_BUILDING", "BREAKOUT_CONTEXT",
      "BREAKDOWN_CONTEXT", "GAMMA_CONCENTRATION_SHIFT", "REGIME_TRANSITION",
      "VOLATILITY_EXPANSION", "VOLATILITY_CONTRACTION", "SKEW_STEEPENING",
      "TERM_STRUCTURE_INVERSION", "FUTURES_OPTIONS_DIVERGENCE", "BASIS_ANOMALY"}
  BY DEF RuleTypes, RequiresFeatures
<1>51. CASE rule = "PUT_SUPPORT_MIGRATION"
  BY <1>1, <1>51 DEF Ask
<1>52. CASE rule = "CALL_RESISTANCE_MIGRATION"
  BY <1>2, <1>52 DEF Ask
<1>53. CASE rule = "OI_EXPANSION"
  BY <1>3, <1>53 DEF Ask
<1>54. CASE rule = "OI_UNWINDING"
  BY <1>4, <1>54 DEF Ask
<1>55. CASE rule = "POSITIONING_SHIFT"
  BY <1>5, <1>55 DEF Ask
<1>56. CASE rule = "CONCENTRATION_BUILDING"
  BY <1>6, <1>56 DEF Ask
<1>57. CASE rule = "BREAKOUT_CONTEXT"
  BY <1>7, <1>57 DEF Ask
<1>58. CASE rule = "BREAKDOWN_CONTEXT"
  BY <1>8, <1>58 DEF Ask
<1>59. CASE rule = "GAMMA_CONCENTRATION_SHIFT"
  BY <1>9, <1>59 DEF Ask
<1>60. CASE rule = "REGIME_TRANSITION"
  BY <1>10, <1>60 DEF Ask
<1>61. CASE rule = "VOLATILITY_EXPANSION"
  BY <1>11, <1>61 DEF Ask
<1>62. CASE rule = "VOLATILITY_CONTRACTION"
  BY <1>12, <1>62 DEF Ask
<1>63. CASE rule = "SKEW_STEEPENING"
  BY <1>13, <1>63 DEF Ask
<1>64. CASE rule = "TERM_STRUCTURE_INVERSION"
  BY <1>14, <1>64 DEF Ask
<1>65. CASE rule = "FUTURES_OPTIONS_DIVERGENCE"
  BY <1>15, <1>65 DEF Ask
<1>66. CASE rule = "BASIS_ANOMALY"
  BY <1>16, <1>66 DEF Ask
<1> QED
  BY <1>50, <1>51, <1>52, <1>53, <1>54, <1>55, <1>56, <1>57, <1>58, <1>59, <1>60, <1>61, <1>62,
     <1>63, <1>64, <1>65, <1>66
-----------------------------------------------------------------------------
LEMMA WeightsAre ==
    ASSUME NEW R, IsFiniteSet(R), NEW S \in SUBSET Evidences(R)
    PROVE  WeightOf(S) \in Nat /\ (WeightOf(S) = 0 <=> S = {})
<1> DEFINE w == [e \in S |-> e.weight]
<1>1. IsFiniteSet(S)
  BY EvidencesAreFinite, FS_Subset
<1>2. w \in [S -> Nat] /\ \A e \in S : w[e] >= 1
  BY DEF Evidences
<1>3. WeightOf(S) = TotalOf(w)
  BY DEF WeightOf
<1> HIDE DEF w
<1>4. TotalOf(w) \in Nat /\ \A e \in S : w[e] <= TotalOf(w)
  BY <1>1, <1>2, TotalOfNaturals
<1>5. S # {} => TotalOf(w) # 0
  BY <1>2, <1>4
<1>6. S = {} => TotalOf(w) = 0
  BY <1>2, TotalOfNothing
<1> QED
  BY <1>3, <1>4, <1>5, <1>6

LEMMA LargerOfTwo ==
    ASSUME NEW x \in Int
    PROVE  Max({0, x}) = IF x >= 0 THEN x ELSE 0
<1> DEFINE S == {0, x}
<1>1. S = {0} \cup {x} /\ S \in SUBSET Int /\ S # {} /\ 0 \in S /\ x \in S
  OBVIOUS
<1>2. IsFiniteSet(S)
  <2>1. IsFiniteSet({0}) /\ IsFiniteSet({x})
    BY FS_Singleton
  <2> QED
    BY <1>1, <2>1, FS_Union
<1>3. \A y \in S : y = 0 \/ y = x
  OBVIOUS
<1> HIDE DEF S
<1>4. Max(S) \in S /\ \A y \in S : y <= Max(S)
  BY <1>1, <1>2, MaxOfNumbers
<1> QED
  BY <1>1, <1>3, <1>4 DEF S

(* A part of a whole is a fraction between 0 and 1, and 1 when it is all.  *)
LEMMA PartOfWhole ==
    ASSUME NEW n \in Nat, NEW t \in Nat, t # 0, n <= t
    PROVE  Within(Ratio(n, t), Whole(0), Whole(1)) /\ (Ratio(n, t) = Whole(1) <=> n = t)
<1> DEFINE v == Ratio(n, t)
<1>1. v \in LowestTerms /\ v[1] * t = n * v[2]
  BY RatioIs
<1> HIDE DEF v
<1>2. v[1] \in Int /\ v[2] \in Nat /\ v[2] > 0
  BY <1>1 DEF LowestTerms, FractionSet
<1>3. 0 <= v[1]
  <2>1. n * v[2] >= 0
    BY <1>2
  <2>2. ASSUME v[1] < 0 PROVE v[1] * t < 0
    BY <1>2, <2>2
  <2> QED
    BY <1>1, <1>2, <2>1, <2>2
<1>4. v[1] <= v[2]
  <2>1. n * v[2] <= t * v[2]
    BY <1>2
  <2>2. ASSUME v[1] > v[2] PROVE v[1] * t > v[2] * t
    BY <1>2, <2>2
  <2> QED
    BY <1>1, <1>2, <2>1, <2>2
<1>5. Within(v, Whole(0), Whole(1))
  BY <1>2, <1>3, <1>4 DEF Within, AtMost, Whole
<1>6. v = Whole(1) => n = t
  BY <1>1 DEF Whole
<1>7. n = t => v = Whole(1)
  <2> SUFFICES ASSUME n = t PROVE v = Whole(1)
    OBVIOUS
  <2>1. Whole(1) \in LowestTerms /\ Whole(1)[1] = 1 /\ Whole(1)[2] = 1
    <3>1. 1 \in Int
      OBVIOUS
    <3> QED
      BY <3>1, ValueOfWhole DEF Whole
  <2>2. v[1] * t = v[2] * t
    BY <1>1, <1>2
  <2>3. v[1] = v[2]
    BY <1>2, <2>2
  <2>4. v[1] * Whole(1)[2] = Whole(1)[1] * v[2]
    BY <1>2, <2>1, <2>3
  <2> QED
    BY <1>1, <2>1, <2>4, LowestIsUnique
<1> QED
  BY <1>5, <1>6, <1>7 DEF v

LEMMA StrengthIs ==
    ASSUME NEW R, IsFiniteSet(R), NEW outcome, RestsOn(outcome, R), outcome.fired
    PROVE  /\ Within(Strength(outcome), Whole(0), Whole(1))
           /\ Strength(outcome) = Whole(1) <=> outcome.against = {}
<1> DEFINE s == WeightOf(outcome.support)
           a == WeightOf(outcome.against)
<1>1. outcome.support \in SUBSET Evidences(R) /\ outcome.support # {} /\ outcome.against \in SUBSET Evidences(R)
  BY DEF RestsOn
<1>2. s \in Nat /\ s # 0 /\ a \in Nat /\ (a = 0 <=> outcome.against = {})
  BY <1>1, WeightsAre
<1>3. Strength(outcome) = IF s + a = 0 THEN Whole(0) ELSE Ratio(Max({0, s - a}), s + a)
  BY Zenon DEF Strength
<1> HIDE DEF s, a
<1> DEFINE n == Max({0, s - a})
<1>4. n = IF s - a >= 0 THEN s - a ELSE 0
  BY <1>2, LargerOfTwo
<1>5. Strength(outcome) = Ratio(n, s + a)
  BY <1>2, <1>3
<1> HIDE DEF n
<1>6. n \in Nat /\ s + a \in Nat /\ s + a # 0 /\ n <= s + a /\ (n = s + a <=> a = 0)
  BY <1>2, <1>4
<1> QED
  BY <1>2, <1>5, <1>6, PartOfWhole
-----------------------------------------------------------------------------
LEMMA OiSumIs ==
    ASSUME NEW L \in SUBSET OptionLegs, IsFiniteSet(L)
    PROVE  OiSum(L) \in Nat
<1> DEFINE q == [l \in WithOi(L) |-> l.oi]
<1>1. IsFiniteSet(WithOi(L))
  BY FS_Subset DEF WithOi
<1>2. q \in [WithOi(L) -> Nat]
  BY DEF WithOi, OptionLegs, Maybe, Seen
<1> HIDE DEF q
<1>3. TotalOf(q) \in Nat
  BY <1>1, <1>2, TotalOfNaturals
<1> QED
  BY <1>3 DEF OiSum, q

LEMMA SliceIs ==
    ASSUME NEW s \in MarketStates, NEW expiry
    PROVE  Slice(s, expiry) \in SUBSET OptionLegs /\ IsFiniteSet(Slice(s, expiry))
<1>1. s.legs \in SUBSET OptionLegs /\ IsFiniteSet(s.legs)
  BY DEF MarketStates, Readings
<1> QED
  BY <1>1, FS_Subset DEF Slice

LEMMA AtmIvIs ==
    ASSUME NEW s \in MarketStates, NEW expiry, Seen(AtmIvOf(s, expiry))
    PROVE  AtmIvOf(s, expiry) \in LowestTerms /\ AtmIvOf(s, expiry) \in FractionSet
<1> DEFINE L == Slice(s, expiry)
           atm == {l \in L : l.strike = AtmStrike(L, s.spot) /\ Seen(l.iv)}
           q == [l \in atm |-> l.iv]
<1>1. L \in SUBSET OptionLegs /\ IsFiniteSet(L)
  BY SliceIs
<1> HIDE DEF L
<1>2. atm # {} /\ AtmIvOf(s, expiry) = Ratio(TotalOf(q), Cardinality(atm))
  BY DEF AtmIvOf, L, Seen
<1>3. IsFiniteSet(atm)
  BY <1>1, FS_Subset
<1>4. q \in [atm -> Int]
  BY <1>1 DEF OptionLegs, Maybe, Seen
<1> HIDE DEF atm, q
<1>5. TotalOf(q) \in Int
  BY <1>3, <1>4, TotalOfIntegers
<1>6. Cardinality(atm) \in Int /\ Cardinality(atm) # 0
  BY <1>2, <1>3, FS_CardinalityType, FS_EmptySet
<1> QED
  BY <1>2, <1>5, <1>6, RatioIs, RatioIsFraction
-----------------------------------------------------------------------------
(* The state a window refers to is one of the history.                     *)
LEMMA ReferenceStands ==
    ASSUME NEW c, c.history \in Seq(MarketStates), c.history # <<>>, NEW lookback
    PROVE  \E n \in DOMAIN c.history : ReferenceState(c, lookback) = c.history[n]
<1> DEFINE h == c.history
           before == {n \in DOMAIN h : h[n].time <= c.state.time - lookback}
<1>1. h \in Seq(MarketStates) /\ h # <<>>
  OBVIOUS
<1>2. ReferenceState(c, lookback) = IF before = {} THEN Head(h) ELSE h[Max(before)]
  BY DEF ReferenceState
<1>3. DOMAIN h = 1 .. Len(h) /\ Len(h) \in Nat
  BY <1>1
<1>4. before \subseteq 1 .. Len(h)
  BY <1>3
<1> HIDE DEF h, before
<1>5. CASE before = {}
  <2>1. Head(h) = h[1] /\ 1 \in 1 .. Len(h)
    BY <1>1, <1>3
  <2> QED
    BY <1>2, <1>3, <1>5, <2>1 DEF h
<1>6. CASE before # {}
  <2>1. IsFiniteSet(1 .. Len(h))
    BY <1>3, FS_Interval
  <2>2. IsFiniteSet(before)
    BY <1>4, <2>1, FS_Subset
  <2>3. before \in SUBSET Int
    BY <1>4
  <2>4. Max(before) \in 1 .. Len(h)
    BY <1>4, <1>6, <2>2, <2>3, MaxOfNumbers
  <2> QED
    BY <1>2, <1>3, <1>6, <2>4 DEF h
<1> QED
  BY <1>5, <1>6

LEMMA ReferenceIs ==
    ASSUME NEW c, c.history \in Seq(MarketStates), c.history # <<>>, NEW lookback
    PROVE  ReferenceState(c, lookback) \in MarketStates
<1>1. PICK n \in DOMAIN c.history : ReferenceState(c, lookback) = c.history[n]
  BY ReferenceStands
<1> QED
  BY <1>1

LEMMA OiChangePctIs ==
    ASSUME NEW c, c.state \in MarketStates, c.history \in Seq(MarketStates), c.history # <<>>,
           IsValue(OiChangePct(c))
    PROVE  OiChangePct(c).value \in FractionSet
<1> DEFINE L == Now(c)
           M == Then(c, 1)
           current == TotalOi(L)
           before == TotalOi(M)
<1>1. L \in SUBSET OptionLegs /\ IsFiniteSet(L) /\ M \in SUBSET OptionLegs /\ IsFiniteSet(M)
  BY SliceIs, ReferenceIs DEF Now, Then
<1>2. OiSum(L) \in Nat /\ OiSum(M) \in Nat
  BY <1>1, OiSumIs
<1> DEFINE change == OiChange(c)
<1>3. change = Given(Seen(current) /\ Seen(before), "MISSING_INPUT", Value(current - before))
  BY DEF OiChange
<1>4. /\ IsValue(change) /\ Seen(SafeRatio(change.value, before))
      /\ OiChangePct(c).value = SafeRatio(change.value, before)
  BY DEF OiChangePct, Given, Defined, Unavailable, Value, IsValue
<1> HIDE DEF L, M, current, before, change
<1>5. Seen(current) /\ Seen(before) /\ change = Value(current - before)
  BY <1>3, <1>4 DEF Given, Unavailable, IsValue
<1>6. current = OiSum(L) /\ before = OiSum(M)
  BY <1>5 DEF TotalOi, Seen, current, before
<1>7. change.value = current - before
  BY <1>5 DEF Value
<1>8. change.value \in Int /\ before \in Int
  BY <1>2, <1>6, <1>7
<1>9. before # 0 /\ SafeRatio(change.value, before) = Ratio(change.value, before)
  BY <1>4 DEF SafeRatio, Seen
<1> QED
  BY <1>4, <1>8, <1>9, RatioIsFraction

LEMMA IvChangeIs ==
    ASSUME NEW c, c.state \in MarketStates, c.history \in Seq(MarketStates), c.history # <<>>,
           IsValue(IvChange(c))
    PROVE  IvChange(c).value \in FractionSet
<1> DEFINE current == AtmIvOf(c.state, c.params.expiry)
           before == AtmIvOf(ReferenceState(c, 1), c.params.expiry)
<1>1. Seen(current) /\ Seen(before) /\ IvChange(c).value = Minus(current, before)
  BY DEF IvChange, Given, Unavailable, Value, IsValue
<1>2. current \in FractionSet /\ before \in FractionSet
  BY <1>1, AtmIvIs, ReferenceIs
<1> QED
  BY <1>1, <1>2, FractionArithmetic

LEMMA ChangesAreFractions ==
    ASSUME FeatureInv, NEW f \in {"OI_CHANGE_PCT", "IV_CHANGE"}, Known(f)
    PROVE  Of(f) \in FractionSet
<1> DEFINE c == Ctx(f)
<1>1. c.state \in MarketStates /\ c.history \in Seq(MarketStates)
  BY KnownMeans DEF FeatureInv, Ctx, ContextOf
<1>2. IsValue(Compute(f, c)) /\ Of(f) = Compute(f, c).value
  BY KnownMeans
<1> HIDE DEF c
<1>3. Covers(c, Lookback(f)) /\ Compute(f, c) = Formula(f, c)
  BY <1>2, ComputedMeans
<1>4. Lookback(f) = 1
  BY DEF Lookback, OiWindows, OiOverWindow
<1>5. c.history # <<>>
  BY <1>3, <1>4 DEF Covers
<1>6. CASE f = "OI_CHANGE_PCT"
  <2>1. Formula(f, c) = OiChangePct(c)
    BY <1>6 DEF Formula
  <2> QED
    BY <1>1, <1>2, <1>3, <1>5, <2>1, OiChangePctIs
<1>7. CASE f = "IV_CHANGE"
  <2>1. Formula(f, c) = IvChange(c)
    BY <1>7 DEF Formula
  <2> QED
    BY <1>1, <1>2, <1>3, <1>5, <2>1, IvChangeIs
<1> QED
  BY <1>6, <1>7
-----------------------------------------------------------------------------
Pinned(rule) == [f \in RequiresFeatures[rule] |-> Of(f)]

LEMMA FiringMeans ==
    ASSUME NEW rule, NEW K, NEW realisedAbove, Verdict(rule, K, realisedAbove).fired
    PROVE  /\ RequiresFeatures[rule] \subseteq AvailableOnly(K)
           /\ Verdict(rule, K, realisedAbove) = Ask(rule, Pinned(rule), realisedAbove)
<1>1. ~NoSignal.fired
  BY DEF NoSignal
<1>2. Verdict(rule, K, realisedAbove) # NoSignal
  BY <1>1
<1>3. ~report.state.unreliable /\ RequiresFeatures[rule] \subseteq AvailableOnly(K)
  BY <1>2, Zenon DEF Verdict
<1>4. Verdict(rule, K, realisedAbove) = Ask(rule, Pinned(rule), realisedAbove)
  BY <1>3, Zenon DEF Verdict, Pinned
<1> QED
  BY <1>3, <1>4

LEMMA MovesMustBeLarge ==
    ASSUME NEW m, NEW realisedAbove
    PROVE  /\ OiExpansion(m).fired => Reaches(m["OI_CHANGE_PCT"], 2, 100)
           /\ OiUnwinding(m).fired => Falls(m["OI_CHANGE_PCT"], -2, 100)
           /\ VolatilityExpansion(m, realisedAbove).fired => Reaches(m["IV_CHANGE"], 1, 1)
           /\ VolatilityContraction(m, realisedAbove).fired => Falls(m["IV_CHANGE"], -1, 1)
<1>1. ~NoSignal.fired
  BY DEF NoSignal
<1>2. ~Reaches(m["OI_CHANGE_PCT"], 2, 100) => OiExpansion(m) = NoSignal
  BY Zenon DEF OiExpansion, Conclude
<1>3. ~Falls(m["OI_CHANGE_PCT"], -2, 100) => OiUnwinding(m) = NoSignal
  BY Zenon DEF OiUnwinding, Conclude
<1>4. ~Reaches(m["IV_CHANGE"], 1, 1) => VolatilityExpansion(m, realisedAbove) = NoSignal
  BY Zenon DEF VolatilityExpansion, Conclude
<1>5. ~Falls(m["IV_CHANGE"], -1, 1) => VolatilityContraction(m, realisedAbove) = NoSignal
  BY Zenon DEF VolatilityContraction, Conclude
<1> QED
  BY <1>1, <1>2, <1>3, <1>4, <1>5

LEMMA RegimesTell ==
    ASSUME NEW m
    PROVE  /\ BreakoutContext(m).fired => m["REGIME"] \in {"BREAKOUT", "TRENDING_UP"}
           /\ BreakdownContext(m).fired => m["REGIME"] \in {"BREAKDOWN", "TRENDING_DOWN"}
           /\ RegimeTransition(m).fired => m["REGIME"] = "TRANSITION"
<1>1. ~NoSignal.fired
  BY DEF NoSignal
<1>2. m["REGIME"] \notin {"BREAKOUT", "TRENDING_UP"} => BreakoutContext(m) = NoSignal
  BY Zenon DEF BreakoutContext, Conclude
<1>3. m["REGIME"] \notin {"BREAKDOWN", "TRENDING_DOWN"} => BreakdownContext(m) = NoSignal
  BY Zenon DEF BreakdownContext, Conclude
<1>4. m["REGIME"] # "TRANSITION" => RegimeTransition(m) = NoSignal
  BY Zenon DEF RegimeTransition, Conclude
<1> QED
  BY <1>1, <1>2, <1>3, <1>4

LEMMA NotBothWays ==
    ASSUME NEW v \in FractionSet
    PROVE  ~(Reaches(v, 2, 100) /\ Falls(v, -2, 100)) /\ ~(Reaches(v, 1, 1) /\ Falls(v, -1, 1))
BY DEF Reaches, Falls, AtMost, FractionSet

LEMMA ContrariesExclude ==
    ASSUME FeatureInv, NEW K, NEW realisedAbove, NEW pair \in Contrary
    PROVE  \E rule \in pair : ~Verdict(rule, K, realisedAbove).fired
<1> DEFINE Fires(rule) == Verdict(rule, K, realisedAbove).fired
<1>1. ASSUME NEW rule, NEW f \in RequiresFeatures[rule], Fires(rule)
      PROVE  Known(f) /\ Pinned(rule)[f] = Of(f)
  BY <1>1, FiringMeans DEF AvailableOnly, Pinned
<1>2. /\ Fires("OI_EXPANSION") => Known("OI_CHANGE_PCT") /\ Reaches(Of("OI_CHANGE_PCT"), 2, 100)
      /\ Fires("OI_UNWINDING") => Falls(Of("OI_CHANGE_PCT"), -2, 100)
  <2>1. "OI_CHANGE_PCT" \in RequiresFeatures["OI_EXPANSION"] /\ "OI_CHANGE_PCT" \in RequiresFeatures["OI_UNWINDING"]
    BY DEF RequiresFeatures
  <2>2. /\ Ask("OI_EXPANSION", Pinned("OI_EXPANSION"), realisedAbove) = OiExpansion(Pinned("OI_EXPANSION"))
        /\ Ask("OI_UNWINDING", Pinned("OI_UNWINDING"), realisedAbove) = OiUnwinding(Pinned("OI_UNWINDING"))
    BY DEF Ask
  <2>3. ASSUME Fires("OI_EXPANSION") PROVE Known("OI_CHANGE_PCT") /\ Reaches(Of("OI_CHANGE_PCT"), 2, 100)
    <3>1. OiExpansion(Pinned("OI_EXPANSION")).fired
      BY <2>2, <2>3, FiringMeans
    <3>2. Reaches(Pinned("OI_EXPANSION")["OI_CHANGE_PCT"], 2, 100)
      BY <3>1, MovesMustBeLarge
    <3> QED
      BY <1>1, <2>1, <2>3, <3>2
  <2>4. ASSUME Fires("OI_UNWINDING") PROVE Falls(Of("OI_CHANGE_PCT"), -2, 100)
    <3>1. OiUnwinding(Pinned("OI_UNWINDING")).fired
      BY <2>2, <2>4, FiringMeans
    <3>2. Falls(Pinned("OI_UNWINDING")["OI_CHANGE_PCT"], -2, 100)
      BY <3>1, MovesMustBeLarge
    <3> QED
      BY <1>1, <2>1, <2>4, <3>2
  <2> QED
    BY <2>3, <2>4
<1>3. /\ Fires("VOLATILITY_EXPANSION") => Known("IV_CHANGE") /\ Reaches(Of("IV_CHANGE"), 1, 1)
      /\ Fires("VOLATILITY_CONTRACTION") => Falls(Of("IV_CHANGE"), -1, 1)
  <2>1. "IV_CHANGE" \in RequiresFeatures["VOLATILITY_EXPANSION"] /\ "IV_CHANGE" \in RequiresFeatures["VOLATILITY_CONTRACTION"]
    BY DEF RequiresFeatures
  <2>2. /\ Ask("VOLATILITY_EXPANSION", Pinned("VOLATILITY_EXPANSION"), realisedAbove)
             = VolatilityExpansion(Pinned("VOLATILITY_EXPANSION"), realisedAbove)
        /\ Ask("VOLATILITY_CONTRACTION", Pinned("VOLATILITY_CONTRACTION"), realisedAbove)
             = VolatilityContraction(Pinned("VOLATILITY_CONTRACTION"), realisedAbove)
    BY DEF Ask
  <2> QED
    BY <1>1, <2>1, <2>2, FiringMeans, MovesMustBeLarge
<1>4. /\ Fires("BREAKOUT_CONTEXT") => Of("REGIME") \in {"BREAKOUT", "TRENDING_UP"}
      /\ Fires("BREAKDOWN_CONTEXT") => Of("REGIME") \in {"BREAKDOWN", "TRENDING_DOWN"}
      /\ Fires("REGIME_TRANSITION") => Of("REGIME") = "TRANSITION"
  <2>1. /\ "REGIME" \in RequiresFeatures["BREAKOUT_CONTEXT"] /\ "REGIME" \in RequiresFeatures["BREAKDOWN_CONTEXT"]
        /\ "REGIME" \in RequiresFeatures["REGIME_TRANSITION"]
    BY DEF RequiresFeatures
  <2>2. /\ Ask("BREAKOUT_CONTEXT", Pinned("BREAKOUT_CONTEXT"), realisedAbove)
             = BreakoutContext(Pinned("BREAKOUT_CONTEXT"))
        /\ Ask("BREAKDOWN_CONTEXT", Pinned("BREAKDOWN_CONTEXT"), realisedAbove)
             = BreakdownContext(Pinned("BREAKDOWN_CONTEXT"))
        /\ Ask("REGIME_TRANSITION", Pinned("REGIME_TRANSITION"), realisedAbove)
             = RegimeTransition(Pinned("REGIME_TRANSITION"))
    BY DEF Ask
  <2> QED
    BY <1>1, <2>1, <2>2, FiringMeans, RegimesTell
<1>5. ~(Fires("OI_EXPANSION") /\ Fires("OI_UNWINDING"))
  BY <1>2, ChangesAreFractions, NotBothWays
<1>6. ~(Fires("VOLATILITY_EXPANSION") /\ Fires("VOLATILITY_CONTRACTION"))
  BY <1>3, ChangesAreFractions, NotBothWays
<1> HIDE DEF Fires
<1>7. /\ ~(Fires("BREAKOUT_CONTEXT") /\ Fires("BREAKDOWN_CONTEXT"))
      /\ ~(Fires("BREAKOUT_CONTEXT") /\ Fires("REGIME_TRANSITION"))
      /\ ~(Fires("BREAKDOWN_CONTEXT") /\ Fires("REGIME_TRANSITION"))
  BY <1>4
<1>8. \E rule \in pair : ~Fires(rule)
  BY <1>5, <1>6, <1>7 DEF Contrary
<1> QED
  BY <1>8 DEF Fires
-----------------------------------------------------------------------------
LEMMA LaterHasMore ==
    ASSUME FeatureInv, NEW K \in Nat
    PROVE  AvailableOnly(K) \subseteq AvailableOnly(K + 1)
<1>1. \A f : Known(f) => report.results[f].available \in Nat
  BY KnownIsAvailable
<1> QED
  BY <1>1 DEF AvailableOnly

LEMMA SameLater ==
    ASSUME FeatureInv, NEW K \in Nat, NEW rule, NEW realisedAbove, Verdict(rule, K, realisedAbove).fired
    PROVE  Verdict(rule, K + 1, realisedAbove) = Verdict(rule, K, realisedAbove)
<1>1. ~NoSignal.fired
  BY DEF NoSignal
<1>2. Verdict(rule, K, realisedAbove) # NoSignal
  BY <1>1
<1>3. ~report.state.unreliable /\ RequiresFeatures[rule] \subseteq AvailableOnly(K)
  BY <1>2, Zenon DEF Verdict
<1>4. RequiresFeatures[rule] \subseteq AvailableOnly(K + 1)
  BY <1>3, LaterHasMore
<1> QED
  BY <1>3, <1>4, Zenon DEF Verdict

LEMMA SignalComesAfter ==
    ASSUME FeatureInv, NEW K \in Nat, NEW rule \in RuleTypes, RequiresFeatures[rule] \subseteq AvailableOnly(K)
    PROVE  \A f \in RequiresFeatures[rule] : report.results[f].available <= SignalAvailableAt(rule, K)
<1> DEFINE q == [f \in RequiresFeatures[rule] |-> report.results[f].available]
           ready == {q[f] : f \in DOMAIN q}
           X == {report.state.time, K} \cup ready
<1>1. \A f \in RequiresFeatures[rule] : Known(f)
  BY DEF AvailableOnly
<1>2. \A f \in RequiresFeatures[rule] : report.results[f].available \in Nat
  BY <1>1, KnownIsAvailable
<1>3. ready \subseteq Nat
  BY <1>2
<1>4. ready = {report.results[f].available : f \in RequiresFeatures[rule]}
  OBVIOUS
<1>5. IsFiniteSet(ready)
  <2>1. IsFiniteSet(DOMAIN q)
    BY RequiresFew
  <2> HIDE DEF q
  <2> QED
    BY <2>1, RangeIsFinite
<1>6. SignalAvailableAt(rule, K) = Max(X) + Delay
  BY <1>4 DEF SignalAvailableAt
<1> HIDE DEF ready
<1>7. ASSUME NEW f \in RequiresFeatures[rule]
      PROVE  report.results[f].available <= SignalAvailableAt(rule, K)
  <2>1. report.state.time \in Nat
    <3>1. report # NoReport
      BY <1>1, KnownMeans
    <3>2. report.state \in MarketStates
      BY <3>1 DEF FeatureInv
    <3> QED
      BY <3>2 DEF MarketStates, Readings
  <2>2. X = {report.state.time} \cup {K} \cup ready /\ X # {} /\ X \in SUBSET Int
    <3>1. X = {report.state.time} \cup {K} \cup ready /\ X # {}
      OBVIOUS
    <3>2. \A y \in X : y = report.state.time \/ y = K \/ y \in ready
      OBVIOUS
    <3> HIDE DEF X
    <3>4. ASSUME NEW y \in X PROVE y \in Int
      <4>1. CASE y = report.state.time
        BY <2>1, <4>1
      <4>2. CASE y = K
        BY <4>2
      <4>3. CASE y \in ready
        <5>1. y \in Nat
          BY <1>3, <4>3
        <5> QED
          BY <5>1
      <4> QED
        BY <3>2, <4>1, <4>2, <4>3
    <3>3. X \in SUBSET Int
      BY <3>4
    <3> QED
      BY <3>1, <3>3
  <2>3. IsFiniteSet(X)
    <3>1. IsFiniteSet({report.state.time}) /\ IsFiniteSet({K})
      BY FS_Singleton
    <3>2. IsFiniteSet({report.state.time} \cup {K})
      BY <3>1, FS_Union
    <3> QED
      BY <1>5, <2>2, <3>2, FS_Union
  <2>4. report.results[f].available \in X
    BY <1>4, <1>7
  <2> HIDE DEF X
  <2>5. report.results[f].available <= Max(X) /\ Max(X) \in Int
    BY <2>2, <2>3, <2>4, MaxOfNumbers
  <2>6. Delay \in Nat
    BY FeatureAssumption
  <2> QED
    BY <1>2, <1>6, <1>7, <2>5, <2>6
<1> QED
  BY <1>7
-----------------------------------------------------------------------------
(* All that SignalsAreCoherent says of one rule that fires.                *)
LEMMA FiringIsCoherent ==
    ASSUME FeatureInv, NEW K \in Nat, NEW rule \in RuleTypes, NEW realisedAbove,
           NEW outcome, outcome = Verdict(rule, K, realisedAbove), outcome.fired
    PROVE  /\ {e.metric : e \in outcome.support \cup outcome.against}
                 \subseteq AvailableOnly(K) \cap RequiresFeatures[rule]
           /\ Within(Strength(outcome), Whole(0), Whole(1))
           /\ Strength(outcome) = Whole(1) <=> outcome.against = {}
           /\ Verdict(rule, K + 1, realisedAbove) = outcome
           /\ \A e \in outcome.support : report.results[e.metric].available <= SignalAvailableAt(rule, K)
<1> DEFINE R == RequiresFeatures[rule]
<1>1. R \subseteq AvailableOnly(K) /\ outcome = Ask(rule, Pinned(rule), realisedAbove)
  BY FiringMeans
<1>2. RestsOn(outcome, R)
  BY <1>1, RulesRest
<1>3. IsFiniteSet(R)
  BY RequiresFew
<1>4. Verdict(rule, K + 1, realisedAbove) = outcome
  BY SameLater
<1>5. \A f \in R : report.results[f].available <= SignalAvailableAt(rule, K)
  BY <1>1, SignalComesAfter
<1> HIDE DEF R
<1>6. \A e \in outcome.support \cup outcome.against : e.metric \in R
  BY <1>2 DEF RestsOn, Evidences
<1>7. Within(Strength(outcome), Whole(0), Whole(1)) /\ (Strength(outcome) = Whole(1) <=> outcome.against = {})
  BY <1>2, <1>3, StrengthIs
<1>8. {e.metric : e \in outcome.support \cup outcome.against} \subseteq AvailableOnly(K) \cap R
  BY <1>1, <1>6
<1>9. \A e \in outcome.support : report.results[e.metric].available <= SignalAvailableAt(rule, K)
  BY <1>5, <1>6
<1> QED
  BY <1>4, <1>7, <1>8, <1>9 DEF R

LEMMA CoherentNow == FeatureInv => SignalsAreCoherent
<1> SUFFICES ASSUME FeatureInv, report # NoReport, NEW realisedAbove \in BOOLEAN,
                    NEW K \in report.at .. report.at + 3
             PROVE  \E verdict \in {[rule \in RuleTypes |-> Verdict(rule, K, realisedAbove)]} :
                        /\ \A pair \in Contrary : \E rule \in pair : ~verdict[rule].fired
                        /\ \A rule \in RuleTypes : verdict[rule].fired =>
                              /\ {e.metric : e \in verdict[rule].support \cup verdict[rule].against}
                                    \subseteq AvailableOnly(K) \cap RequiresFeatures[rule]
                              /\ Within(Strength(verdict[rule]), Whole(0), Whole(1))
                              /\ Strength(verdict[rule]) = Whole(1) <=> verdict[rule].against = {}
                              /\ Verdict(rule, K + 1, realisedAbove) = verdict[rule]
                              /\ \A e \in verdict[rule].support :
                                    report.results[e.metric].available <= SignalAvailableAt(rule, K)
  BY Zenon DEF SignalsAreCoherent
<1>1. K \in Nat
  BY DEF FeatureInv
<1> DEFINE verdict == [rule \in RuleTypes |-> Verdict(rule, K, realisedAbove)]
<1>2. \A rule \in RuleTypes : verdict[rule] = Verdict(rule, K, realisedAbove)
  OBVIOUS
<1>3. \A pair \in Contrary : pair \subseteq RuleTypes
  BY DEF Contrary, RuleTypes, RequiresFeatures
<1> HIDE DEF verdict
<1>4. \A pair \in Contrary : \E rule \in pair : ~verdict[rule].fired
  <2> SUFFICES ASSUME NEW pair \in Contrary PROVE \E rule \in pair : ~verdict[rule].fired
    OBVIOUS
  <2>1. PICK rule \in pair : ~Verdict(rule, K, realisedAbove).fired
    BY ContrariesExclude
  <2> QED
    BY <1>2, <1>3, <2>1
<1>5. \A rule \in RuleTypes : verdict[rule].fired =>
         /\ {e.metric : e \in verdict[rule].support \cup verdict[rule].against}
               \subseteq AvailableOnly(K) \cap RequiresFeatures[rule]
         /\ Within(Strength(verdict[rule]), Whole(0), Whole(1))
         /\ Strength(verdict[rule]) = Whole(1) <=> verdict[rule].against = {}
         /\ Verdict(rule, K + 1, realisedAbove) = verdict[rule]
         /\ \A e \in verdict[rule].support : report.results[e.metric].available <= SignalAvailableAt(rule, K)
  BY <1>1, <1>2, FiringIsCoherent
<1> QED
  BY <1>4, <1>5 DEF verdict

(* For any states, delay and parameters: of one execution no two rules     *)
(* that say the contrary fire, and what fires rests on metrics that its    *)
(* rule pinned and that were there by the horizon, has a strength between  *)
(* 0 and 1 that is 1 only uncontradicted, is the same when asked later,    *)
(* and is available to no one before what it rests on.                     *)
THEOREM SignalsCohere == FeatureSpec => []SignalsAreCoherent
BY FeaturesKeep, CoherentNow, PTL
-----------------------------------------------------------------------------
(* What a feature that is known was computed from.                         *)
LEMMA KnownFormula ==
    ASSUME FeatureInv, NEW f, Known(f)
    PROVE  LET c == Ctx(f)
           IN  /\ report # NoReport /\ f \in FeatureIds
               /\ c.state = report.state /\ c.history = report.history /\ c.params = report.params
               /\ c.state \in MarketStates /\ c.history \in Seq(MarketStates) /\ c.params \in ParameterSets
               /\ f \in NeedsExpiry \cup {"FUTURES_OPTIONS_CONFIRMATION"} => Seen(report.params.expiry)
               /\ f \in NeedsSlice => report.params.expiry \in report.state.expiries
               /\ Covers(c, Lookback(f))
               /\ IsValue(Formula(f, c)) /\ Of(f) = Formula(f, c).value
               /\ \A r \in Requirements(f) : Meets(r, report.state)
<1> DEFINE c == Ctx(f)
<1>1. /\ report # NoReport /\ f \in FeatureIds
      /\ IsValue(Compute(f, c)) /\ Of(f) = Compute(f, c).value
      /\ \A r \in Requirements(f) : Meets(r, report.state)
  BY KnownMeans
<1>2. c.state = report.state /\ c.history = report.history /\ c.params = report.params
  BY DEF Ctx, ContextOf
<1>3. c.state \in MarketStates /\ c.history \in Seq(MarketStates) /\ c.params \in ParameterSets
  BY <1>1, <1>2 DEF FeatureInv
<1> HIDE DEF c
<1>4. /\ f \in NeedsExpiry \cup {"FUTURES_OPTIONS_CONFIRMATION"} => Seen(c.params.expiry)
      /\ f \in NeedsSlice => c.params.expiry \in c.state.expiries
      /\ Covers(c, Lookback(f))
      /\ Compute(f, c) = Formula(f, c) /\ IsValue(Formula(f, c))
  BY <1>1, ComputedMeans
<1>5. /\ f \in NeedsExpiry \cup {"FUTURES_OPTIONS_CONFIRMATION"} => Seen(report.params.expiry)
      /\ f \in NeedsSlice => report.params.expiry \in report.state.expiries
      /\ Of(f) = Formula(f, c).value
  BY <1>1, <1>2, <1>4
<1> QED
  BY <1>1, <1>2, <1>3, <1>4, <1>5 DEF c

(* The reference state is from before the window, where history covers it. *)
LEMMA ReferenceIsBefore ==
    ASSUME NEW c, c.history \in Seq(MarketStates), NEW lookback, lookback # 0, Covers(c, lookback)
    PROVE  ReferenceState(c, lookback).time <= c.state.time - lookback
<1> DEFINE h == c.history
           before == {n \in DOMAIN h : h[n].time <= c.state.time - lookback}
<1>1. h # <<>> /\ Head(h).time <= c.state.time - lookback
  BY DEF Covers
<1>2. h \in Seq(MarketStates) /\ DOMAIN h = 1 .. Len(h) /\ Len(h) \in Nat
  OBVIOUS
<1>3. ReferenceState(c, lookback) = IF before = {} THEN Head(h) ELSE h[Max(before)]
  BY DEF ReferenceState
<1>4. before \subseteq 1 .. Len(h)
  BY <1>2
<1>5. before # {}
  <2>1. 1 \in DOMAIN h /\ Head(h) = h[1]
    BY <1>1, <1>2
  <2> QED
    BY <1>1, <2>1
<1>6. Max(before) \in before
  <2> HIDE DEF before
  <2>1. IsFiniteSet(1 .. Len(h))
    BY <1>2, FS_Interval
  <2>2. IsFiniteSet(before)
    BY <1>4, <2>1, FS_Subset
  <2>3. before \in SUBSET Int
    BY <1>4
  <2> QED
    BY <1>5, <2>2, <2>3, MaxOfNumbers
<1>7. ReferenceState(c, lookback) = h[Max(before)]
  BY <1>3, <1>5
<1>8. \A n \in before : h[n].time <= c.state.time - lookback
  OBVIOUS
<1> HIDE DEF before
<1> QED
  BY <1>6, <1>7, <1>8

(* What was not observed has no total and no peak.                         *)
LEMMA SeenHasOi ==
    ASSUME NEW L
    PROVE  /\ Seen(TotalOi(L)) => WithOi(L) # {}
           /\ Seen(PeakStrike(L)) => WithOi(L) # {}
           /\ \A M \in SUBSET L : WithOi(M) \subseteq WithOi(L)
<1>1. Seen(PeakStrike(L)) => WithOi(L) # {}
  <2> SUFFICES ASSUME WithOi(L) = {} PROVE PeakStrike(L) = Unseen
    BY DEF Seen
  <2>1. Strikes(WithOi(L)) = {}
    BY DEF Strikes
  <2> QED
    BY <2>1 DEF PeakStrike
<1>2. Seen(TotalOi(L)) => WithOi(L) # {}
  BY DEF TotalOi, Seen
<1> QED
  BY <1>1, <1>2 DEF WithOi

LEMMA PartsOfChain ==
    ASSUME NEW L, NEW spot
    PROVE  /\ Calls(L) \in SUBSET L /\ Puts(L) \in SUBSET L
           /\ BelowSpot(L, spot) \in SUBSET L /\ AboveSpot(L, spot) \in SUBSET L
BY DEF Calls, Puts, BelowSpot, AboveSpot

OfOi == OiWindows \cup OiOfExpiry \cup OiOverWindow

LEMMA OiChangeSaw ==
    ASSUME NEW c, IsValue(OiChange(c))
    PROVE  Seen(TotalOi(Now(c))) /\ Seen(TotalOi(Then(c, 1)))
BY DEF OiChange, Given, Unavailable, Value, IsValue

LEMMA PcrChangeSaw ==
    ASSUME NEW c, IsValue(PcrOiChange(c))
    PROVE  /\ Seen(TotalOi(Calls(Now(c)))) /\ Seen(TotalOi(Calls(Then(c, 1))))
           /\ Seen(TotalOi(Puts(Now(c)))) /\ Seen(TotalOi(Puts(Then(c, 1))))
<1> DEFINE sides == <<Calls(Now(c)), Calls(Then(c, 1)), Puts(Now(c)), Puts(Then(c, 1))>>
           oi == [n \in 1 .. 4 |-> TotalOi(sides[n])]
<1>1. Unseen \notin Range(oi)
  BY DEF PcrOiChange, Given, Unavailable, IsValue
<1>2. \A n \in 1 .. 4 : Seen(oi[n])
  BY <1>1 DEF Range, Seen
<1>3. /\ oi[1] = TotalOi(Calls(Now(c))) /\ oi[2] = TotalOi(Calls(Then(c, 1)))
      /\ oi[3] = TotalOi(Puts(Now(c))) /\ oi[4] = TotalOi(Puts(Then(c, 1)))
  OBVIOUS
<1>4. 1 \in 1 .. 4 /\ 2 \in 1 .. 4 /\ 3 \in 1 .. 4 /\ 4 \in 1 .. 4
  OBVIOUS
<1> HIDE DEF oi
<1> QED
  BY <1>2, <1>3, <1>4

(* A value of open interest was computed from some.                        *)
LEMMA OiWasObserved ==
    ASSUME NEW c, NEW f \in OfOi, IsValue(Formula(f, c))
    PROVE  /\ WithOi(Now(c)) # {}
           /\ f \in OiWindows \cup OiOverWindow => WithOi(Then(c, 1)) # {}
<1> DEFINE N == Now(c)
           T == Then(c, 1)
<1>0. /\ Calls(N) \in SUBSET N /\ Puts(N) \in SUBSET N /\ Calls(T) \in SUBSET T /\ Puts(T) \in SUBSET T
      /\ \A s : BelowSpot(N, s) \in SUBSET N /\ AboveSpot(N, s) \in SUBSET N
  BY PartsOfChain
<1>a. ASSUME NEW L \in SUBSET N, Seen(TotalOi(L)) \/ Seen(PeakStrike(L)) \/ WithOi(L) # {}
      PROVE  WithOi(N) # {}
  <2>1. WithOi(L) # {}
    BY <1>a, SeenHasOi
  <2>2. WithOi(L) \subseteq WithOi(N)
    BY SeenHasOi
  <2> QED
    BY <2>1, <2>2
<1>b. ASSUME NEW L \in SUBSET T, Seen(TotalOi(L)) \/ Seen(PeakStrike(L)) \/ WithOi(L) # {}
      PROVE  WithOi(T) # {}
  <2>1. WithOi(L) # {}
    BY <1>b, SeenHasOi
  <2>2. WithOi(L) \subseteq WithOi(T)
    BY SeenHasOi
  <2> QED
    BY <2>1, <2>2
<1>z. /\ N = Now(c) /\ T = Then(c, 1)
  OBVIOUS
<1> HIDE DEF N, T
<1>1. CASE f \in {"OI_CHANGE", "OI_CHANGE_PCT", "BUILDUP_CLASSIFICATION", "FUTURES_OPTIONS_CONFIRMATION"}
  <2>1. IsValue(OiChange(c))
    <3>1. CASE f = "OI_CHANGE"
      BY <3>1 DEF Formula
    <3>2. CASE f = "OI_CHANGE_PCT"
      <4>1. IsValue(OiChangePct(c))
        BY <3>2 DEF Formula
      <4> QED
        BY <4>1 DEF OiChangePct, Given, Unavailable, IsValue
    <3>3. CASE f = "BUILDUP_CLASSIFICATION"
      <4>1. IsValue(BuildupClassification(c))
        BY <3>3 DEF Formula
      <4> QED
        BY <4>1 DEF BuildupClassification, Given, Unavailable, IsValue
    <3>4. CASE f = "FUTURES_OPTIONS_CONFIRMATION"
      <4>1. IsValue(FuturesOptionsConfirmation(c))
        BY <3>4 DEF Formula
      <4> QED
        BY <4>1 DEF FuturesOptionsConfirmation, Given, Unavailable, IsValue
    <3> QED
      BY <1>1, <3>1, <3>2, <3>3, <3>4
  <2>2. Seen(TotalOi(N)) /\ Seen(TotalOi(T))
    BY <1>z, <2>1, OiChangeSaw
  <2> QED
    BY <1>z, <2>2, SeenHasOi
<1>2. CASE f = "OI_CONCENTRATION"
  <2>1. IsValue(OiConcentration(c))
    BY <1>2 DEF Formula
  <2> DEFINE K == Strikes(WithOi(Now(c)))
             q == [k \in K |-> OiAt(Now(c), k)]
  <2>2. TotalOf(q) # 0
    BY <2>1 DEF OiConcentration, Given, Unavailable, IsValue
  <2>3. DOMAIN q = K
    OBVIOUS
  <2> HIDE DEF q
  <2>4. K # {}
    BY <2>2, <2>3, TotalOfNothing
  <2> QED
    BY <1>2, <2>4 DEF Strikes, OiWindows, OiOverWindow
<1>3. CASE f \in {"OI_WALL_CALL", "OI_WALL_PUT"}
  <2>1. PICK L \in SUBSET N : IsValue(OiWall(c, L))
    <3>1. CASE f = "OI_WALL_CALL"
      BY <1>0, <1>z, <3>1 DEF Formula
    <3>2. CASE f = "OI_WALL_PUT"
      BY <1>0, <1>z, <3>2 DEF Formula
    <3> QED
      BY <1>3, <3>1, <3>2
  <2>2. Seen(PeakStrike(L))
    BY <2>1 DEF OiWall, Given, Unavailable, IsValue
  <2> QED
    BY <1>3, <1>a, <1>z, <2>2 DEF OiWindows, OiOverWindow
<1>4. CASE f = "OI_WALL_MIGRATION"
  <2>1. IsValue(OiWallMigration(c))
    BY <1>4 DEF Formula
  <2>2. Seen(PeakStrike(Puts(N))) /\ Seen(PeakStrike(Puts(T)))
    BY <1>z, <2>1 DEF OiWallMigration, Given, Unavailable, IsValue
  <2> QED
    BY <1>0, <1>a, <1>b, <1>z, <2>2
<1>5. CASE f \in {"PUT_OI_MIGRATION", "CALL_OI_MIGRATION"}
  <2>1. PICK L \in SUBSET N, M \in SUBSET T : IsValue(OiMigration(L, M))
    <3>1. CASE f = "PUT_OI_MIGRATION"
      BY <1>0, <1>z, <3>1 DEF Formula
    <3>2. CASE f = "CALL_OI_MIGRATION"
      BY <1>0, <1>z, <3>2 DEF Formula
    <3> QED
      BY <1>5, <3>1, <3>2
  <2>2. WithOi(L) # {} /\ WithOi(M) # {}
    BY <2>1 DEF OiMigration, Given, Unavailable, IsValue
  <2> QED
    BY <1>a, <1>b, <1>z, <2>2
<1>6. CASE f = "VOLUME_OI_RATIO"
  <2>1. IsValue(VolumeOiRatio(c))
    BY <1>6 DEF Formula
  <2>2. Seen(TotalOi(N))
    BY <1>z, <2>1 DEF VolumeOiRatio, Given, Unavailable, IsValue
  <2> QED
    BY <1>6, <1>z, <2>2, SeenHasOi DEF OiWindows, OiOverWindow
<1>7. CASE f = "PCR"
  <2>1. IsValue(Pcr(c))
    BY <1>7 DEF Formula
  <2>2. Seen(TotalOi(Calls(N)))
    BY <1>z, <2>1 DEF Pcr, Given, Unavailable, IsValue
  <2> QED
    BY <1>0, <1>7, <1>a, <1>z, <2>2 DEF OiWindows, OiOverWindow
<1>8. CASE f = "PCR_OI_CHANGE"
  <2>1. IsValue(PcrOiChange(c))
    BY <1>8 DEF Formula
  <2>2. Seen(TotalOi(Calls(N))) /\ Seen(TotalOi(Calls(T)))
    BY <2>1, PcrChangeSaw DEF N, T
  <2> QED
    BY <1>0, <1>a, <1>b, <1>z, <2>2
<1>9. CASE f = "SUPPORT_FROM_POSITIONING"
  <2>1. IsValue(SupportFromPositioning(c))
    BY <1>9 DEF Formula
  <2>2. Seen(PeakStrike(BelowSpot(N, c.state.spot)))
    BY <1>z, <2>1 DEF SupportFromPositioning, PositioningLevel, Given, Unavailable, IsValue
  <2> QED
    BY <1>0, <1>9, <1>a, <1>z, <2>2 DEF OiWindows, OiOverWindow
<1>10. CASE f = "RESISTANCE_FROM_POSITIONING"
  <2>1. IsValue(ResistanceFromPositioning(c))
    BY <1>10 DEF Formula
  <2>2. Seen(PeakStrike(AboveSpot(N, c.state.spot)))
    BY <1>z, <2>1 DEF ResistanceFromPositioning, PositioningLevel, Given, Unavailable, IsValue
  <2> QED
    BY <1>0, <1>10, <1>a, <1>z, <2>2 DEF OiWindows, OiOverWindow
<1>11. CASE f = "MAX_PAIN"
  <2>1. IsValue(MaxPain(c))
    BY <1>11 DEF Formula
  <2>2. Strikes(WithOi(N)) # {}
    BY <1>z, <2>1 DEF MaxPain, Given, Unavailable, IsValue
  <2> QED
    BY <1>11, <1>z, <2>2 DEF Strikes, OiWindows, OiOverWindow
<1>12. f \in {"OI_CHANGE", "OI_CHANGE_PCT", "OI_CONCENTRATION", "OI_WALL_CALL", "OI_WALL_PUT",
              "VOLUME_OI_RATIO", "PCR", "SUPPORT_FROM_POSITIONING", "RESISTANCE_FROM_POSITIONING",
              "MAX_PAIN", "OI_WALL_MIGRATION", "PUT_OI_MIGRATION", "CALL_OI_MIGRATION",
              "BUILDUP_CLASSIFICATION", "PCR_OI_CHANGE", "FUTURES_OPTIONS_CONFIRMATION"}
  BY DEF OfOi, OiWindows, OiOfExpiry, OiOverWindow
<1> QED
  BY <1>1, <1>2, <1>3, <1>4, <1>5, <1>6, <1>7, <1>8, <1>9, <1>10, <1>11, <1>12

(* A level needs the spot price, and so does a basis.                      *)
LEMMA SpotWasSeen ==
    ASSUME NEW c, NEW f \in {"MOMENTUM", "RETURN", "REALIZED_MOVE", "BASIS_CHANGE", "SPOT_FUTURES_DIVERGENCE",
                             "STRUCTURE_MIGRATION", "BUILDUP_CLASSIFICATION"},
           IsValue(Formula(f, c))
    PROVE  Seen(c.state.spot) /\ Seen(ReferenceState(c, Lookback(f)).spot)
<1>0. /\ Lookback("REALIZED_MOVE") = 2 /\ Lookback("STRUCTURE_MIGRATION") = 2
      /\ f \notin {"REALIZED_MOVE", "STRUCTURE_MIGRATION"} => Lookback(f) = 1
  BY DEF Lookback, OiWindows, OiOverWindow
<1>1. \A s, e : Seen(BasisOf(s)) \/ Seen(BandMid(s, e)) => Seen(s.spot)
  BY DEF BasisOf, BandMid, Seen
<1>2. CASE f = "MOMENTUM"
  <2>1. IsValue(Momentum(c))
    BY <1>2 DEF Formula
  <2> QED
    BY <1>0, <1>2, <2>1 DEF Momentum, Given, Unavailable, IsValue
<1>3. CASE f = "RETURN"
  <2>1. IsValue(PriceReturn(c))
    BY <1>3 DEF Formula
  <2>2. IsValue(Momentum(c))
    BY <2>1 DEF PriceReturn, Given, Unavailable, IsValue
  <2> QED
    BY <1>0, <1>3, <2>2 DEF Momentum, Given, Unavailable, IsValue
<1>4. CASE f = "REALIZED_MOVE"
  <2>1. IsValue(RealizedMove(c))
    BY <1>4 DEF Formula
  <2> QED
    BY <1>0, <1>4, <2>1 DEF RealizedMove, Given, Unavailable, IsValue
<1>5. CASE f = "BASIS_CHANGE"
  <2>1. IsValue(BasisChange(c))
    BY <1>5 DEF Formula
  <2>2. Seen(BasisOf(c.state)) /\ Seen(BasisOf(ReferenceState(c, 1)))
    BY <2>1 DEF BasisChange, Given, Unavailable, IsValue
  <2> QED
    BY <1>0, <1>1, <1>5, <2>2
<1>6. CASE f = "SPOT_FUTURES_DIVERGENCE"
  <2>1. IsValue(SpotFuturesDivergence(c))
    BY <1>6 DEF Formula
  <2> QED
    BY <1>0, <1>6, <2>1 DEF SpotFuturesDivergence, Given, Unavailable, IsValue, Seen
<1>7. CASE f = "STRUCTURE_MIGRATION"
  <2>1. IsValue(StructureMigration(c))
    BY <1>7 DEF Formula
  <2>2. Seen(BandMid(c.state, c.params.expiry)) /\ Seen(BandMid(ReferenceState(c, 2), c.params.expiry))
    BY <2>1 DEF StructureMigration, Given, Unavailable, IsValue
  <2> QED
    BY <1>0, <1>1, <1>7, <2>2
<1>8. CASE f = "BUILDUP_CLASSIFICATION"
  <2>1. IsValue(BuildupClassification(c))
    BY <1>8 DEF Formula
  <2> QED
    BY <1>0, <1>8, <2>1 DEF BuildupClassification, Given, Unavailable, IsValue, Seen
<1> QED
  BY <1>2, <1>3, <1>4, <1>5, <1>6, <1>7, <1>8

(* No exposure without the lot size of the day.                            *)
LEMMA LotWasSeen ==
    ASSUME NEW c, NEW f \in OfGamma, IsValue(Formula(f, c))
    PROVE  Seen(c.params.lot) /\ c.params.lot > 0
<1>1. \A rest : IsValue(Guarded(c, rest)) => Seen(c.params.lot) /\ c.params.lot > 0
  BY DEF Guarded, Given, Unavailable, IsValue
<1>2. \A greek : IsValue(Exposure(c, greek)) => Seen(c.params.lot) /\ c.params.lot > 0
  BY DEF Exposure, Given, Unavailable, IsValue
<1>3. \A v : IsValue(GexFor(c, v)) => Seen(c.params.lot) /\ c.params.lot > 0
  BY <1>1 DEF GexFor
<1>4. CASE f \in {"DELTA_EXPOSURE", "GAMMA_EXPOSURE", "THETA_EXPOSURE", "VEGA_EXPOSURE"}
  <2>1. \E greek : Formula(f, c) = Exposure(c, greek)
    <3>1. /\ Formula("DELTA_EXPOSURE", c) = Exposure(c, "delta") /\ Formula("GAMMA_EXPOSURE", c) = Exposure(c, "gamma")
          /\ Formula("THETA_EXPOSURE", c) = Exposure(c, "theta") /\ Formula("VEGA_EXPOSURE", c) = Exposure(c, "vega")
      BY DEF Formula
    <3> QED
      BY <1>4, <3>1
  <2> QED
    BY <1>2, <2>1
<1>5. CASE f = "GEX_TOTAL"
  <2>1. IsValue(GexTotal(c))
    BY <1>5 DEF Formula
  <2> QED
    BY <1>1, <2>1 DEF GexTotal
<1>6. CASE f = "GEX_BY_STRIKE"
  <2>1. IsValue(GexByStrike(c))
    BY <1>6 DEF Formula
  <2> QED
    BY <1>3, <2>1 DEF GexByStrike
<1>7. CASE f = "GEX_BY_EXPIRY"
  <2>1. IsValue(GexByExpiry(c))
    BY <1>7 DEF Formula
  <2> QED
    BY <1>3, <2>1 DEF GexByExpiry
<1>8. CASE f = "GEX_CONCENTRATION"
  <2>1. IsValue(GexConcentration(c))
    BY <1>8 DEF Formula
  <2> QED
    BY <1>3, <2>1 DEF GexConcentration
<1>9. CASE f = "GEX_PROFILE"
  <2>1. IsValue(GexProfile(c))
    BY <1>9 DEF Formula
  <2> QED
    BY <1>3, <2>1 DEF GexProfile
<1>10. CASE f = "GAMMA_FLIP_LEVEL"
  <2>1. IsValue(GammaFlipLevel(c))
    BY <1>10 DEF Formula
  <2> QED
    BY <1>3, <2>1 DEF GammaFlipLevel
<1> QED
  BY <1>4, <1>5, <1>6, <1>7, <1>8, <1>9, <1>10 DEF OfGamma

LEMMA NothingIsMadeUp == FeatureInv => MissingIsNeverANumber
<1> SUFFICES ASSUME FeatureInv, NEW f \in DOMAIN report.results \ OverSeries, Known(f)
             PROVE  /\ ~report.state.unreliable
                    /\ Lookback(f) > 0 => Reference(f).time <= report.state.time - Lookback(f)
                    /\ f \in OiWindows \cup OiOfExpiry \cup OiOverWindow => OiObserved(report.state)
                    /\ f \in OiWindows \cup OiOverWindow => OiObserved(Reference(f))
                    /\ f \in {"PCR", "PCR_OI_CHANGE"} =>
                          \A type \in {"call", "put"} : \E l \in Slice(report.state, report.params.expiry) :
                              l.type = type /\ Seen(l.oi)
                    /\ f \in {"MOMENTUM", "RETURN", "REALIZED_MOVE", "BASIS_CHANGE", "SPOT_FUTURES_DIVERGENCE",
                               "STRUCTURE_MIGRATION", "BUILDUP_CLASSIFICATION"} =>
                          Seen(report.state.spot) /\ Seen(Reference(f).spot)
                    /\ f \in OfGamma => Seen(report.params.lot)
  BY DEF MissingIsNeverANumber
<1> DEFINE c == Ctx(f)
           L == Lookback(f)
<1>1. /\ c.state = report.state /\ c.history = report.history /\ c.params = report.params
      /\ c.history \in Seq(MarketStates) /\ Covers(c, L) /\ IsValue(Formula(f, c))
      /\ \A r \in Requirements(f) : Meets(r, report.state)
  BY KnownFormula
<1>2. ReferenceState(c, L) = Reference(f)
  <2> HIDE DEF c
  <2> QED
    BY <1>1 DEF Reference, Reported, ReferenceState
<1> HIDE DEF c
<1>3. ~report.state.unreliable
  <2>1. "quality" \in Requirements(f)
    BY DEF Requirements
  <2>2. Meets("quality", report.state)
    BY <1>1, <2>1
  <2> QED
    BY <2>2 DEF Meets
<1>4. L > 0 => Reference(f).time <= report.state.time - L
  <2> HIDE DEF L
  <2> QED
    BY <1>1, <1>2, ReferenceIsBefore
<1>5. f \in OiWindows \cup OiOverWindow => L = 1
  BY DEF Lookback
<1>6. f \in OfOi => /\ OiObserved(report.state)
                    /\ f \in OiWindows \cup OiOverWindow => OiObserved(Reference(f))
  <2> SUFFICES ASSUME f \in OfOi
               PROVE  /\ OiObserved(report.state)
                      /\ f \in OiWindows \cup OiOverWindow => OiObserved(Reference(f))
    OBVIOUS
  <2>1. /\ WithOi(Now(c)) # {}
        /\ f \in OiWindows \cup OiOverWindow => WithOi(Then(c, 1)) # {}
    BY <1>1, OiWasObserved
  <2> HIDE DEF L
  <2> QED
    BY <1>1, <1>2, <1>5, <2>1 DEF OiObserved, Now, Then
<1>7. f \in {"PCR", "PCR_OI_CHANGE"} =>
          \A type \in {"call", "put"} : \E l \in Slice(report.state, report.params.expiry) :
              l.type = type /\ Seen(l.oi)
  <2> SUFFICES ASSUME f \in {"PCR", "PCR_OI_CHANGE"}
               PROVE  \A type \in {"call", "put"} : \E l \in Now(c) : l.type = type /\ Seen(l.oi)
    BY <1>1 DEF Now
  <2>1. Seen(TotalOi(Calls(Now(c)))) /\ Seen(TotalOi(Puts(Now(c))))
    <3>1. CASE f = "PCR"
      <4>1. IsValue(Pcr(c))
        BY <1>1, <3>1 DEF Formula
      <4> QED
        BY <4>1 DEF Pcr, Given, Unavailable, IsValue
    <3>2. CASE f = "PCR_OI_CHANGE"
      <4>1. IsValue(PcrOiChange(c))
        BY <1>1, <3>2 DEF Formula
      <4> QED
        BY <4>1, PcrChangeSaw
    <3> QED
      BY <3>1, <3>2
  <2>2. WithOi(Calls(Now(c))) # {} /\ WithOi(Puts(Now(c))) # {}
    BY <2>1, SeenHasOi
  <2> QED
    BY <2>2 DEF WithOi, Calls, Puts
<1>8. f \in {"MOMENTUM", "RETURN", "REALIZED_MOVE", "BASIS_CHANGE", "SPOT_FUTURES_DIVERGENCE",
             "STRUCTURE_MIGRATION", "BUILDUP_CLASSIFICATION"} =>
          Seen(report.state.spot) /\ Seen(Reference(f).spot)
  <2> HIDE DEF L
  <2>1. f \in {"MOMENTUM", "RETURN", "REALIZED_MOVE", "BASIS_CHANGE", "SPOT_FUTURES_DIVERGENCE",
               "STRUCTURE_MIGRATION", "BUILDUP_CLASSIFICATION"} =>
          Seen(c.state.spot) /\ Seen(ReferenceState(c, Lookback(f)).spot)
    BY <1>1, SpotWasSeen
  <2> QED
    BY <1>1, <1>2, <2>1 DEF L
<1>9. f \in OfGamma => Seen(report.params.lot)
  BY <1>1, LotWasSeen
<1> QED
  BY <1>3, <1>4, <1>6, <1>7, <1>8, <1>9 DEF OfOi

LEMMA UnavailableMeans == \A why : Unavailable(why).reason = why
BY DEF Unavailable

LEMMA GivenMeans ==
    ASSUME NEW condition \in BOOLEAN, NEW reason, reason # "", NEW rest, NEW v,
           v = Given(condition, reason, rest), IsValue(v)
    PROVE  condition /\ IsValue(rest) /\ v = rest
<1>1. CASE condition
  <2>1. v = rest
    BY <1>1 DEF Given
  <2> QED
    BY <1>1, <2>1
<1>2. CASE ~condition
  <2>1. v = Unavailable(reason)
    BY <1>2 DEF Given
  <2>2. v.reason = reason
    BY <2>1, UnavailableMeans
  <2> QED
    BY <2>2, Zenon DEF IsValue
<1> QED
  BY <1>1, <1>2

LEMMA ValueMeans == \A v : IsValue(Value(v)) /\ Value(v).value = v
BY DEF Value, IsValue

(* Features that depend on no other see the same.                          *)
LEMMA SameContext ==
    ASSUME NEW f, NEW g, DependsOn(f) = {}, DependsOn(g) = {}
    PROVE  Ctx(f) = Ctx(g)
<1>1. DependsOn(f) \cap FeatureIds = {} /\ DependsOn(g) \cap FeatureIds = {}
  OBVIOUS
<1>2. [d \in DependsOn(f) \cap FeatureIds |-> report.results[d]]
          = [d \in DependsOn(g) \cap FeatureIds |-> report.results[d]]
  BY <1>1
<1> QED
  BY <1>2 DEF Ctx, ContextOf

(* A feature that asks for no more than one that is known is known with it.*)
LEMMA KnownToo ==
    ASSUME FeatureInv, NEW f, Known(f), NEW g \in FeatureIds, DependsOn(f) = {}, DependsOn(g) = {},
           Requirements(g) \subseteq Requirements(f),
           g \in NeedsExpiry \cup {"FUTURES_OPTIONS_CONFIRMATION"} => Seen(report.params.expiry),
           g \in NeedsSlice => report.params.expiry \in report.state.expiries,
           Lookback(g) \in {0, Lookback(f)}, IsValue(Formula(g, Ctx(f)))
    PROVE  Known(g) /\ Of(g) = Formula(g, Ctx(f)).value
<1>1. Ctx(g) = Ctx(f)
  BY SameContext
<1>2. report # NoReport /\ Covers(Ctx(f), Lookback(f)) /\ \A r \in Requirements(f) : Meets(r, report.state)
  BY KnownFormula
<1>3. Covers(Ctx(g), Lookback(g))
  BY <1>1, <1>2 DEF Covers
<1> QED
  BY <1>1, <1>2, <1>3, MeetsToBeKnown

(* The legs that were observed lie in an expiry of the state.              *)
LEMMA ObservedExpiry ==
    ASSUME NEW s \in MarketStates, NEW expiry, Slice(s, expiry) # {}
    PROVE  expiry \in s.expiries
BY DEF MarketStates, Slice

LEMMA ChangeIsKnown ==
    ASSUME FeatureInv, NEW f \in {"BUILDUP_CLASSIFICATION", "FUTURES_OPTIONS_CONFIRMATION"}, Known(f),
           IsValue(OiChange(Ctx(f)))
    PROVE  Known("OI_CHANGE") /\ Of("OI_CHANGE") = OiChange(Ctx(f)).value
<1> DEFINE g == "OI_CHANGE"
           c == Ctx(f)
<1>1. /\ report.state \in MarketStates /\ Seen(report.params.expiry)
      /\ c.state = report.state /\ c.params = report.params /\ IsValue(Formula(f, c))
  BY KnownFormula DEF NeedsExpiry, OiOverWindow
<1>2. report.params.expiry \in report.state.expiries
  <2>1. WithOi(Now(c)) # {}
    BY <1>1, OiWasObserved DEF OfOi, OiOverWindow
  <2>2. Slice(report.state, report.params.expiry) # {}
    BY <1>1, <2>1 DEF Now, WithOi
  <2> QED
    BY <1>1, <2>2, ObservedExpiry
<1>3. g \in FeatureIds /\ DependsOn(f) = {} /\ DependsOn(g) = {} /\ Lookback(g) = Lookback(f)
  BY DEF FeatureIds, OiWindows, OiOverWindow, DependsOn, Lookback
<1>4. Requirements(g) \subseteq Requirements(f)
  <2>1. f \in NeedsExpiry \cup {"FUTURES_OPTIONS_CONFIRMATION", "GEX_TOTAL"} /\ f \notin OfIv \cup OfPrice
    BY DEF NeedsExpiry, OiOverWindow, OfIv, OfPrice
  <2>2. {"quality", "oi"} \subseteq Requirements(f)
    BY <2>1 DEF Requirements
  <2>3. g \notin OfIv \cup OfGamma
    BY DEF OfIv, OfGamma
  <2>4. Requirements(g) \subseteq {"quality", "oi"}
    BY <2>3 DEF Requirements
  <2> QED
    BY <2>2, <2>4
<1>5. Formula(g, c) = OiChange(c)
  BY DEF Formula
<1> HIDE DEF c
<1> QED
  BY <1>1, <1>2, <1>3, <1>4, <1>5, KnownToo DEF c

(* The quadrant is that of the move and of the change.                     *)
LEMMA BuildupAgrees ==
    ASSUME FeatureInv, Known("BUILDUP_CLASSIFICATION")
    PROVE  /\ Known("OI_CHANGE") /\ Known("MOMENTUM")
           /\ Of("BUILDUP_CLASSIFICATION") = Quadrant(Positive("MOMENTUM"), Positive("OI_CHANGE"))
<1> DEFINE f == "BUILDUP_CLASSIFICATION"
           g == "MOMENTUM"
           c == Ctx(f)
<1>1. IsValue(Formula(f, c)) /\ Of(f) = Formula(f, c).value /\ Formula(f, c) = BuildupClassification(c)
  BY KnownFormula DEF Formula
<1> DEFINE change == OiChange(c)
           move == c.state.spot - ReferenceState(c, 1).spot
<1> HIDE DEF c
<1>2. /\ IsValue(change) /\ Seen(c.state.spot) /\ Seen(ReferenceState(c, 1).spot)
      /\ Of(f) = Quadrant(move > 0, change.value > 0)
  <2> DEFINE v == Value(Quadrant(move > 0, change.value > 0))
             rest == Given(change.value # 0 /\ move # 0, "UNDEFINED", v)
             spots == {c.state.spot, ReferenceState(c, 1).spot}
  <2>1. Formula(f, c) = Given(IsValue(change) /\ Unseen \notin spots, "MISSING_INPUT", rest)
    BY <1>1 DEF BuildupClassification
  <2> HIDE DEF v
  <2>2. IsValue(change) /\ Unseen \notin spots /\ IsValue(rest) /\ Formula(f, c) = rest
    <3> DEFINE p == IsValue(change) /\ Unseen \notin spots
    <3>1. p \in BOOLEAN /\ Formula(f, c) = Given(p, "MISSING_INPUT", rest)
      BY <2>1 DEF IsValue
    <3> HIDE DEF rest, p
    <3>2. p /\ IsValue(rest) /\ Formula(f, c) = rest
      BY <1>1, <3>1, GivenMeans
    <3> QED
      BY <3>2 DEF p
  <2>3. rest = v
    BY <2>2 DEF Given, Unavailable, IsValue
  <2> QED
    BY <1>1, <2>2, <2>3, ValueMeans DEF Seen, v
<1>3. Known("OI_CHANGE") /\ Of("OI_CHANGE") = change.value
  BY <1>2, ChangeIsKnown DEF c
<1>4. Formula(g, c) = Momentum(c) /\ IsValue(Momentum(c)) /\ Momentum(c).value = move
  BY <1>2 DEF Formula, Momentum, Given, Value, IsValue
<1>5. /\ g \in FeatureIds /\ DependsOn(f) = {} /\ DependsOn(g) = {} /\ Lookback(g) = Lookback(f)
      /\ g \notin NeedsExpiry \cup {"FUTURES_OPTIONS_CONFIRMATION"} /\ g \notin NeedsSlice
  BY DEF FeatureIds, OfPrice, OiOverWindow, OiWindows, OiOfExpiry, OfGamma, DependsOn, Lookback, NeedsExpiry, NeedsSlice
<1>6. Requirements(g) \subseteq Requirements(f)
  <2>1. g \notin OfIv \cup OfGamma /\ g \in OfPrice
    BY DEF OfIv, OfGamma, OfPrice
  <2> QED
    BY <2>1 DEF Requirements
<1>7. Known(g) /\ Of(g) = move
  BY <1>4, <1>5, <1>6, KnownToo DEF c
<1> HIDE DEF move, change
<1> QED
  BY <1>2, <1>3, <1>7 DEF Positive

LEMMA ConfirmationAgrees ==
    ASSUME FeatureInv, Known("FUTURES_OPTIONS_CONFIRMATION")
    PROVE  /\ Known("FUTURES_OI_CHANGE") /\ Known("OI_CHANGE")
           /\ (Of("FUTURES_OPTIONS_CONFIRMATION") = "CONFIRMING")
                 = (Positive("FUTURES_OI_CHANGE") = Positive("OI_CHANGE"))
<1> DEFINE f == "FUTURES_OPTIONS_CONFIRMATION"
           g == "FUTURES_OI_CHANGE"
           c == Ctx(f)
<1>1. IsValue(Formula(f, c)) /\ Of(f) = Formula(f, c).value /\ Formula(f, c) = FuturesOptionsConfirmation(c)
  BY KnownFormula DEF Formula
<1> DEFINE futures == FuturesOiChange(c)
           options == OiChange(c)
<1> HIDE DEF c
<1>2. /\ IsValue(futures) /\ IsValue(options)
      /\ Of(f) = IF (futures.value > 0) = (options.value > 0) THEN "CONFIRMING" ELSE "DIVERGING"
  <2> DEFINE v == Value(IF (futures.value > 0) = (options.value > 0) THEN "CONFIRMING" ELSE "DIVERGING")
             rest == Given(futures.value # 0 /\ options.value # 0, "UNDEFINED", v)
  <2>1. Formula(f, c) = Given(IsValue(futures) /\ IsValue(options), "MISSING_INPUT", rest)
    BY <1>1 DEF FuturesOptionsConfirmation
  <2> HIDE DEF v
  <2>2. IsValue(futures) /\ IsValue(options) /\ IsValue(rest) /\ Formula(f, c) = rest
    <3> DEFINE p == IsValue(futures) /\ IsValue(options)
    <3>1. p \in BOOLEAN /\ Formula(f, c) = Given(p, "MISSING_INPUT", rest)
      BY <2>1 DEF IsValue
    <3> HIDE DEF rest, p
    <3>2. p /\ IsValue(rest) /\ Formula(f, c) = rest
      BY <1>1, <3>1, GivenMeans
    <3> QED
      BY <3>2 DEF p
  <2>3. rest = v
    BY <2>2 DEF Given, Unavailable, IsValue
  <2> QED
    BY <1>1, <2>2, <2>3, ValueMeans DEF v
<1>3. Known("OI_CHANGE") /\ Of("OI_CHANGE") = options.value
  BY <1>2, ChangeIsKnown DEF c
<1>4. Formula(g, c) = futures
  BY DEF Formula
<1>5. /\ g \in FeatureIds /\ DependsOn(f) = {} /\ DependsOn(g) = {} /\ Lookback(g) = Lookback(f)
      /\ g \notin NeedsExpiry \cup {"FUTURES_OPTIONS_CONFIRMATION"} /\ g \notin NeedsSlice
  BY DEF FeatureIds, OfFutures, OiOverWindow, OiWindows, OiOfExpiry, OfGamma, DependsOn, Lookback, NeedsExpiry, NeedsSlice
<1>6. Requirements(g) \subseteq Requirements(f)
  <2>1. g \notin OfIv \cup OfGamma /\ g \notin NeedsExpiry \cup {"FUTURES_OPTIONS_CONFIRMATION", "GEX_TOTAL"}
    BY DEF OfIv, OfGamma, NeedsExpiry, OiOverWindow, OiWindows, OiOfExpiry
  <2> QED
    BY <2>1 DEF Requirements
<1>7. Known(g) /\ Of(g) = futures.value
  BY <1>2, <1>4, <1>5, <1>6, KnownToo DEF c
<1>8. Positive(g) = (futures.value > 0) /\ Positive("OI_CHANGE") = (options.value > 0)
  BY <1>3, <1>7 DEF Positive
<1> HIDE DEF futures, options
<1>9. (Of(f) = "CONFIRMING") = ((futures.value > 0) = (options.value > 0))
  BY <1>2
<1> QED
  BY <1>3, <1>7, <1>8, <1>9

(* A total lies where its terms do.                                        *)
LEMMA TotalsCompare ==
    ASSUME NEW S, IsFiniteSet(S), NEW f \in [S -> Int], NEW g \in [S -> Int], NEW a \in Int, NEW b \in Int,
           \A x \in S : a * g[x] <= f[x] /\ f[x] <= b * g[x]
    PROVE  /\ TotalOf(f) \in Int /\ TotalOf(g) \in Int
           /\ a * TotalOf(g) <= TotalOf(f) /\ TotalOf(f) <= b * TotalOf(g)
<1> DEFINE above == [x \in S |-> f[x] + (-a) * g[x]]
           scaled == [x \in S |-> b * g[x]]
           below == [x \in S |-> scaled[x] + (-1) * f[x]]
<1>1. TotalOf(f) \in Int /\ TotalOf(g) \in Int
  BY TotalOfIntegers
<1>2. \A x \in S : f[x] \in Int /\ g[x] \in Int /\ a * g[x] \in Int /\ b * g[x] \in Int /\ (-a) * g[x] = -(a * g[x])
  OBVIOUS
<1>3. /\ above \in [S -> Nat] /\ above \in [S -> Int] /\ scaled \in [S -> Int]
      /\ below \in [S -> Nat] /\ below \in [S -> Int]
  BY <1>2
<1>4. TotalOf(above) = TotalOf(f) + (-a) * TotalOf(g)
  <2>1. -a \in Int /\ \A x \in S : above[x] = f[x] + (-a) * g[x]
    OBVIOUS
  <2> HIDE DEF above
  <2> QED
    BY <1>3, <2>1, TotalOfCombination
<1>5. TotalOf(scaled) = b * TotalOf(g)
  <2>1. \A x \in S : scaled[x] = b * g[x]
    OBVIOUS
  <2> HIDE DEF scaled
  <2> QED
    BY <1>3, <2>1, TotalOfMultiples
<1>6. TotalOf(below) = TotalOf(scaled) + (-1) * TotalOf(f)
  <2>1. -1 \in Int /\ \A x \in S : below[x] = scaled[x] + (-1) * f[x]
    OBVIOUS
  <2>2. IsFiniteSet(S) /\ below \in [S -> Int] /\ scaled \in [S -> Int] /\ f \in [S -> Int]
    BY <1>3
  <2> HIDE DEF above, below, scaled
  <2> QED
    BY <2>1, <2>2, TotalOfCombination
<1>7. TotalOf(above) \in Nat /\ TotalOf(below) \in Nat
  <2> HIDE DEF above, below
  <2> QED
    BY <1>3, TotalOfNaturals
<1> HIDE DEF above, below, scaled
<1> QED
  BY <1>1, <1>4, <1>5, <1>6, <1>7

(* A quotient lies where its numerator does, to the denominator's sign.    *)
LEMMA RatioWithin ==
    ASSUME NEW n \in Int, NEW d \in Int, NEW lo \in Int, NEW hi \in Int,
           \/ d > 0 /\ lo * d <= n /\ n <= hi * d
           \/ d < 0 /\ hi * d <= n /\ n <= lo * d
    PROVE  Within(Ratio(n, d), Whole(lo), Whole(hi))
<1> DEFINE v == Ratio(n, d)
<1>1. d # 0
  OBVIOUS
<1>2. v \in LowestTerms /\ v[1] * d = n * v[2]
  BY <1>1, RatioIs
<1> HIDE DEF v
<1> DEFINE x == v[1]
           y == v[2]
<1>3. x \in Int /\ y \in Int /\ y > 0 /\ x * d = n * y
  BY <1>2 DEF LowestTerms, FractionSet
<1> HIDE DEF x, y
<1>4. lo * y <= x /\ x <= hi * y
  <2>1. CASE d > 0 /\ lo * d <= n /\ n <= hi * d
    <3>1. (lo * d) * y <= n * y /\ n * y <= (hi * d) * y
      BY <1>3, <2>1
    <3>2. (lo * y) * d <= x * d /\ x * d <= (hi * y) * d
      BY <1>3, <3>1
    <3>3. lo * y \in Int /\ hi * y \in Int
      BY <1>3
    <3>4. ASSUME NEW p \in Int, NEW q \in Int, p * d <= q * d PROVE p <= q
      <4>1. ASSUME p > q PROVE p * d > q * d
        BY <2>1, <4>1
      <4> QED
        BY <3>4, <4>1
    <3> QED
      BY <1>3, <3>2, <3>3, <3>4
  <2>2. CASE d < 0 /\ hi * d <= n /\ n <= lo * d
    <3>1. (hi * d) * y <= n * y /\ n * y <= (lo * d) * y
      BY <1>3, <2>2
    <3>2. (hi * y) * d <= x * d /\ x * d <= (lo * y) * d
      BY <1>3, <3>1
    <3>3. lo * y \in Int /\ hi * y \in Int
      BY <1>3
    <3>4. ASSUME NEW p \in Int, NEW q \in Int, p * d <= q * d PROVE q <= p
      <4>1. ASSUME p < q PROVE p * d > q * d
        BY <2>2, <4>1
      <4> QED
        BY <3>4, <4>1
    <3> QED
      BY <1>3, <3>2, <3>3, <3>4
  <2> QED
    BY <2>1, <2>2
<1>5. lo * y <= x * 1 /\ x * 1 <= hi * y
  BY <1>3, <1>4
<1> QED
  BY <1>5 DEF Within, AtMost, Whole, v, x, y

(* The peak is a strike at which there was open interest.                  *)
LEMMA PeakIs ==
    ASSUME NEW L \in SUBSET OptionLegs, IsFiniteSet(L), Seen(PeakStrike(L))
    PROVE  \E l \in L : l.strike = PeakStrike(L) /\ Seen(l.oi)
<1> DEFINE K == Strikes(WithOi(L))
           most == {k \in K : \A other \in K : OiAt(L, other) <= OiAt(L, k)}
<1>1. most # {} /\ PeakStrike(L) = Min(most)
  BY DEF PeakStrike, Seen
<1>2. IsFiniteSet(K) /\ K \in SUBSET Int
  <2> DEFINE q == [l \in WithOi(L) |-> l.strike]
  <2>1. IsFiniteSet(DOMAIN q)
    BY FS_Subset DEF WithOi
  <2>2. K = {q[l] : l \in DOMAIN q}
    BY DEF Strikes
  <2>3. K \in SUBSET Int
    BY DEF Strikes, WithOi, OptionLegs
  <2> HIDE DEF q, K
  <2> QED
    BY <2>1, <2>2, <2>3, RangeIsFinite
<1>3. IsFiniteSet(most) /\ most \in SUBSET Int
  <2>1. most \in SUBSET K
    OBVIOUS
  <2> HIDE DEF K, most
  <2> QED
    BY <1>2, <2>1, FS_Subset
<1>4. Min(most) \in K
  <2>1. Min(most) \in most
    <3> HIDE DEF most
    <3> QED
      BY <1>1, <1>3, MinOfNumbers
  <2> QED
    BY <2>1
<1> QED
  BY <1>1, <1>4 DEF Strikes, WithOi

LEMMA LevelsAgree ==
    ASSUME FeatureInv
    PROVE  /\ Known("SUPPORT_FROM_POSITIONING") => Of("SUPPORT_FROM_POSITIONING") < report.state.spot
           /\ Known("RESISTANCE_FROM_POSITIONING") => Of("RESISTANCE_FROM_POSITIONING") > report.state.spot
<1>0. \A L : IsValue(PositioningLevel(L)) => Seen(PeakStrike(L)) /\ PositioningLevel(L).value = PeakStrike(L)
  BY DEF PositioningLevel, Given, Unavailable, Value, IsValue
<1>1. ASSUME Known("SUPPORT_FROM_POSITIONING")
      PROVE  Of("SUPPORT_FROM_POSITIONING") < report.state.spot
  <2> DEFINE f == "SUPPORT_FROM_POSITIONING"
             c == Ctx(f)
             L == BelowSpot(Now(c), c.state.spot)
  <2>1. /\ c.state = report.state /\ c.state \in MarketStates
        /\ IsValue(SupportFromPositioning(c)) /\ Of(f) = SupportFromPositioning(c).value
    BY <1>1, KnownFormula DEF Formula
  <2> HIDE DEF c
  <2>2. IsValue(PositioningLevel(L)) /\ Of(f) = PositioningLevel(L).value
    BY <2>1 DEF SupportFromPositioning, Given, Unavailable, IsValue
  <2>3. L \in SUBSET OptionLegs /\ IsFiniteSet(L)
    <3>1. Now(c) \in SUBSET OptionLegs /\ IsFiniteSet(Now(c))
      BY <2>1, SliceIs DEF Now
    <3>2. L \in SUBSET Now(c)
      BY PartsOfChain
    <3> QED
      BY <3>1, <3>2, FS_Subset
  <2>4. \A l \in L : l.strike < report.state.spot
    BY <2>1 DEF BelowSpot
  <2> HIDE DEF L
  <2>5. Of(f) = PeakStrike(L) /\ Seen(PeakStrike(L))
    BY <1>0, <2>2
  <2> QED
    BY <2>3, <2>4, <2>5, PeakIs
<1>2. ASSUME Known("RESISTANCE_FROM_POSITIONING")
      PROVE  Of("RESISTANCE_FROM_POSITIONING") > report.state.spot
  <2> DEFINE f == "RESISTANCE_FROM_POSITIONING"
             c == Ctx(f)
             L == AboveSpot(Now(c), c.state.spot)
  <2>1. /\ c.state = report.state /\ c.state \in MarketStates
        /\ IsValue(ResistanceFromPositioning(c)) /\ Of(f) = ResistanceFromPositioning(c).value
    BY <1>2, KnownFormula DEF Formula
  <2> HIDE DEF c
  <2>2. IsValue(PositioningLevel(L)) /\ Of(f) = PositioningLevel(L).value
    BY <2>1 DEF ResistanceFromPositioning, Given, Unavailable, IsValue
  <2>3. L \in SUBSET OptionLegs /\ IsFiniteSet(L)
    <3>1. Now(c) \in SUBSET OptionLegs /\ IsFiniteSet(Now(c))
      BY <2>1, SliceIs DEF Now
    <3>2. L \in SUBSET Now(c)
      BY PartsOfChain
    <3> QED
      BY <3>1, <3>2, FS_Subset
  <2>4. \A l \in L : l.strike > report.state.spot
    BY <2>1 DEF AboveSpot
  <2> HIDE DEF L
  <2>5. Of(f) = PeakStrike(L) /\ Seen(PeakStrike(L))
    BY <1>0, <2>2
  <2> QED
    BY <2>3, <2>4, <2>5, PeakIs
<1> QED
  BY <1>1, <1>2

LEMMA PricesOf ==
    ASSUME NEW L \in SUBSET OptionLegs, IsFiniteSet(L)
    PROVE  LET paid == {l.ltp : l \in {o \in L : Seen(o.ltp)}}
           IN  paid \in SUBSET Int /\ IsFiniteSet(paid)
<1> DEFINE q == [l \in {o \in L : Seen(o.ltp)} |-> l.ltp]
           paid == {l.ltp : l \in {o \in L : Seen(o.ltp)}}
<1>1. IsFiniteSet(DOMAIN q)
  BY FS_Subset
<1>2. paid = {q[l] : l \in DOMAIN q}
  OBVIOUS
<1>3. paid \in SUBSET Int
  BY DEF OptionLegs, Maybe, Seen
<1> HIDE DEF q, paid
<1>4. IsFiniteSet(paid)
  BY <1>1, <1>2, RangeIsFinite
<1> QED
  BY <1>3, <1>4 DEF paid

(* The volume weighted price lies among the prices.                        *)
LEMMA VwapAgrees ==
    ASSUME FeatureInv, Known("VWAP")
    PROVE  LET paid == {l.ltp : l \in {o \in Slice(report.state, report.params.expiry) : Seen(o.ltp)}}
           IN  Within(Of("VWAP"), Whole(Min(paid)), Whole(Max(paid)))
<1> DEFINE f == "VWAP"
           c == Ctx(f)
           chain == Slice(report.state, report.params.expiry)
           paid == {l.ltp : l \in {o \in chain : Seen(o.ltp)}}
           L == {l \in Slice(c.state, c.params.expiry) : Seen(l.ltp) /\ Seen(l.volume)}
           spent == [l \in L |-> l.ltp * l.volume]
           traded == [l \in L |-> l.volume]
           v == SafeRatio(TotalOf(spent), TotalOf(traded))
<1>1. /\ c.state = report.state /\ c.params = report.params /\ report.state \in MarketStates
      /\ IsValue(Formula(f, c)) /\ Of(f) = Formula(f, c).value /\ Formula(f, c) = Vwap(c)
  <2>1. Formula(f, c) = Vwap(c)
    <3> HIDE DEF c
    <3> QED
      BY DEF Formula
  <2> QED
    BY <2>1, KnownFormula
<1> HIDE DEF c
<1>2. chain \in SUBSET OptionLegs /\ IsFiniteSet(chain)
  BY <1>1, SliceIs
<1>3. L # {} /\ Seen(v) /\ Of(f) = v
  <2>1. Formula(f, c) = Given(L # {}, "MISSING_INPUT", Defined(v))
    BY <1>1 DEF Vwap
  <2> DEFINE p == L # {}
  <2>2. p \in BOOLEAN /\ Formula(f, c) = Given(p, "MISSING_INPUT", Defined(v))
    BY <2>1
  <2> HIDE DEF p, v
  <2>3. p /\ IsValue(Defined(v)) /\ Formula(f, c) = Defined(v)
    BY <1>1, <2>2, GivenMeans
  <2>4. Seen(v) /\ Defined(v).value = v
    BY <2>3 DEF Defined, Given, Unavailable, Value, IsValue
  <2> QED
    BY <1>1, <2>3, <2>4 DEF p
<1>4. L \in SUBSET chain
  BY <1>1
<1>5. \A l \in L : l.ltp \in paid /\ l.volume \in Nat /\ l.ltp \in Int
  BY <1>1, <1>2 DEF OptionLegs, Maybe, Seen
<1> HIDE DEF L
<1>6. paid \in SUBSET Int /\ IsFiniteSet(paid) /\ IsFiniteSet(L)
  BY <1>2, <1>4, PricesOf, FS_Subset
<1>7. paid # {}
  BY <1>3, <1>5
<1> DEFINE lo == Min(paid)
           hi == Max(paid)
<1> HIDE DEF paid
<1>8. lo \in Int /\ hi \in Int /\ \A x \in paid : lo <= x /\ x <= hi
  BY <1>6, <1>7, MinOfNumbers, MaxOfNumbers
<1> HIDE DEF lo, hi
<1>9. \A l \in L : lo * l.volume <= l.ltp * l.volume /\ l.ltp * l.volume <= hi * l.volume /\ l.ltp * l.volume \in Int
  <2> TAKE l \in L
  <2> DEFINE x == l.ltp
             n == l.volume
  <2>1. x \in Int /\ n \in Nat /\ lo <= x /\ x <= hi
    BY <1>5, <1>8
  <2> HIDE DEF x, n
  <2>2. lo * n <= x * n /\ x * n <= hi * n /\ x * n \in Int
    BY <1>8, <2>1
  <2> QED
    BY <2>2 DEF x, n
<1>10. spent \in [L -> Int] /\ traded \in [L -> Nat] /\ traded \in [L -> Int]
  BY <1>5, <1>9
<1>11. \A l \in L : lo * traded[l] <= spent[l] /\ spent[l] <= hi * traded[l]
  BY <1>9
<1>12. v = IF TotalOf(traded) = 0 THEN Unseen ELSE Ratio(TotalOf(spent), TotalOf(traded))
  BY DEF SafeRatio
<1> HIDE DEF spent, traded, v
<1> DEFINE n == TotalOf(spent)
           d == TotalOf(traded)
<1>13. n \in Int /\ d \in Nat /\ lo * d <= n /\ n <= hi * d
  BY <1>6, <1>8, <1>10, <1>11, TotalsCompare, TotalOfNaturals
<1>14. d # 0 /\ v = Ratio(n, d)
  BY <1>3, <1>12 DEF Seen
<1> HIDE DEF n, d
<1>15. Within(v, Whole(lo), Whole(hi))
  BY <1>8, <1>13, <1>14, RatioWithin
<1> QED
  BY <1>3, <1>15 DEF lo, hi, paid

LEMMA StrikesOf ==
    ASSUME NEW L \in SUBSET OptionLegs, IsFiniteSet(L)
    PROVE  Strikes(L) \in SUBSET Int /\ IsFiniteSet(Strikes(L))
<1> DEFINE q == [l \in L |-> l.strike]
<1>1. IsFiniteSet(DOMAIN q)
  OBVIOUS
<1>2. Strikes(L) = {q[l] : l \in DOMAIN q}
  BY DEF Strikes
<1>3. Strikes(L) \in SUBSET Int
  BY DEF Strikes, OptionLegs
<1> HIDE DEF q
<1> QED
  BY <1>1, <1>2, <1>3, RangeIsFinite

(* The open interest at the strikes adds up to that of the legs.           *)
LEMMA OiByStrike ==
    ASSUME NEW L \in SUBSET OptionLegs, IsFiniteSet(L), NEW K, IsFiniteSet(K), Strikes(WithOi(L)) \subseteq K
    PROVE  /\ [k \in K |-> OiAt(L, k)] \in [K -> Nat]
           /\ TotalOf([k \in K |-> OiAt(L, k)]) = OiSum(L)
<1> DEFINE S == WithOi(L)
           group == [l \in S |-> l.strike]
           v == [l \in S |-> l.oi]
           totals == [k \in K |-> OiAt(L, k)]
<1>1. IsFiniteSet(S) /\ S \in SUBSET OptionLegs
  BY FS_Subset DEF WithOi
<1>2. v \in [S -> Int]
  BY DEF WithOi, OptionLegs, Maybe, Seen
<1>3. group \in [S -> K]
  BY DEF Strikes
<1>4. totals = GroupTotals(S, K, group, v)
  <2>1. ASSUME NEW k \in K
        PROVE  OiAt(L, k) = TotalOf([n \in {m \in S : group[m] = k} |-> v[n]])
    <3> DEFINE part == {l \in L : l.strike = k}
               same == {m \in S : group[m] = k}
    <3>1. WithOi(part) = same
      BY DEF WithOi
    <3>2. [l \in WithOi(part) |-> l.oi] = [n \in same |-> v[n]]
      BY <3>1
    <3>3. OiAt(L, k) = TotalOf([l \in WithOi(part) |-> l.oi])
      BY DEF OiAt, OiSum
    <3> HIDE DEF part, same, v
    <3>4. OiAt(L, k) = TotalOf([n \in same |-> v[n]])
      BY <3>2, <3>3
    <3> QED
      BY <3>4 DEF same
  <2> HIDE DEF group, v, S
  <2> QED
    BY <2>1 DEF GroupTotals
<1>5. OiSum(L) = TotalOf(v)
  BY DEF OiSum
<1>6. totals \in [K -> Nat]
  <2>1. ASSUME NEW k \in K PROVE OiAt(L, k) \in Nat
    <3> DEFINE part == {l \in L : l.strike = k}
    <3>1. part \in SUBSET OptionLegs /\ IsFiniteSet(part)
      BY FS_Subset
    <3> HIDE DEF part
    <3>2. OiSum(part) \in Nat
      BY <3>1, OiSumIs
    <3> QED
      BY <3>2 DEF OiAt, part
  <2> QED
    BY <2>1
<1> HIDE DEF S, group, v
<1>7. TotalOf(totals) = TotalOf(v)
  BY <1>1, <1>2, <1>3, <1>4, TotalOfGroups
<1> QED
  BY <1>5, <1>6, <1>7

LEMMA Absolute ==
    ASSUME NEW x \in Int
    PROVE  AbsInt(x) \in Nat /\ x <= AbsInt(x) /\ -x <= AbsInt(x)
BY DEF AbsInt

(* What is multiplied by less than w is less than w times its size.        *)
LEMMA ProductIsBounded ==
    ASSUME NEW x \in Int, NEW y \in Int, NEW w \in Int, -w <= y, y <= w
    PROVE  /\ x * y \in Int /\ (-w) * AbsInt(x) <= x * y /\ x * y <= w * AbsInt(x)
<1>1. CASE x >= 0
  <2>1. AbsInt(x) = x
    BY <1>1 DEF AbsInt
  <2>2. (-w) * x <= y * x /\ y * x <= w * x
    BY <1>1
  <2> QED
    BY <2>1, <2>2
<1>2. CASE x < 0
  <2> DEFINE z == -x
  <2>1. AbsInt(x) = z /\ z \in Int /\ z >= 0 /\ x = -z
    BY <1>2 DEF AbsInt
  <2> HIDE DEF z
  <2>2. (-w) * z <= y * z /\ y * z <= w * z /\ (-w) * z = -(w * z) /\ w * z \in Int /\ y * z \in Int
    BY <2>1
  <2>3. x * y = -(y * z)
    BY <2>1
  <2> QED
    BY <2>1, <2>2, <2>3
<1> QED
  BY <1>1, <1>2

(* No migration reaches further than from one end of the strikes to the    *)
(* other.                                                                  *)
LEMMA MigrationIsWithin ==
    ASSUME NEW N \in SUBSET OptionLegs, IsFiniteSet(N), NEW B \in SUBSET OptionLegs, IsFiniteSet(B),
           NEW lo \in Int, NEW hi \in Int, \A l \in N \cup B : lo <= l.strike /\ l.strike <= hi,
           IsValue(OiMigration(N, B))
    PROVE  Within(OiMigration(N, B).value, Whole(lo - hi), Whole(hi - lo))
<1> DEFINE K == Strikes(WithOi(N)) \cup Strikes(WithOi(B))
           after == [k \in K |-> OiAt(N, k)]
           before == [k \in K |-> OiAt(B, k)]
           delta(k) == OiAt(N, k) - OiAt(B, k)
           total == TotalOi(B)
           weighed == [k \in K |-> k * OiAt(B, k)]
           centre == TotalOf(weighed)
           sizes == [k \in K |-> AbsInt(delta(k))]
           moved == TotalOf(sizes)
           shifts == [k \in K |-> delta(k) * (k * total - centre)]
<1>1. /\ WithOi(N) # {} /\ WithOi(B) # {} /\ total # 0 /\ moved # 0
      /\ OiMigration(N, B).value = Ratio(TotalOf(shifts), total * moved)
  <2> DEFINE v == Value(Ratio(TotalOf(shifts), total * moved))
             rest == Given(total # 0 /\ moved # 0, "UNDEFINED", v)
             p == WithOi(N) # {} /\ WithOi(B) # {}
             r == total # 0 /\ moved # 0
  <2>1. OiMigration(N, B) = Given(p, "MISSING_INPUT", rest)
    BY DEF OiMigration
  <2>2. p \in BOOLEAN /\ r \in BOOLEAN /\ rest = Given(r, "UNDEFINED", v)
    OBVIOUS
  <2> HIDE DEF rest, p, r, v
  <2>3. p /\ IsValue(rest) /\ OiMigration(N, B) = rest
    BY <2>1, <2>2, GivenMeans
  <2>4. r /\ rest = v
    BY <2>2, <2>3, GivenMeans
  <2>5. OiMigration(N, B).value = Ratio(TotalOf(shifts), total * moved)
    <3> HIDE DEF shifts, total, moved
    <3> QED
      BY <2>3, <2>4, ValueMeans DEF v
  <2> QED
    BY <2>3, <2>4, <2>5 DEF p, r
<1>2. K \in SUBSET Int /\ IsFiniteSet(K)
  <2>1. WithOi(N) \in SUBSET OptionLegs /\ WithOi(B) \in SUBSET OptionLegs
    BY DEF WithOi
  <2>2. IsFiniteSet(WithOi(N)) /\ IsFiniteSet(WithOi(B))
    BY FS_Subset DEF WithOi
  <2> QED
    BY <2>1, <2>2, StrikesOf, FS_Union
<1>3. \A k \in K : lo <= k /\ k <= hi
  BY DEF Strikes, WithOi
<1>4. Strikes(WithOi(N)) \subseteq K /\ Strikes(WithOi(B)) \subseteq K
  OBVIOUS
<1> HIDE DEF K
<1>5. after \in [K -> Nat] /\ before \in [K -> Nat] /\ TotalOf(before) = OiSum(B)
  BY <1>2, <1>4, OiByStrike
<1>6. total = OiSum(B) /\ total \in Nat /\ total # 0
  BY <1>1, OiSumIs DEF TotalOi
<1>7. \A k \in K : OiAt(N, k) \in Nat /\ OiAt(B, k) \in Nat
  <2> TAKE k \in K
  <2>1. after[k] = OiAt(N, k) /\ before[k] = OiAt(B, k)
    OBVIOUS
  <2> HIDE DEF after, before
  <2> QED
    BY <1>5, <2>1
<1>8. \A k \in K : lo * OiAt(B, k) <= k * OiAt(B, k) /\ k * OiAt(B, k) <= hi * OiAt(B, k) /\ k * OiAt(B, k) \in Int
  <2> TAKE k \in K
  <2> DEFINE n == OiAt(B, k)
  <2>1. n \in Nat /\ k \in Int /\ lo <= k /\ k <= hi
    BY <1>2, <1>3, <1>7
  <2> HIDE DEF n
  <2>2. lo * n <= k * n /\ k * n <= hi * n /\ k * n \in Int
    BY <2>1
  <2> QED
    BY <2>2 DEF n
<1>9. centre \in Int /\ lo * total <= centre /\ centre <= hi * total
  <2>1. weighed \in [K -> Int] /\ before \in [K -> Int]
    BY <1>5, <1>8
  <2>2. \A k \in K : lo * before[k] <= weighed[k] /\ weighed[k] <= hi * before[k]
    BY <1>8
  <2> HIDE DEF weighed, before
  <2> QED
    BY <1>2, <1>5, <1>6, <2>1, <2>2, TotalsCompare
<1> DEFINE w == (hi - lo) * total
<1> HIDE DEF centre, total, weighed, before, after
<1>10. w \in Int /\ -w = (lo - hi) * total
  BY <1>6
<1>11. \A k \in K : k * total - centre \in Int /\ -w <= k * total - centre /\ k * total - centre <= w
  <2> TAKE k \in K
  <2>1. k \in Int /\ lo <= k /\ k <= hi
    BY <1>2, <1>3
  <2>2. lo * total <= k * total /\ k * total <= hi * total /\ k * total \in Int
    BY <1>6, <2>1
  <2>3. lo * total \in Int /\ hi * total \in Int /\ w = hi * total - lo * total
    BY <1>6
  <2> HIDE DEF w
  <2> QED
    BY <1>9, <1>10, <2>2, <2>3
<1> HIDE DEF w
<1>12. \A k \in K : /\ delta(k) \in Int /\ shifts[k] \in Int /\ sizes[k] \in Nat
                    /\ (-w) * sizes[k] <= shifts[k] /\ shifts[k] <= w * sizes[k]
  <2> TAKE k \in K
  <2>1. delta(k) \in Int
    BY <1>7
  <2> DEFINE x == delta(k)
             y == k * total - centre
  <2>2. shifts[k] = x * y /\ sizes[k] = AbsInt(x)
    OBVIOUS
  <2>3. x \in Int /\ y \in Int /\ -w <= y /\ y <= w
    BY <1>11, <2>1
  <2> HIDE DEF x, y, shifts, sizes
  <2>4. /\ x * y \in Int /\ (-w) * AbsInt(x) <= x * y /\ x * y <= w * AbsInt(x)
    BY <1>10, <2>3, ProductIsBounded
  <2>5. AbsInt(x) \in Nat
    BY <2>3, Absolute
  <2> QED
    BY <2>1, <2>2, <2>4, <2>5
<1>13. shifts \in [K -> Int] /\ sizes \in [K -> Nat] /\ sizes \in [K -> Int]
  BY <1>12
<1> HIDE DEF shifts, sizes
<1> DEFINE n == TotalOf(shifts)
<1>14. n \in Int /\ moved \in Nat /\ (-w) * moved <= n /\ n <= w * moved
  <2>1. -w \in Int
    BY <1>10
  <2>2. n \in Int /\ moved \in Int /\ (-w) * moved <= n /\ n <= w * moved
    BY <1>2, <1>10, <1>12, <1>13, <2>1, TotalsCompare
  <2>3. moved \in Nat
    BY <1>2, <1>13, TotalOfNaturals
  <2> QED
    BY <2>2, <2>3
<1>15. moved # 0 /\ OiMigration(N, B).value = Ratio(n, total * moved)
  BY <1>1
<1> HIDE DEF n, moved
<1> DEFINE d == total * moved
<1>16. d \in Int /\ d > 0
  BY <1>6, <1>14, <1>15
<1>17. (-w) * moved = (lo - hi) * d /\ w * moved = (hi - lo) * d
  <2>1. w * moved = ((hi - lo) * total) * moved
    BY DEF w
  <2>2. (-w) * moved = ((lo - hi) * total) * moved
    BY <1>10
  <2> QED
    BY <1>6, <1>14, <2>1, <2>2
<1>18. (lo - hi) * d <= n /\ n <= (hi - lo) * d
  BY <1>14, <1>17
<1> HIDE DEF d
<1>19. lo - hi \in Int /\ hi - lo \in Int
  OBVIOUS
<1>20. Within(Ratio(n, d), Whole(lo - hi), Whole(hi - lo))
  BY <1>14, <1>16, <1>18, <1>19, RatioWithin
<1> QED
  BY <1>15, <1>20 DEF d

LEMMA MigrationsAgree ==
    ASSUME FeatureInv, NEW f \in {"PUT_OI_MIGRATION", "CALL_OI_MIGRATION"}, Known(f)
    PROVE  LET chain == Slice(report.state, report.params.expiry)
               then == Slice(Reference("PUT_OI_MIGRATION"), report.params.expiry)
               K == Strikes(chain) \cup Strikes(then)
           IN  Within(Of(f), Whole(Min(K) - Max(K)), Whole(Max(K) - Min(K)))
<1> DEFINE c == Ctx(f)
           chain == Slice(report.state, report.params.expiry)
           then == Slice(Reference("PUT_OI_MIGRATION"), report.params.expiry)
           K == Strikes(chain) \cup Strikes(then)
<1>1. Lookback(f) = 1 /\ Lookback("PUT_OI_MIGRATION") = 1
  BY DEF Lookback, OiOverWindow
<1>2. /\ c.state = report.state /\ c.history = report.history /\ c.params = report.params
      /\ c.state \in MarketStates /\ c.history \in Seq(MarketStates)
      /\ Covers(c, 1) /\ IsValue(Formula(f, c)) /\ Of(f) = Formula(f, c).value
  BY <1>1, KnownFormula
<1> HIDE DEF c
<1>3. Now(c) = chain /\ Then(c, 1) = then
  BY <1>1, <1>2 DEF Now, Then, Reference, Reported, ReferenceState
<1>4. ReferenceState(c, 1) \in MarketStates
  BY <1>2, ReferenceIs DEF Covers
<1>5. /\ chain \in SUBSET OptionLegs /\ IsFiniteSet(chain)
      /\ then \in SUBSET OptionLegs /\ IsFiniteSet(then)
  BY <1>2, <1>3, <1>4, SliceIs DEF Now, Then
<1> HIDE DEF chain, then
<1>6. PICK N \in SUBSET chain, B \in SUBSET then :
          Formula(f, c) = OiMigration(N, B)
  <2>1. CASE f = "PUT_OI_MIGRATION"
    <3>1. Formula(f, c) = OiMigration(Puts(chain), Puts(then))
      BY <1>3, <2>1 DEF Formula
    <3> QED
      BY <3>1, PartsOfChain
  <2>2. CASE f = "CALL_OI_MIGRATION"
    <3>1. Formula(f, c) = OiMigration(Calls(chain), Calls(then))
      BY <1>3, <2>2 DEF Formula
    <3> QED
      BY <3>1, PartsOfChain
  <2> QED
    BY <2>1, <2>2
<1>7. N \in SUBSET OptionLegs /\ IsFiniteSet(N) /\ B \in SUBSET OptionLegs /\ IsFiniteSet(B)
  BY <1>5, FS_Subset
<1>8. K \in SUBSET Int /\ IsFiniteSet(K)
  BY <1>5, StrikesOf, FS_Union
<1>9. \A l \in N \cup B : l.strike \in K
  BY DEF Strikes
<1>10. K # {}
  <2>0. IsValue(OiMigration(N, B))
    BY <1>2, <1>6
  <2>1. WithOi(N) # {}
    BY <2>0 DEF OiMigration, Given, Unavailable, IsValue
  <2>2. PICK l : l \in N
    BY <2>1 DEF WithOi
  <2> QED
    BY <1>9, <2>2
<1> HIDE DEF K
<1> DEFINE lo == Min(K)
           hi == Max(K)
<1>11. lo \in Int /\ hi \in Int /\ \A k \in K : lo <= k /\ k <= hi
  BY <1>8, <1>10, MinOfNumbers, MaxOfNumbers
<1> HIDE DEF lo, hi
<1>12. \A l \in N \cup B : lo <= l.strike /\ l.strike <= hi
  BY <1>9, <1>11
<1>13. Within(Of(f), Whole(lo - hi), Whole(hi - lo))
  BY <1>2, <1>6, <1>7, <1>11, <1>12, MigrationIsWithin
<1> QED
  BY <1>13 DEF lo, hi, K, chain, then
-----------------------------------------------------------------------------
(* The recursion of At, on the positions up to m.                          *)
KeptOf(kept, q, N, n) ==
    IF n = 0 THEN <<>> ELSE IF n \in N THEN Append(kept[n - 1], q[n]) ELSE kept[n - 1]

IsKept(q, N, m, kept) == kept = [n \in 0 .. m |-> KeptOf(kept, q, N, n)]

LEMMA KeptExists ==
    ASSUME NEW q, NEW N, NEW m \in Nat
    PROVE  \E kept : IsKept(q, N, m, kept)
<1> DEFINE T == {n \in Nat : ~\E kept : IsKept(q, N, n, kept)}
<1> SUFFICES ASSUME T # {} PROVE FALSE
  OBVIOUS
<1>1. PICK n \in T : \A k \in T : n <= k
  <2>1. T \in SUBSET Nat
    OBVIOUS
  <2> HIDE DEF T
  <2> QED
    BY <2>1, LeastNumber
<1>2. n \in Nat /\ ~\E kept : IsKept(q, N, n, kept)
  OBVIOUS
<1>3. CASE n = 0
  <2> DEFINE kept == [k \in 0 .. 0 |-> <<>>]
  <2>1. kept = [k \in 0 .. 0 |-> KeptOf(kept, q, N, k)]
    BY DEF KeptOf
  <2> HIDE DEF kept
  <2> QED
    BY <1>2, <1>3, <2>1 DEF IsKept
<1>4. CASE n # 0
  <2>1. n - 1 \in Nat /\ n - 1 < n
    BY <1>2, <1>4
  <2>2. PICK g : IsKept(q, N, n - 1, g)
    <3>1. n - 1 \notin T
      <4> HIDE DEF T
      <4> QED
        BY <1>1, <1>2, <2>1
    <3> QED
      BY <2>1, <3>1
  <2> DEFINE kept == [k \in 0 .. n |-> IF k = n THEN KeptOf(g, q, N, n) ELSE g[k]]
  <2>3. \A k \in 0 .. n - 1 : kept[k] = g[k] /\ g[k] = KeptOf(g, q, N, k)
    BY <1>2, <2>1, <2>2 DEF IsKept
  <2>4. \A k \in 0 .. n : kept[k] = KeptOf(kept, q, N, k)
    <3> TAKE k \in 0 .. n
    <3>1. kept[k] = KeptOf(g, q, N, k)
      <4>1. CASE k = n
        BY <4>1
      <4>2. CASE k # n
        <5>1. k \in 0 .. n - 1
          BY <1>2, <4>2
        <5> QED
          BY <2>3, <5>1
      <4> QED
        BY <4>1, <4>2
    <3>2. k # 0 => kept[k - 1] = g[k - 1]
      BY <1>2, <2>3
    <3> HIDE DEF kept
    <3> QED
      BY <3>1, <3>2 DEF KeptOf
  <2>5. DOMAIN kept = 0 .. n /\ kept = [k \in 0 .. n |-> kept[k]]
    OBVIOUS
  <2> HIDE DEF kept
  <2>6. kept = [k \in 0 .. n |-> KeptOf(kept, q, N, k)]
    BY <2>4, <2>5
  <2> QED
    BY <1>2, <2>6 DEF IsKept
<1> QED
  BY <1>3, <1>4

(* What is kept is a sequence of exactly what stands at the positions.     *)
KeepsThem(q, N, n, s) ==
    /\ \A R : {q[k] : k \in N \cap (1 .. n)} \subseteq R => s \in Seq(R)
    /\ \A k \in N \cap (1 .. n) : \E j \in DOMAIN s : s[j] = q[k]

LEMMA KeptKeeps ==
    ASSUME NEW q, NEW N, NEW m \in Nat, NEW kept, IsKept(q, N, m, kept), NEW n \in 0 .. m
    PROVE  KeepsThem(q, N, n, kept[n])
<1> DEFINE T == {k \in Nat : k <= m /\ ~KeepsThem(q, N, k, kept[k])}
<1> SUFFICES ASSUME T # {} PROVE FALSE
  OBVIOUS
<1>1. PICK b \in T : \A k \in T : b <= k
  <2>1. T \in SUBSET Nat
    OBVIOUS
  <2> HIDE DEF T
  <2> QED
    BY <2>1, LeastNumber
<1>2. b \in Nat /\ b <= m /\ ~KeepsThem(q, N, b, kept[b])
  OBVIOUS
<1>3. kept[b] = KeptOf(kept, q, N, b)
  BY <1>2 DEF IsKept
<1>4. b # 0
  <2> SUFFICES ASSUME b = 0 PROVE FALSE
    OBVIOUS
  <2>1. kept[b] = <<>> /\ 1 .. b = {}
    BY <1>3 DEF KeptOf
  <2>2. \A R : <<>> \in Seq(R)
    OBVIOUS
  <2> QED
    BY <1>2, <2>1, <2>2 DEF KeepsThem
<1> DEFINE s == kept[b - 1]
           X == {q[k] : k \in N \cap (1 .. b)}
<1>5. KeepsThem(q, N, b - 1, s)
  <2>1. b - 1 \in Nat /\ b - 1 <= m /\ b - 1 < b
    BY <1>2, <1>4
  <2>2. b - 1 \notin T
    <3> HIDE DEF T
    <3> QED
      BY <1>1, <1>2, <2>1
  <2> QED
    BY <2>1, <2>2
<1>6. \A k : k \in 1 .. b <=> k \in 1 .. b - 1 \/ k = b
  BY <1>2, <1>4
<1>7. {q[k] : k \in N \cap (1 .. b - 1)} \subseteq X
  BY <1>6
<1>8. CASE b \in N
  <2>1. kept[b] = Append(s, q[b])
    BY <1>3, <1>4, <1>8 DEF KeptOf
  <2>2. q[b] \in X
    BY <1>2, <1>4, <1>8
  <2>3. ASSUME NEW R, X \subseteq R PROVE kept[b] \in Seq(R)
    <3>1. s \in Seq(R)
      <4> HIDE DEF X, s
      <4> QED
        BY <1>5, <1>7, <2>3 DEF KeepsThem
    <3> HIDE DEF X, s
    <3> QED
      BY <2>1, <2>2, <2>3, <3>1
  <2>4. s \in Seq(X)
    <3> HIDE DEF X, s
    <3> QED
      BY <1>5, <1>7 DEF KeepsThem
  <2>5. ASSUME NEW k \in N \cap (1 .. b) PROVE \E j \in DOMAIN kept[b] : kept[b][j] = q[k]
    <3> DEFINE t == Append(s, q[b])
    <3> HIDE DEF X, s
    <3>1. /\ Len(s) \in Nat /\ DOMAIN s = 1 .. Len(s) /\ DOMAIN t = 1 .. Len(s) + 1
          /\ t[Len(s) + 1] = q[b] /\ \A j \in 1 .. Len(s) : t[j] = s[j]
      BY <2>2, <2>4
    <3> HIDE DEF t
    <3>2. CASE k = b
      <4>1. Len(s) + 1 \in DOMAIN t
        BY <3>1
      <4> QED
        BY <2>1, <3>1, <3>2, <4>1 DEF t
    <3>3. CASE k # b
      <4>1. PICK j \in DOMAIN s : s[j] = q[k]
        BY <1>5, <1>6, <2>5, <3>3 DEF KeepsThem
      <4>2. j \in DOMAIN t /\ t[j] = q[k]
        BY <3>1, <4>1
      <4> QED
        BY <2>1, <4>2 DEF t
    <3> QED
      BY <3>2, <3>3
  <2> QED
    BY <1>2, <2>3, <2>5 DEF KeepsThem
<1>9. CASE b \notin N
  <2>1. kept[b] = s
    BY <1>3, <1>4, <1>9 DEF KeptOf
  <2>2. N \cap (1 .. b) = N \cap (1 .. b - 1)
    BY <1>6, <1>9
  <2> QED
    BY <1>2, <1>5, <2>1, <2>2 DEF KeepsThem
<1> QED
  BY <1>8, <1>9

LEMMA AtIs ==
    ASSUME NEW q, NEW N, Len(q) \in Nat
    PROVE  KeepsThem(q, N, Len(q), At(q, N))
<1> DEFINE m == Len(q)
           kept == CHOOSE g : IsKept(q, N, m, g)
<1>1. IsKept(q, N, m, kept)
  BY KeptExists
<1>2. At(q, N) = kept[m]
  BY Zenon DEF At, IsKept, KeptOf
<1> HIDE DEF kept
<1>3. m \in 0 .. m
  OBVIOUS
<1> QED
  BY <1>1, <1>2, <1>3, KeptKeeps

(* The series is the history and then the state.                           *)
LEMMA SeriesIs ==
    ASSUME NEW c, c.history \in Seq(MarketStates), c.state \in MarketStates
    PROVE  /\ Series(c) \in Seq(MarketStates) /\ Len(Series(c)) = Len(c.history) + 1 /\ Len(c.history) \in Nat
           /\ DOMAIN Series(c) = 1 .. Len(c.history) + 1
           /\ Series(c)[Len(c.history) + 1] = c.state
           /\ \A n \in DOMAIN c.history : n \in DOMAIN Series(c) /\ Series(c)[n] = c.history[n]
<1> DEFINE h == c.history
           s == c.state
<1>1. h \in Seq(MarketStates) /\ s \in MarketStates /\ Series(c) = Append(h, s)
  BY DEF Series
<1> HIDE DEF h, s
<1>2. /\ Append(h, s) \in Seq(MarketStates) /\ Len(Append(h, s)) = Len(h) + 1 /\ Len(h) \in Nat
      /\ DOMAIN Append(h, s) = 1 .. Len(h) + 1 /\ Append(h, s)[Len(h) + 1] = s
      /\ DOMAIN h = 1 .. Len(h) /\ \A n \in 1 .. Len(h) : Append(h, s)[n] = h[n]
  BY <1>1
<1>3. \A n \in DOMAIN h : n \in 1 .. Len(h) + 1 /\ Append(h, s)[n] = h[n]
  BY <1>2
<1> HIDE <1>3
<1> QED
  BY <1>1, <1>2, <1>3 DEF h, s

(* The prices are those of the states of the series at which one was seen. *)
LEMMA PricesAre ==
    ASSUME NEW c, c.history \in Seq(MarketStates), c.state \in MarketStates
    PROVE  /\ Range(Prices(c)) \in SUBSET Int /\ IsFiniteSet(Range(Prices(c)))
           /\ \A n \in DOMAIN Series(c) : Seen(Series(c)[n].spot) => Series(c)[n].spot \in Range(Prices(c))
<1> DEFINE q == Series(c)
           N == {n \in DOMAIN q : Seen(q[n].spot)}
           seen == At(q, N)
           R == {s \in MarketStates : Seen(s.spot)}
           P == Prices(c)
<1>1. q \in Seq(MarketStates) /\ Len(q) \in Nat /\ DOMAIN q = 1 .. Len(q)
  BY SeriesIs
<1>2. P = [n \in DOMAIN seen |-> seen[n].spot]
  BY DEF Prices
<1> HIDE DEF q, P
<1>3. KeepsThem(q, N, Len(q), seen)
  <2> HIDE DEF N
  <2> QED
    BY <1>1, AtIs
<1>4. {q[k] : k \in N \cap (1 .. Len(q))} \subseteq R
  BY <1>1
<1>5. seen \in Seq(R)
  <2> HIDE DEF N, R, seen
  <2> QED
    BY <1>3, <1>4 DEF KeepsThem
<1>6. \A k \in N : \E j \in DOMAIN seen : seen[j] = q[k]
  <2>1. N \cap (1 .. Len(q)) = N
    BY <1>1
  <2> HIDE DEF N, seen
  <2> QED
    BY <1>3, <2>1 DEF KeepsThem
<1> HIDE DEF seen
<1>7. \A n \in DOMAIN seen : seen[n].spot \in Int
  <2> TAKE n \in DOMAIN seen
  <2>1. seen[n] \in R
    <3> HIDE DEF R
    <3> QED
      BY <1>5
  <2> QED
    BY <2>1 DEF MarketStates, Readings, Maybe, Seen
<1>8. Range(P) = {P[n] : n \in DOMAIN P} /\ DOMAIN P = DOMAIN seen
  BY <1>2 DEF Range
<1>9. IsFiniteSet(DOMAIN P)
  <2>1. Len(seen) \in Nat /\ DOMAIN seen = 1 .. Len(seen)
    <3> HIDE DEF R
    <3> QED
      BY <1>5
  <2>2. IsFiniteSet(1 .. Len(seen))
    BY <2>1, FS_Interval
  <2> QED
    BY <1>8, <2>1, <2>2
<1>10. IsFiniteSet(Range(P))
  BY <1>8, <1>9, RangeIsFinite
<1>11. Range(P) \in SUBSET Int
  BY <1>2, <1>7, <1>8
<1>12. \A n \in DOMAIN q : Seen(q[n].spot) => q[n].spot \in Range(P)
  <2> SUFFICES ASSUME NEW n \in DOMAIN q, Seen(q[n].spot) PROVE q[n].spot \in Range(P)
    OBVIOUS
  <2>1. PICK j \in DOMAIN seen : seen[j] = q[n]
    BY <1>6
  <2> QED
    BY <1>2, <1>8, <2>1
<1> QED
  BY <1>10, <1>11, <1>12 DEF q, P

(* The move over the window is no larger than the range of its prices.     *)
LEMMA MomentumAgrees ==
    ASSUME FeatureInv, Known("MOMENTUM"), Known("RANGE")
    PROVE  AbsInt(Of("MOMENTUM")) <= Of("RANGE")
<1> DEFINE f == "MOMENTUM"
           c == Ctx(f)
           P == Range(Prices(c))
           s == c.state.spot
           r == ReferenceState(c, 1).spot
<1>1. /\ c.state \in MarketStates /\ c.history \in Seq(MarketStates) /\ Covers(c, 1)
      /\ IsValue(Momentum(c)) /\ Of(f) = Momentum(c).value
  BY KnownFormula DEF Formula, Lookback
<1>2. IsValue(PriceRange(c)) /\ Of("RANGE") = PriceRange(c).value
  <2>1. IsValue(Formula("RANGE", Ctx("RANGE"))) /\ Of("RANGE") = Formula("RANGE", Ctx("RANGE")).value
    BY KnownFormula
  <2>2. DependsOn(f) = {} /\ DependsOn("RANGE") = {}
    BY DEF DependsOn
  <2>3. Ctx("RANGE") = c
    BY <2>2, SameContext
  <2>4. Formula("RANGE", c) = PriceRange(c)
    BY DEF Formula
  <2> HIDE DEF c
  <2> QED
    BY <2>1, <2>3, <2>4
<1> HIDE DEF c
<1>3. Seen(s) /\ Seen(r) /\ Of(f) = s - r
  BY <1>1 DEF Momentum, Given, Unavailable, Value, IsValue
<1>4. P # {} /\ Of("RANGE") = Max(P) - Min(P)
  BY <1>2 DEF PriceRange, Given, Unavailable, Value, IsValue
<1>5. c.history # <<>>
  BY <1>1 DEF Covers
<1>6. s \in P /\ r \in P
  <2>1. PICK n \in DOMAIN c.history : ReferenceState(c, 1) = c.history[n]
    BY <1>1, <1>5, ReferenceStands
  <2>2. n \in DOMAIN Series(c) /\ Series(c)[n].spot = r
    BY <1>1, <2>1, SeriesIs
  <2>3. Len(c.history) + 1 \in DOMAIN Series(c) /\ Series(c)[Len(c.history) + 1].spot = s
    BY <1>1, SeriesIs
  <2>4. \A k \in DOMAIN Series(c) : Seen(Series(c)[k].spot) => Series(c)[k].spot \in P
    BY <1>1, PricesAre
  <2> HIDE DEF P, s, r
  <2>5. r \in P
    BY <1>3, <2>2, <2>4
  <2>6. s \in P
    BY <1>3, <2>3, <2>4
  <2> QED
    BY <2>5, <2>6
<1>7. P \in SUBSET Int /\ IsFiniteSet(P)
  BY <1>1, PricesAre
<1> HIDE DEF P, s, r
<1>8. Min(P) \in P /\ Max(P) \in P /\ \A x \in P : Min(P) <= x /\ x <= Max(P)
  BY <1>4, <1>7, MinOfNumbers, MaxOfNumbers
<1>9. /\ s \in Int /\ r \in Int /\ Min(P) \in Int /\ Max(P) \in Int
      /\ Min(P) <= s /\ s <= Max(P) /\ Min(P) <= r /\ r <= Max(P)
  BY <1>6, <1>7, <1>8
<1> QED
  BY <1>3, <1>4, <1>9 DEF AbsInt
-----------------------------------------------------------------------------
(* Over a common denominator, fractions compare as their values do.        *)
LEMMA ValuesCompare ==
    ASSUME NEW a \in FractionSet, NEW b \in FractionSet, NEW D \in Int, D > 0, NEW v \in Int, NEW w \in Int,
           Valued(a, D, v), Valued(b, D, w)
    PROVE  AtMost(a, b) <=> v <= w
<1> DEFINE m == a[1]
           n == b[1]
           p == a[2]
           q == b[2]
<1>1. m \in Int /\ n \in Int /\ p \in Int /\ p > 0 /\ q \in Int /\ q > 0
  BY FractionParts
<1>2. m * D = v * p /\ n * D = w * q
  BY DEF Valued
<1>3. AtMost(a, b) <=> m * q <= n * p
  BY DEF AtMost
<1> HIDE DEF m, n, p, q
<1> DEFINE x == m * q
           y == n * p
           r == p * q
<1>4. x \in Int /\ y \in Int /\ r \in Int /\ r > 0
  BY <1>1
<1>5. x * D = v * r /\ y * D = w * r
  <2>1. x * D = (m * D) * q /\ y * D = (n * D) * p
    BY <1>1
  <2>2. (v * p) * q = v * r /\ (w * q) * p = w * r
    BY <1>1
  <2> QED
    BY <1>2, <2>1, <2>2
<1>6. AtMost(a, b) <=> x <= y
  BY <1>3
<1> HIDE DEF x, y, r
<1>7. ASSUME v <= w PROVE x <= y
  <2>1. v * r <= w * r
    BY <1>4, <1>7
  <2>2. x * D <= y * D
    BY <1>5, <2>1
  <2>3. ASSUME x > y PROVE x * D > y * D
    BY <1>4, <2>3
  <2> QED
    BY <1>4, <2>2, <2>3
<1>8. ASSUME x <= y PROVE v <= w
  <2>1. x * D <= y * D
    BY <1>4, <1>8
  <2>2. v * r <= w * r
    BY <1>5, <2>1
  <2>3. ASSUME v > w PROVE v * r > w * r
    BY <1>4, <2>3
  <2> QED
    BY <1>4, <2>2, <2>3
<1> QED
  BY <1>6, <1>7, <1>8

LEMMA PositiveDenominator ==
    ASSUME NEW a \in FractionSet, NEW b \in FractionSet, NEW c \in FractionSet
    PROVE  \E D \in Int : \E u, v, w \in Int : D > 0 /\ Valued(a, D, u) /\ Valued(b, D, v) /\ Valued(c, D, w)
<1>1. PICK D \in Int \ {0} : \E u, v, w, x \in Int :
          Valued(a, D, u) /\ Valued(b, D, v) /\ Valued(c, D, w) /\ Valued(c, D, x)
  BY CommonDenominator
<1>2. PICK u \in Int, v \in Int, w \in Int : Valued(a, D, u) /\ Valued(b, D, v) /\ Valued(c, D, w)
  BY <1>1
<1>3. CASE D > 0
  BY <1>2, <1>3
<1>4. CASE D < 0
  <2>1. ASSUME NEW f \in FractionSet, NEW x \in Int, Valued(f, D, x) PROVE Valued(f, -D, -x)
    <3> DEFINE m == f[1]
               n == f[2]
    <3>1. m \in Int /\ n \in Int /\ m * D = x * n
      BY <2>1, FractionParts DEF Valued
    <3> HIDE DEF m, n
    <3>2. m * (-D) = -(m * D) /\ (-x) * n = -(x * n)
      BY <3>1
    <3>3. m * (-D) = (-x) * n
      BY <3>1, <3>2
    <3> QED
      BY <3>3 DEF Valued, m, n
  <2>2. Valued(a, -D, -u) /\ Valued(b, -D, -v) /\ Valued(c, -D, -w)
    BY <1>2, <2>1
  <2>3. -D \in Int /\ -D > 0 /\ -u \in Int /\ -v \in Int /\ -w \in Int
    BY <1>4
  <2> HIDE DEF Valued
  <2> QED
    BY <2>2, <2>3
<1> QED
  BY <1>1, <1>3, <1>4

LEMMA FractionsAreOrdered ==
    ASSUME NEW a \in FractionSet, NEW b \in FractionSet, NEW c \in FractionSet
    PROVE  /\ AtMost(a, b) \/ AtMost(b, a)
           /\ AtMost(a, b) /\ AtMost(b, c) => AtMost(a, c)
<1>1. PICK D \in Int : \E u, v, w \in Int :
          D > 0 /\ Valued(a, D, u) /\ Valued(b, D, v) /\ Valued(c, D, w)
  BY PositiveDenominator
<1>2. PICK u \in Int, v \in Int, w \in Int :
          D > 0 /\ Valued(a, D, u) /\ Valued(b, D, v) /\ Valued(c, D, w)
  BY <1>1
<1>3. /\ AtMost(a, b) <=> u <= v
      /\ AtMost(b, a) <=> v <= u
      /\ AtMost(b, c) <=> v <= w
      /\ AtMost(a, c) <=> u <= w
  BY <1>2, ValuesCompare
<1> QED
  BY <1>3

(* A finite set has a first element in an order.                           *)
LEMMA FirstInOrder ==
    ASSUME NEW S, IsFiniteSet(S), S # {}, NEW R,
           \A x \in S, y \in S : <<x, y>> \in R \/ <<y, x>> \in R,
           \A x \in S, y \in S, z \in S : <<x, y>> \in R /\ <<y, z>> \in R => <<x, z>> \in R
    PROVE  \E x \in S : \A y \in S : <<x, y>> \in R
<1> DEFINE Bad == {B \in SUBSET S : B # {} /\ ~(\E x \in B : \A y \in B : <<x, y>> \in R)}
<1>1. SUFFICES ASSUME Bad # {} PROVE FALSE
  BY <1>1
<1>2. PICK B \in Bad : \A C \in Bad : Cardinality(B) <= Cardinality(C)
  <2>1. Bad \in SUBSET SUBSET S
    OBVIOUS
  <2> HIDE DEF Bad
  <2> QED
    BY <1>1, <2>1, LeastSet
<1>3. PICK x : x \in B
  OBVIOUS
<1>4. Cardinality(B \ {x}) = Cardinality(B) - 1 /\ Cardinality(B) \in Nat
  BY <1>3, FS_Subset, FS_RemoveElement, FS_CardinalityType
<1>5. B \ {x} \notin Bad
  <2> HIDE DEF Bad
  <2> QED
    BY <1>2, <1>4
<1>6. CASE B \ {x} = {}
  <2>1. B = {x}
    BY <1>3, <1>6
  <2>2. <<x, x>> \in R
    BY <1>3
  <2> QED
    BY <1>2, <2>1, <2>2
<1>7. CASE B \ {x} # {}
  <2>1. PICK m \in B \ {x} : \A y \in B \ {x} : <<m, y>> \in R
    BY <1>5, <1>7
  <2>2. CASE <<m, x>> \in R
    BY <1>2, <2>1, <2>2
  <2>3. CASE <<x, m>> \in R
    <3>1. \A y \in B : <<x, y>> \in R
      BY <1>3, <2>1, <2>3
    <3> QED
      BY <1>2, <1>3, <3>1
  <2> QED
    BY <1>3, <2>1, <2>2, <2>3
<1> QED
  BY <1>6, <1>7

LEMMA LowestAndHighest ==
    ASSUME NEW q \in Seq(FractionSet), q # <<>>
    PROVE  /\ Lowest(q) \in Range(q) /\ \A v \in Range(q) : AtMost(Lowest(q), v)
           /\ Highest(q) \in Range(q) /\ \A v \in Range(q) : AtMost(v, Highest(q))
<1> DEFINE S == Range(q)
           up == {p \in S \X S : AtMost(p[1], p[2])}
           down == {p \in S \X S : AtMost(p[2], p[1])}
<1>1. Len(q) \in Nat /\ DOMAIN q = 1 .. Len(q) /\ 1 \in DOMAIN q
  OBVIOUS
<1>2. S = {q[n] : n \in DOMAIN q} /\ S # {} /\ S \subseteq FractionSet
  BY <1>1 DEF Range
<1>3. IsFiniteSet(S)
  <2>1. IsFiniteSet(DOMAIN q)
    BY <1>1, FS_Interval
  <2> HIDE DEF S
  <2> QED
    BY <1>2, <2>1, RangeIsFinite
<1> HIDE DEF S
<1>4. \A x \in S, y \in S : (<<x, y>> \in up <=> AtMost(x, y)) /\ (<<x, y>> \in down <=> AtMost(y, x))
  OBVIOUS
<1> HIDE DEF up, down
<1>5. \A x \in S, y \in S : AtMost(x, y) \/ AtMost(y, x)
  BY <1>2, FractionsAreOrdered
<1>6. \A x \in S, y \in S, z \in S : AtMost(x, y) /\ AtMost(y, z) => AtMost(x, z)
  BY <1>2, FractionsAreOrdered
<1>7. \E x \in S : \A y \in S : <<x, y>> \in up
  <2>1. \A x \in S, y \in S : <<x, y>> \in up \/ <<y, x>> \in up
    BY <1>4, <1>5
  <2>2. \A x \in S, y \in S, z \in S : <<x, y>> \in up /\ <<y, z>> \in up => <<x, z>> \in up
    BY <1>4, <1>6
  <2> QED
    BY <1>2, <1>3, <2>1, <2>2, FirstInOrder
<1>8. \E x \in S : \A y \in S : <<x, y>> \in down
  <2>1. \A x \in S, y \in S : <<x, y>> \in down \/ <<y, x>> \in down
    BY <1>4, <1>5
  <2>2. \A x \in S, y \in S, z \in S : <<x, y>> \in down /\ <<y, z>> \in down => <<x, z>> \in down
    BY <1>4, <1>6
  <2> QED
    BY <1>2, <1>3, <2>1, <2>2, FirstInOrder
<1>9. \E x \in S : \A y \in S : AtMost(x, y)
  BY <1>4, <1>7
<1>10. \E x \in S : \A y \in S : AtMost(y, x)
  BY <1>4, <1>8
<1> QED
  BY <1>9, <1>10 DEF Lowest, Highest, S

(* The place of a value between the lowest and the highest is within 0 and *)
(* 1, and at 1 it is the highest.                                          *)
LEMMA PlaceIs ==
    ASSUME NEW lo \in LowestTerms, NEW hi \in LowestTerms, NEW x \in LowestTerms, lo # hi,
           AtMost(lo, x), AtMost(x, hi)
    PROVE  LET place == Over(Minus(x, lo), Minus(hi, lo))
           IN  Within(place, Whole(0), Whole(1)) /\ (place = Whole(1) => x = hi)
<1>1. lo \in FractionSet /\ hi \in FractionSet /\ x \in FractionSet
  BY DEF LowestTerms
<1>2. PICK D \in Int : \E u, v, w \in Int :
          D > 0 /\ Valued(lo, D, u) /\ Valued(x, D, v) /\ Valued(hi, D, w)
  BY <1>1, PositiveDenominator
<1>3. PICK u \in Int, v \in Int, w \in Int :
          D > 0 /\ Valued(lo, D, u) /\ Valued(x, D, v) /\ Valued(hi, D, w)
  BY <1>2
<1>4. u <= v /\ v <= w
  BY <1>1, <1>3, ValuesCompare
<1>5. u # w
  BY <1>3, EqualByValue
<1> DEFINE m == Minus(x, lo)
           n == Minus(hi, lo)
<1>6. /\ m \in LowestTerms /\ Valued(m, D, v - u)
      /\ n \in LowestTerms /\ Valued(n, D, w - u)
  BY <1>1, <1>3, ValueOfMinus
<1> HIDE DEF m, n
<1>7. m \in FractionSet /\ n \in FractionSet
  BY <1>6 DEF LowestTerms
<1>8. /\ m[1] \in Int /\ m[2] \in Int /\ m[2] > 0
      /\ n[1] \in Int /\ n[2] \in Int /\ n[2] > 0
  BY <1>7, FractionParts
<1>9. m[1] >= 0 /\ n[1] > 0
  <2>1. m[1] * D = (v - u) * m[2] /\ n[1] * D = (w - u) * n[2]
    BY <1>6 DEF Valued
  <2> DEFINE a == m[1]
             b == n[1]
             p == m[2]
             q == n[2]
             i == v - u
             j == w - u
  <2>2. a \in Int /\ b \in Int /\ p \in Int /\ p > 0 /\ q \in Int /\ q > 0 /\ i \in Int /\ i >= 0 /\ j \in Int /\ j > 0
    BY <1>4, <1>5, <1>8
  <2>3. a * D = i * p /\ b * D = j * q
    BY <2>1
  <2> HIDE DEF a, b, p, q, i, j
  <2>4. i * p >= 0 /\ j * q > 0
    BY <2>2
  <2>5. a < 0 => a * D < 0
    BY <1>3, <2>2
  <2>6. b <= 0 => b * D <= 0
    BY <1>3, <2>2
  <2> QED
    BY <2>2, <2>3, <2>4, <2>5, <2>6 DEF a, b
<1>10. m[1] * n[2] <= n[1] * m[2]
  <2>1. AtMost(m, n)
    <3>1. v - u \in Int /\ w - u \in Int /\ v - u <= w - u
      BY <1>4
    <3> QED
      BY <1>3, <1>6, <1>7, <3>1, ValuesCompare
  <2> QED
    BY <2>1 DEF AtMost
<1> DEFINE num == m[1] * n[2]
           den == m[2] * n[1]
<1>11. num \in Int /\ den \in Int /\ den > 0 /\ 0 <= num /\ num <= den
  <2> DEFINE a == m[1]
             b == n[1]
             p == m[2]
             q == n[2]
  <2>1. /\ a \in Int /\ b \in Int /\ p \in Int /\ p > 0 /\ q \in Int /\ q > 0 /\ a >= 0 /\ b > 0
        /\ a * q <= b * p
    BY <1>8, <1>9, <1>10
  <2> HIDE DEF a, b, p, q
  <2>2. a * q \in Int /\ p * b \in Int /\ p * b > 0 /\ 0 <= a * q /\ a * q <= p * b
    BY <2>1
  <2> QED
    BY <2>2 DEF a, b, p, q
<1>12. Over(m, n) = Ratio(num, den)
  BY DEF Over
<1>13. Over(m, n) = Whole(1) => m = n
  <2> SUFFICES ASSUME Over(m, n) = Whole(1) PROVE m = n
    OBVIOUS
  <2> HIDE DEF num, den
  <2>1. den # 0
    BY <1>11
  <2>2. Ratio(num, den)[1] * den = num * Ratio(num, den)[2]
    BY <1>11, <2>1, RatioIs
  <2>3. Ratio(num, den)[1] = 1 /\ Ratio(num, den)[2] = 1
    BY <1>12 DEF Whole
  <2>4. den = num
    BY <1>11, <2>2, <2>3
  <2>5. m[1] * n[2] = n[1] * m[2]
    BY <1>8, <2>4 DEF num, den
  <2> QED
    BY <1>6, <2>5, LowestIsUnique
<1>14. m = n => x = hi
  <2> SUFFICES ASSUME m = n PROVE x = hi
    OBVIOUS
  <2>1. v - u = w - u
    BY <1>3, <1>6, <1>7, OneValue
  <2>2. v = w
    BY <2>1
  <2> QED
    BY <1>1, <1>3, <2>2, EqualByValue
<1> HIDE DEF num, den
<1>15. Within(Over(m, n), Whole(0), Whole(1))
  <2>1. 0 * den <= num /\ num <= 1 * den
    BY <1>11
  <2> QED
    BY <1>11, <1>12, <2>1, RatioWithin
<1> QED
  BY <1>13, <1>14, <1>15 DEF m, n

LEMMA IvsAre ==
    ASSUME NEW c, c.history \in Seq(MarketStates), c.state \in MarketStates
    PROVE  AtmIvs(c) \in Seq(LowestTerms)
<1> DEFINE q == Series(c)
           e == c.params.expiry
           N == {n \in DOMAIN q : Seen(AtmIvOf(q[n], e))}
           usable == At(q, N)
           R == {s \in MarketStates : Seen(AtmIvOf(s, e))}
<1>1. q \in Seq(MarketStates) /\ Len(q) \in Nat /\ DOMAIN q = 1 .. Len(q)
  BY SeriesIs
<1>2. AtmIvs(c) = [n \in DOMAIN usable |-> AtmIvOf(usable[n], e)]
  BY DEF AtmIvs
<1> HIDE DEF q
<1>3. KeepsThem(q, N, Len(q), usable)
  <2> HIDE DEF N
  <2> QED
    BY <1>1, AtIs
<1>4. {q[k] : k \in N \cap (1 .. Len(q))} \subseteq R
  BY <1>1
<1>5. usable \in Seq(R)
  <2> HIDE DEF N, R, usable
  <2> QED
    BY <1>3, <1>4 DEF KeepsThem
<1> HIDE DEF usable
<1>6. \A s \in R : AtmIvOf(s, e) \in LowestTerms
  BY AtmIvIs
<1>7. Len(usable) \in Nat /\ DOMAIN usable = 1 .. Len(usable) /\ \A n \in DOMAIN usable : usable[n] \in R
  <2> HIDE DEF R
  <2> QED
    BY <1>5
<1> HIDE DEF R
<1>8. \A n \in 1 .. Len(usable) : AtmIvOf(usable[n], e) \in LowestTerms
  BY <1>6, <1>7
<1>9. AtmIvs(c) = [n \in 1 .. Len(usable) |-> AtmIvOf(usable[n], e)]
  BY <1>2, <1>7
<1>10. AtmIvs(c) \in [1 .. Len(usable) -> LowestTerms]
  BY <1>8, <1>9
<1> QED
  BY <1>7, <1>10

(* The rank is a share, and at the top nothing observed was higher.        *)
LEMMA RankAgrees ==
    ASSUME FeatureInv, Known("IV_RANK")
    PROVE  /\ Within(Of("IV_RANK"), Whole(0), Whole(1))
           /\ Of("IV_RANK") = Whole(1) => Of("IV_PERCENTILE") = Whole(1)
<1> DEFINE f == "IV_RANK"
           g == "IV_PERCENTILE"
           c == Ctx(f)
           ivs == AtmIvs(c)
           lo == Lowest(ivs)
           hi == Highest(ivs)
           place == Over(Minus(Last(ivs), lo), Minus(hi, lo))
<1>1. /\ c.state \in MarketStates /\ c.history \in Seq(MarketStates) /\ Seen(report.params.expiry)
      /\ IsValue(IvRank(c)) /\ Of(f) = IvRank(c).value
  BY KnownFormula DEF Formula, NeedsExpiry
<1> HIDE DEF c
<1>2. Len(ivs) >= MinPoints /\ lo # hi /\ Of(f) = place
  <2> DEFINE v == Value(place)
             p == Len(ivs) >= MinPoints
             r == lo # hi
             rest == Given(r, "UNDEFINED", v)
  <2>1. IvRank(c) = Given(p, "INSUFFICIENT_HISTORY", rest)
    BY DEF IvRank
  <2>2. p \in BOOLEAN /\ r \in BOOLEAN /\ rest = Given(r, "UNDEFINED", v)
    OBVIOUS
  <2> HIDE DEF rest, p, r, v
  <2>3. p /\ IsValue(rest) /\ IvRank(c) = rest
    BY <1>1, <2>1, <2>2, GivenMeans
  <2>4. r /\ rest = v
    BY <2>2, <2>3, GivenMeans
  <2> QED
    BY <1>1, <2>3, <2>4, ValueMeans DEF p, r, v
<1>3. ivs \in Seq(LowestTerms)
  BY <1>1, IvsAre
<1> HIDE DEF ivs
<1>4. MinPoints \in Nat \ {0}
  BY FeatureAssumption
<1>5. /\ Len(ivs) \in Nat /\ Len(ivs) > 0 /\ ivs # <<>> /\ DOMAIN ivs = 1 .. Len(ivs)
      /\ Last(ivs) = ivs[Len(ivs)] /\ Len(ivs) \in DOMAIN ivs /\ \A n \in DOMAIN ivs : ivs[n] \in LowestTerms
  BY <1>2, <1>3, <1>4 DEF Last
<1>6. /\ lo \in Range(ivs) /\ \A v \in Range(ivs) : AtMost(lo, v)
      /\ hi \in Range(ivs) /\ \A v \in Range(ivs) : AtMost(v, hi)
  <2>1. ivs \in Seq(FractionSet)
    <3>1. LowestTerms \subseteq FractionSet
      BY DEF LowestTerms
    <3> QED
      BY <1>3, <3>1
  <2> QED
    BY <1>5, <2>1, LowestAndHighest
<1>7. Range(ivs) \subseteq LowestTerms /\ \A n \in DOMAIN ivs : ivs[n] \in Range(ivs)
  BY <1>5 DEF Range
<1> DEFINE last == Last(ivs)
<1>8. last \in Range(ivs)
  BY <1>5, <1>7
<1> HIDE DEF lo, hi, last
<1>9. Within(place, Whole(0), Whole(1)) /\ (place = Whole(1) => last = hi)
  BY <1>2, <1>6, <1>7, <1>8, PlaceIs DEF last
<1>10. ASSUME place = Whole(1) PROVE Of(g) = Whole(1)
  <2> DEFINE N == {n \in DOMAIN ivs : AtMost(ivs[n], Last(ivs))}
  <2>1. N = 1 .. Len(ivs)
    BY <1>5, <1>6, <1>7, <1>9, <1>10 DEF last
  <2>2. Cardinality(N) = Len(ivs)
    <3> DEFINE len == Len(ivs)
    <3>1. len \in Int /\ len > 0
      BY <1>5
    <3> HIDE DEF len
    <3>2. Cardinality(1 .. len) = len
      BY <3>1, FS_Interval
    <3> QED
      BY <2>1, <3>2 DEF len
  <2> HIDE DEF N
  <2>3. Ratio(Cardinality(N), Len(ivs)) = Whole(1)
    <3>1. Len(ivs) # 0 /\ Len(ivs) <= Len(ivs)
      BY <1>5
    <3> QED
      BY <1>5, <2>2, <3>1, PartOfWhole
  <2>4. IvPercentile(c) = Value(Ratio(Cardinality(N), Len(ivs)))
    BY <1>2 DEF IvPercentile, Given, N, ivs
  <2>5. Formula(g, c) = IvPercentile(c)
    BY DEF Formula
  <2>6. IsValue(Formula(g, c)) /\ Formula(g, c).value = Whole(1)
    BY <2>3, <2>4, <2>5, ValueMeans
  <2>7. /\ g \in FeatureIds /\ DependsOn(f) = {} /\ DependsOn(g) = {} /\ Lookback(g) = Lookback(f)
        /\ g \notin NeedsSlice
    BY DEF FeatureIds, OfIv, OiWindows, OiOfExpiry, OiOverWindow, DependsOn, Lookback, NeedsSlice
  <2>8. Requirements(g) \subseteq Requirements(f)
    <3>1. f \in OfIv /\ g \in OfIv
      BY DEF OfIv
    <3> QED
      BY <3>1 DEF Requirements
  <2> QED
    BY <1>1, <2>6, <2>7, <2>8, KnownToo DEF c
<1> QED
  BY <1>2, <1>9, <1>10
-----------------------------------------------------------------------------
LEMMA GexForMeans ==
    ASSUME NEW c, NEW v, IsValue(GexFor(c, v))
    PROVE  /\ Seen(c.params.lot) /\ WithGamma(c.state, c.params.expiry) # {}
           /\ \A w : GexFor(c, w) = w
<1> DEFINE p == c.params.convention \in Conventions
           q == Seen(c.params.lot)
           r == c.params.lot > 0
           t == WithGamma(c.state, c.params.expiry) # {}
           inner(w) == Given(t, "MISSING_INPUT", w)
           middle(w) == Given(r, "INVALID_PARAMS", inner(w))
           outer(w) == Given(q, "MISSING_INPUT", middle(w))
<1>1. \A w : GexFor(c, w) = Given(p, "INVALID_PARAMS", outer(w))
  BY DEF GexFor, Guarded
<1>2. p \in BOOLEAN /\ q \in BOOLEAN /\ t \in BOOLEAN
  BY DEF Seen
<1>3. r \in BOOLEAN
  OBVIOUS
<1> HIDE DEF p, q, r, t
<1>4. p /\ IsValue(outer(v))
  <2> DEFINE x == GexFor(c, v)
             y == outer(v)
  <2>1. x = Given(p, "INVALID_PARAMS", y) /\ IsValue(x)
    BY <1>1
  <2> HIDE DEF x, y
  <2>2. p /\ IsValue(y)
    BY <1>2, <2>1, GivenMeans
  <2> QED
    BY <2>2 DEF y
<1>5. q /\ IsValue(middle(v))
  <2> HIDE DEF middle
  <2> QED
    BY <1>2, <1>4, GivenMeans
<1>6. r /\ IsValue(inner(v))
  <2> HIDE DEF inner
  <2> QED
    BY <1>3, <1>5, GivenMeans
<1>7. t
  BY <1>2, <1>6, GivenMeans
<1>8. \A w : GexFor(c, w) = w
  BY <1>1, <1>4, <1>5, <1>6, <1>7 DEF Given
<1> QED
  BY <1>5, <1>7, <1>8 DEF q, t

GexTerms(c, L) == [l \in L |-> DealerSign(c.params.convention, l.type) * l.gamma * l.oi * c.params.lot]

LEMMA GexTermsAre ==
    ASSUME NEW c, c.state \in MarketStates, c.params.lot \in Int
    PROVE  LET W == WithGamma(c.state, c.params.expiry)
           IN  /\ W \in SUBSET OptionLegs /\ IsFiniteSet(W) /\ GexTerms(c, W) \in [W -> Int]
               /\ \A l \in W : l.gamma \in Int /\ l.oi \in Nat
<1> DEFINE W == WithGamma(c.state, c.params.expiry)
<1>1. W \in SUBSET Slice(c.state, c.params.expiry) /\ \A l \in W : Seen(l.gamma) /\ Seen(l.oi)
  BY DEF WithGamma
<1>2. W \in SUBSET OptionLegs /\ IsFiniteSet(W)
  BY <1>1, SliceIs, FS_Subset
<1> HIDE DEF W
<1>3. \A l \in W : l.gamma \in Int /\ l.oi \in Nat
  BY <1>1, <1>2 DEF OptionLegs, Maybe, Seen
<1>4. \A l \in W : DealerSign(c.params.convention, l.type) \in Int
  BY DEF DealerSign
<1>5. \A l \in W : DealerSign(c.params.convention, l.type) * l.gamma * l.oi * c.params.lot \in Int
  <2> TAKE l \in W
  <2> DEFINE d == DealerSign(c.params.convention, l.type)
             g == l.gamma
             o == l.oi
             t == c.params.lot
  <2>1. d \in Int /\ g \in Int /\ o \in Int /\ t \in Int
    BY <1>3, <1>4
  <2> HIDE DEF d, g, o, t
  <2>2. d * g * o * t \in Int
    BY <2>1
  <2> QED
    BY <2>2 DEF d, g, o, t
<1>6. GexTerms(c, W) \in [W -> Int]
  BY <1>5 DEF GexTerms
<1> QED
  BY <1>2, <1>3, <1>6 DEF W

(* The exposures at the strikes add up to that of the expiry.              *)
LEMMA GexByStrikeAddsUp ==
    ASSUME NEW c, c.state \in MarketStates, c.params.lot \in Int
    PROVE  LET K == GexStrikes(c)
           IN  /\ K \in SUBSET Int /\ IsFiniteSet(K) /\ \A k \in K : GexAt(c, k) \in Int /\ Running(c, k) \in Int
               /\ TotalOf([k \in K |-> GexAt(c, k)]) = Gex(c, WithGamma(c.state, c.params.expiry))
<1> DEFINE W == WithGamma(c.state, c.params.expiry)
           K == GexStrikes(c)
           v == GexTerms(c, W)
           group == [l \in W |-> l.strike]
           totals == [k \in K |-> GexAt(c, k)]
<1>1. W \in SUBSET OptionLegs /\ IsFiniteSet(W) /\ v \in [W -> Int]
  BY GexTermsAre
<1>2. K = Strikes(W)
  BY DEF GexStrikes
<1> HIDE DEF K
<1>3. K \in SUBSET Int /\ IsFiniteSet(K)
  BY <1>1, <1>2, StrikesOf
<1>4. group \in [W -> K]
  BY <1>2 DEF Strikes
<1>5. ASSUME NEW k \in K
      PROVE  GexAt(c, k) = TotalOf([n \in {m \in W : group[m] = k} |-> v[n]]) /\ GexAt(c, k) \in Int
  <2> DEFINE part == {m \in W : group[m] = k}
             same == {l \in W : l.strike = k}
             terms == [n \in part |-> v[n]]
  <2>1. part = same /\ part \in SUBSET W
    OBVIOUS
  <2>2. GexAt(c, k) = TotalOf(GexTerms(c, same))
    BY DEF GexAt, Gex, GexTerms
  <2> HIDE DEF W, same, part
  <2>3. GexTerms(c, part) = terms
    BY <2>1 DEF GexTerms
  <2>4. GexAt(c, k) = TotalOf(terms)
    BY <2>1, <2>2, <2>3
  <2>5. terms \in [part -> Int] /\ IsFiniteSet(part)
    BY <1>1, <2>1, FS_Subset
  <2> HIDE DEF terms
  <2>6. TotalOf(terms) \in Int
    BY <2>5, TotalOfIntegers
  <2> QED
    BY <2>4, <2>6 DEF terms, part
<1>6. totals = GroupTotals(W, K, group, v)
  <2> HIDE DEF W, group, v
  <2> QED
    BY <1>5 DEF GroupTotals
<1>7. Gex(c, W) = TotalOf(v)
  BY DEF Gex, GexTerms
<1>8. \A k \in K : Running(c, k) \in Int
  <2> TAKE k \in K
  <2> DEFINE J == {o \in K : o <= k}
             t == [j \in J |-> GexAt(c, j)]
  <2>1. Running(c, k) = TotalOf(t)
    BY DEF Running, K
  <2>2. t \in [J -> Int]
    BY <1>5
  <2>3. IsFiniteSet(J)
    <3>1. J \in SUBSET K
      OBVIOUS
    <3> HIDE DEF J
    <3> QED
      BY <1>3, <3>1, FS_Subset
  <2> HIDE DEF J, t
  <2> QED
    BY <2>1, <2>2, <2>3, TotalOfIntegers
<1> HIDE DEF W, v, group
<1>9. TotalOf(totals) = TotalOf(v)
  BY <1>1, <1>3, <1>4, <1>6, TotalOfGroups
<1> QED
  BY <1>3, <1>5, <1>7, <1>8, <1>9 DEF W, K

(* At the highest strike, everything has accumulated.                      *)
LEMMA ProfileEnds ==
    ASSUME NEW c, c.state \in MarketStates, c.params.lot \in Int, GexStrikes(c) # {}
    PROVE  Running(c, Max(GexStrikes(c))) = Gex(c, WithGamma(c.state, c.params.expiry))
<1> DEFINE K == GexStrikes(c)
           top == Max(K)
<1>1. /\ K \in SUBSET Int /\ IsFiniteSet(K) /\ K # {}
      /\ TotalOf([k \in K |-> GexAt(c, k)]) = Gex(c, WithGamma(c.state, c.params.expiry))
  BY GexByStrikeAddsUp
<1> HIDE DEF K
<1>2. \A k \in K : k <= top
  BY <1>1, MaxOfNumbers
<1> HIDE DEF top
<1>3. {o \in K : o <= top} = K
  BY <1>2
<1>4. Running(c, top) = TotalOf([k \in {o \in K : o <= top} |-> GexAt(c, k)])
  BY DEF Running, K
<1>5. Running(c, top) = TotalOf([k \in K |-> GexAt(c, k)])
  BY <1>3, <1>4
<1> QED
  BY <1>1, <1>5 DEF top, K

(* All that is held long counts with its own sign.                         *)
LEMMA LongExposure ==
    ASSUME NEW c, c.state \in MarketStates, c.params.lot \in Int, c.params.lot > 0, Seen(c.params.lot),
           WithGamma(c.state, c.params.expiry) # {},
           c.params.convention = "dealer_long_all", c.params.aggregate = "expiry"
    PROVE  /\ IsValue(Exposure(c, "gamma"))
           /\ Exposure(c, "gamma").value = Gex(c, WithGamma(c.state, c.params.expiry))
<1> DEFINE W == WithGamma(c.state, c.params.expiry)
           L == IF c.params.aggregate = "underlying" THEN c.state.legs ELSE Slice(c.state, c.params.expiry)
           known == {l \in L : Seen(l["gamma"]) /\ Seen(l.oi)}
           terms == [l \in known |-> l["gamma"] * l.oi * c.params.lot]
<1>1. L = Slice(c.state, c.params.expiry)
  OBVIOUS
<1>2. known = W
  BY <1>1 DEF WithGamma
<1>3. Exposure(c, "gamma") = Value(TotalOf(terms))
  <2>1. Exposure(c, "gamma") =
          Given(c.params.aggregate \in {"expiry", "underlying"}, "INVALID_PARAMS",
            Given(Seen(c.params.lot), "MISSING_INPUT",
              Given(c.params.lot > 0, "INVALID_PARAMS",
                Given(known # {}, "MISSING_INPUT", Value(TotalOf(terms))))))
    BY DEF Exposure
  <2> HIDE DEF known, terms
  <2> QED
    BY <1>2, <2>1 DEF Given
<1>4. \A l \in W : l.gamma \in Int /\ l.oi \in Nat
  BY GexTermsAre
<1>5. \A l \in W : DealerSign(c.params.convention, l.type) = 1
  BY DEF DealerSign
<1> HIDE DEF L, known, W
<1>6. \A l \in W : l.gamma * l.oi * c.params.lot
                       = DealerSign(c.params.convention, l.type) * l.gamma * l.oi * c.params.lot
  BY <1>4, <1>5
<1>7. terms = GexTerms(c, W)
  BY <1>2, <1>6 DEF GexTerms
<1>8. Gex(c, W) = TotalOf(GexTerms(c, W))
  BY DEF Gex, GexTerms
<1> HIDE DEF terms
<1> QED
  BY <1>3, <1>7, <1>8, ValueMeans DEF W

(* The flip lies between two neighbouring strikes, across which the        *)
(* accumulated exposure changes sign.                                      *)
LEMMA FlipIsBetween ==
    ASSUME NEW c, c.state \in MarketStates, c.params.lot \in Int, IsValue(GammaFlipLevel(c))
    PROVE  \E k \in GexStrikes(c), m \in GexStrikes(c) :
               /\ k < m /\ \A o \in GexStrikes(c) : o <= k \/ o >= m
               /\ Within(GammaFlipLevel(c).value, Whole(k), Whole(m))
               /\ Running(c, k) = 0 \/ (Running(c, k) < 0) # (Running(c, m) < 0)
<1> DEFINE K == GexStrikes(c)
           next(j) == Min({o \in K : o > j})
           flips == {j \in K \ {Max(K)} :
                        Running(c, j) = 0 \/ (Running(c, j) < 0) # (Running(c, next(j)) < 0)}
           k == Min(flips)
           at == Running(c, k)
           m == next(k)
           level == IF at = 0 THEN Whole(k)
                    ELSE Plus(Whole(k), Ratio((m - k) * (0 - at), Running(c, m) - at))
<1>1. flips # {} /\ GammaFlipLevel(c).value = level
  <2> DEFINE p == flips # {}
             v == Value(level)
             rest == Given(p, "UNDEFINED", v)
  <2>1. GammaFlipLevel(c) = GexFor(c, rest)
    BY DEF GammaFlipLevel
  <2>2. rest = Given(p, "UNDEFINED", v) /\ p \in BOOLEAN
    OBVIOUS
  <2> HIDE DEF p, v, rest
  <2>3. GammaFlipLevel(c) = rest /\ IsValue(rest)
    BY <2>1, GexForMeans
  <2>4. p /\ rest = v
    BY <2>2, <2>3, GivenMeans
  <2> HIDE DEF level
  <2> QED
    BY <2>3, <2>4, ValueMeans DEF p, v
<1>2. K \in SUBSET Int /\ IsFiniteSet(K) /\ \A j \in K : Running(c, j) \in Int
  BY GexByStrikeAddsUp
<1> HIDE DEF K
<1>3. k \in flips
  <2>1. flips \in SUBSET K
    OBVIOUS
  <2> HIDE DEF flips
  <2>2. flips \in SUBSET Int
    BY <1>2, <2>1
  <2>3. IsFiniteSet(flips)
    BY <1>2, <2>1, FS_Subset
  <2> QED
    BY <1>1, <2>2, <2>3, MinOfNumbers
<1>4. /\ k \in K /\ k # Max(K)
      /\ Running(c, k) = 0 \/ (Running(c, k) < 0) # (Running(c, m) < 0)
  <2> HIDE DEF k
  <2> QED
    BY <1>3
<1> HIDE DEF flips, k
<1> DEFINE above == {o \in K : o > k}
<1>5. m \in above /\ \A o \in above : m <= o
  <2>1. above \in SUBSET K
    OBVIOUS
  <2>2. Max(K) \in K /\ k <= Max(K)
    BY <1>2, <1>4, MaxOfNumbers
  <2>3. Max(K) \in above
    <3>1. Max(K) \in Int /\ k \in Int
      BY <1>2, <1>4, <2>2
    <3>2. Max(K) > k
      BY <1>4, <2>2, <3>1
    <3> QED
      BY <2>2, <3>2
  <2> HIDE DEF above
  <2>4. above \in SUBSET Int /\ above # {}
    BY <1>2, <2>1, <2>3
  <2>5. IsFiniteSet(above)
    BY <1>2, <2>1, FS_Subset
  <2>6. Min(above) \in above /\ \A o \in above : Min(above) <= o
    BY <2>4, <2>5, MinOfNumbers
  <2> QED
    BY <2>6 DEF above
<1>6. m \in K /\ k < m /\ \A o \in K : o <= k \/ o >= m
  <2>1. \A o \in K : o > k => m <= o
    BY <1>5
  <2>2. m \in K /\ m > k
    <3> HIDE DEF m
    <3> QED
      BY <1>5
  <2> HIDE DEF m, above
  <2> QED
    BY <1>2, <1>4, <2>1, <2>2
<1> HIDE DEF m
<1> DEFINE b == Running(c, m)
<1>7. k \in Int /\ m \in Int /\ at \in Int /\ b \in Int /\ k < m
  BY <1>2, <1>4, <1>6
<1>8. at = 0 \/ (at < 0) # (b < 0)
  BY <1>4
<1> HIDE DEF at, b
<1>9. Within(level, Whole(k), Whole(m))
  <2>1. CASE at = 0
    <3>1. k * 1 <= k * 1 /\ k * 1 <= m * 1
      BY <1>7
    <3> QED
      BY <2>1, <3>1 DEF Within, AtMost, Whole
  <2>2. CASE at # 0
    <3> DEFINE w == m - k
               n == w * (0 - at)
               d == b - at
               r == Ratio(n, d)
    <3>0. w \in Int /\ w > 0
      BY <1>7
    <3> HIDE DEF w
    <3>1. n \in Int /\ d \in Int /\ d # 0
      BY <1>7, <1>8, <2>2, <3>0
    <3>2. \/ d > 0 /\ 0 * d <= n /\ n <= w * d
          \/ d < 0 /\ w * d <= n /\ n <= 0 * d
      <4>1. w * (0 - at) = -(w * at) /\ w * d = w * b - w * at /\ w * at \in Int /\ w * b \in Int
        BY <1>7, <3>0
      <4>2. CASE at < 0 /\ b >= 0
        <5>1. w * at <= 0 /\ w * b >= 0
          BY <1>7, <3>0, <4>2
        <5> QED
          BY <1>7, <3>1, <4>1, <4>2, <5>1
      <4>3. CASE at > 0 /\ b < 0
        <5>1. w * at >= 0 /\ w * b <= 0
          BY <1>7, <3>0, <4>3
        <5> QED
          BY <1>7, <3>1, <4>1, <4>3, <5>1
      <4> QED
        BY <1>7, <1>8, <2>2, <4>2, <4>3
    <3> HIDE DEF n, d
    <3>3. Within(r, Whole(0), Whole(w))
      <4>1. 0 \in Int
        OBVIOUS
      <4> QED
        BY <3>0, <3>1, <3>2, <4>1, RatioWithin
    <3>4. r \in LowestTerms
      BY <3>1, RatioIs
    <3> HIDE DEF r
    <3> DEFINE x == r[1]
               y == r[2]
    <3>5. x \in Int /\ y \in Int /\ y > 0
      BY <3>4, FractionParts DEF LowestTerms
    <3>6. 0 * y <= x * 1 /\ x * 1 <= w * y
      BY <3>3 DEF Within, AtMost, Whole
    <3>7. level = Ratio(k * y + x * 1, 1 * y)
      BY <2>2 DEF Plus, Whole, r, n, d, w, b
    <3> HIDE DEF x, y
    <3>8. 1 * y \in Int /\ 1 * y > 0 /\ k * y + x * 1 \in Int /\ k * (1 * y) <= k * y + x * 1
          /\ k * y + x * 1 <= m * (1 * y)
      <4>1. w = m - k
        BY DEF w
      <4>2. k * y \in Int /\ m * y \in Int /\ w * y = m * y - k * y
        BY <1>7, <3>5, <4>1
      <4> QED
        BY <1>7, <3>5, <3>6, <4>2
    <3> HIDE DEF level
    <3> QED
      BY <1>7, <3>7, <3>8, RatioWithin
  <2> QED
    BY <2>1, <2>2
<1> QED
  <2>1. Running(c, k) = 0 \/ (Running(c, k) < 0) # (Running(c, m) < 0)
    BY <1>4
  <2> HIDE DEF level
  <2> QED
    BY <1>1, <1>4, <1>6, <1>9, <2>1 DEF K

(* The profile ends at the exposure of the expiry, and the flip lies where *)
(* it changes sign.                                                        *)
LEMMA GammaAgrees ==
    ASSUME FeatureInv, Known("GEX_BY_EXPIRY")
    PROVE  LET profile == Of("GEX_PROFILE")
               ends == DOMAIN profile
           IN  /\ profile[Max(ends)] = Of("GEX_BY_EXPIRY")
               /\ report.params.convention = "dealer_long_all" /\ report.params.aggregate = "expiry" =>
                     Of("GAMMA_EXPOSURE") = Of("GEX_BY_EXPIRY")
               /\ Known("GAMMA_FLIP_LEVEL") =>
                     \E k \in ends, m \in ends :
                         /\ k < m /\ \A o \in ends : o <= k \/ o >= m
                         /\ Within(Of("GAMMA_FLIP_LEVEL"), Whole(k), Whole(m))
                         /\ profile[k] = 0 \/ (profile[k] < 0) # (profile[m] < 0)
<1> DEFINE f == "GEX_BY_EXPIRY"
           c == Ctx(f)
           W == WithGamma(c.state, c.params.expiry)
           K == GexStrikes(c)
           profile == [k \in K |-> Running(c, k)]
<1>1. /\ c.state = report.state /\ c.params = report.params
      /\ c.state \in MarketStates /\ c.params \in ParameterSets /\ Seen(report.params.expiry)
      /\ IsValue(GexByExpiry(c)) /\ Of(f) = GexByExpiry(c).value
  BY KnownFormula DEF Formula, NeedsExpiry, OfGamma
<1> HIDE DEF c
<1>2. Seen(c.params.lot) /\ W # {} /\ \A v : GexFor(c, v) = v
  BY <1>1, GexForMeans DEF GexByExpiry
<1>3. Of(f) = Gex(c, W)
  BY <1>1, <1>2, ValueMeans DEF GexByExpiry
<1>4. c.params.lot > 0
  <2>1. IsValue(Formula(f, c))
    BY <1>1 DEF Formula
  <2>2. f \in OfGamma
    BY DEF OfGamma
  <2> QED
    BY <2>1, <2>2, LotWasSeen
<1>5. c.params.lot \in Int
  BY <1>1, <1>2, FeatureAssumption DEF Maybe, Seen
<1>6. /\ K \in SUBSET Int /\ IsFiniteSet(K)
      /\ Running(c, Max(K)) = Gex(c, W)
      /\ K # {} /\ Max(K) \in K
  <2>1. K # {}
    BY <1>2 DEF GexStrikes, Strikes
  <2>2. K \in SUBSET Int /\ IsFiniteSet(K)
    BY <1>1, <1>5, GexByStrikeAddsUp
  <2>3. Running(c, Max(K)) = Gex(c, W)
    BY <1>1, <1>5, <2>1, ProfileEnds
  <2> HIDE DEF K
  <2> QED
    BY <2>1, <2>2, <2>3, MaxOfNumbers
<1>7. ASSUME NEW g \in {"GEX_PROFILE", "GAMMA_EXPOSURE"}, IsValue(Formula(g, c))
      PROVE  Known(g) /\ Of(g) = Formula(g, c).value
  <2>1. g \in FeatureIds /\ f \in OfGamma /\ g \in OfGamma /\ g \notin NeedsSlice
    BY DEF FeatureIds, OfGamma, NeedsSlice, OiWindows, OiOfExpiry
  <2>2. DependsOn(f) = {} /\ DependsOn(g) = {} /\ Lookback(g) = 0
    BY DEF DependsOn, Lookback, OiWindows, OiOverWindow
  <2>3. Requirements(g) \subseteq Requirements(f)
    <3>1. f \in NeedsExpiry /\ f \notin OfIv \cup OfPrice
      BY DEF NeedsExpiry, OfGamma, OfIv, OfPrice
    <3>2. {"quality", "oi", "greeks"} \subseteq Requirements(f)
      BY <2>1, <3>1 DEF Requirements
    <3>3. Requirements(g) \subseteq {"quality", "oi", "greeks"}
      BY DEF Requirements
    <3> QED
      BY <3>2, <3>3
  <2>4. IsValue(Formula(g, Ctx(f)))
    BY <1>7 DEF c
  <2>5. Known(g) /\ Of(g) = Formula(g, Ctx(f)).value
    BY <1>1, <2>1, <2>2, <2>3, <2>4, KnownToo
  <2> QED
    BY <2>5 DEF c
<1>8. Of("GEX_PROFILE") = profile
  <2>1. Formula("GEX_PROFILE", c) = GexFor(c, Value(profile))
    BY DEF Formula, GexProfile
  <2> HIDE DEF profile
  <2>2. IsValue(Formula("GEX_PROFILE", c)) /\ Formula("GEX_PROFILE", c).value = profile
    BY <1>2, <2>1, ValueMeans
  <2> QED
    BY <1>7, <2>2
<1>9. profile[Max(K)] = Of(f) /\ DOMAIN profile = K
  BY <1>3, <1>6
<1>10. c.params.convention = "dealer_long_all" /\ c.params.aggregate = "expiry" => Of("GAMMA_EXPOSURE") = Of(f)
  <2> SUFFICES ASSUME c.params.convention = "dealer_long_all", c.params.aggregate = "expiry"
               PROVE  Of("GAMMA_EXPOSURE") = Of(f)
    OBVIOUS
  <2>1. IsValue(Exposure(c, "gamma")) /\ Exposure(c, "gamma").value = Gex(c, W)
    BY <1>1, <1>2, <1>4, <1>5, LongExposure
  <2>2. Formula("GAMMA_EXPOSURE", c) = Exposure(c, "gamma")
    BY DEF Formula
  <2> HIDE DEF W
  <2>3. IsValue(Formula("GAMMA_EXPOSURE", c)) /\ Formula("GAMMA_EXPOSURE", c).value = Gex(c, W)
    BY <2>1, <2>2
  <2> QED
    BY <1>3, <1>7, <2>3
<1>11. ASSUME Known("GAMMA_FLIP_LEVEL")
       PROVE  \E k \in K, m \in K :
                  /\ k < m /\ \A o \in K : o <= k \/ o >= m
                  /\ Within(Of("GAMMA_FLIP_LEVEL"), Whole(k), Whole(m))
                  /\ profile[k] = 0 \/ (profile[k] < 0) # (profile[m] < 0)
  <2> DEFINE g == "GAMMA_FLIP_LEVEL"
  <2>1. IsValue(Formula(g, Ctx(g))) /\ Of(g) = Formula(g, Ctx(g)).value
    BY <1>11, KnownFormula
  <2>2. Ctx(g) = c
    BY SameContext DEF DependsOn, c
  <2>3. Formula(g, c) = GammaFlipLevel(c)
    BY DEF Formula
  <2>4. IsValue(GammaFlipLevel(c)) /\ Of(g) = GammaFlipLevel(c).value
    BY <2>1, <2>2, <2>3
  <2>5. PICK k \in K, m \in K :
            /\ k < m /\ \A o \in K : o <= k \/ o >= m
            /\ Within(GammaFlipLevel(c).value, Whole(k), Whole(m))
            /\ Running(c, k) = 0 \/ (Running(c, k) < 0) # (Running(c, m) < 0)
    BY <1>1, <1>5, <2>4, FlipIsBetween
  <2>6. profile[k] = Running(c, k) /\ profile[m] = Running(c, m)
    OBVIOUS
  <2>7. Within(Of(g), Whole(k), Whole(m))
    BY <2>4, <2>5
  <2> HIDE DEF profile, K
  <2> QED
    BY <2>5, <2>6, <2>7
<1> HIDE DEF profile, K
<1> QED
  BY <1>1, <1>8, <1>9, <1>10, <1>11

LEMMA AgreeNow == FeatureInv => FeaturesAgree
<1> SUFFICES ASSUME FeatureInv PROVE FeaturesAgree
  OBVIOUS
<1> USE DEF FeaturesAgree
<1> QED
  BY BuildupAgrees, ConfirmationAgrees, MigrationsAgree, LevelsAgree, RankAgrees, VwapAgrees, MomentumAgrees,
     GammaAgrees

(* For any states, parameters and delay: every value rests on what was     *)
(* observed and was available, and the features of one execution agree.    *)
THEOREM FeaturesHold == FeatureSpec => []FeaturesAreSound
<1>1. FeatureInv => FeaturesAreSound
  BY InputsComeFirst, NothingIsMadeUp, AgreeNow DEF FeaturesAreSound, ValuesRestOnWhatWasThere
<1> QED
  BY <1>1, FeaturesKeep, PTL
-----------------------------------------------------------------------------
(* What is visible at a time is among what is available by any later one.  *)
LEMMA DetectsFromThePast ==
    ASSUME NEW D \in SUBSET Rows, NEW at \in Nat, NEW t \in Nat, t <= at, NEW s
    PROVE  DetectAt(s, {r \in D : r.available <= at}, t) = DetectAt(s, D, t)
<1> DEFINE past == {r \in D : r.available <= at}
<1>1. Visible(past, t) = Visible(D, t)
  BY StudyAssumption DEF Visible
<1> HIDE DEF past
<1>2. GetFeature(past, s.version, t) = GetFeature(D, s.version, t)
  BY <1>1 DEF GetFeature
<1>3. AvailableSignals(past, t) = AvailableSignals(D, t)
  BY <1>1 DEF AvailableSignals
<1>4. DetectAt(s, past, t) = DetectAt(s, D, t)
  BY <1>2, <1>3 DEF DetectAt
<1> QED
  BY <1>4 DEF past

(* An event is detected when it is looked for, from a row that is there.   *)
LEMMA DetectsWhatIsThere ==
    ASSUME NEW D \in SUBSET Rows, NEW at \in Nat, NEW s, NEW e \in DetectAt(s, D, at)
    PROVE  /\ e.detected = at
           /\ \E r \in D : /\ r.available <= at /\ r.ref = e.evidence /\ r.value = e.trigger
                           /\ r.observed <= e.available /\ e.available <= at
<1>1. PICK r \in Visible(D, at) : e = EventOf(r, at)
  BY DEF DetectAt, GetFeature, AvailableSignals
<1>2. r \in D /\ r.available <= at /\ r.available \in Nat /\ r.observed \in Nat /\ r.observed <= r.available
  BY <1>1, StudyAssumption DEF Visible
<1>3. Max({r.available, r.observed}) = r.available
  BY <1>2 DEF Max
<1> QED
  BY <1>1, <1>2, <1>3 DEF EventOf

(* Of the events found by a time, those are the first of their occurrence  *)
(* that will be when more are found later.                                 *)
LEMMA LaterFindsChangeNothing ==
    ASSUME NEW D \in SUBSET Rows, NEW at \in Nat, NEW s
    PROVE  {e \in DetectOver(s, D, DefaultInstants(D)) : e.detected <= at}
               = DetectOver(s, {r \in D : r.available <= at}, DefaultInstants({r \in D : r.available <= at}))
<1> DEFINE past == {r \in D : r.available <= at}
           all == UNION {DetectAt(s, D, t) : t \in DefaultInstants(D)}
           early == UNION {DetectAt(s, past, t) : t \in DefaultInstants(past)}
           Found(e) == <<e.detected, e.available, e.evidence>>
           First(S) == {e \in S : \A o \in S \ {e} :
                           OccurrenceId(o) = OccurrenceId(e) => LexLess(Found(e), Found(o))}
<1>1. /\ DefaultInstants(D) \subseteq Nat
      /\ DefaultInstants(past) = {t \in DefaultInstants(D) : t <= at}
  BY StudyAssumption DEF DefaultInstants
<1>2. \A e \in all : e.detected \in Nat
  BY <1>1, DetectsWhatIsThere
<1>3. early = {e \in all : e.detected <= at}
  <2>1. \A t \in DefaultInstants(past) : t \in Nat /\ t <= at /\ DetectAt(s, past, t) = DetectAt(s, D, t)
    BY <1>1, DetectsFromThePast
  <2>2. \A t \in DefaultInstants(D) : \A e \in DetectAt(s, D, t) : e.detected = t
    BY <1>1, DetectsWhatIsThere
  <2> HIDE DEF past
  <2>3. ASSUME NEW e \in early PROVE e \in all /\ e.detected <= at
    BY <1>1, <2>1, <2>2
  <2>4. ASSUME NEW e \in all, e.detected <= at PROVE e \in early
    BY <1>1, <2>1, <2>2, <2>4
  <2> QED
    BY <2>3, <2>4
<1>4. DetectOver(s, D, DefaultInstants(D)) = First(all) /\ DetectOver(s, past, DefaultInstants(past)) = First(early)
  BY DEF DetectOver
<1> HIDE DEF all, early, past
<1>5. ASSUME NEW e \in all, NEW o \in all, e.detected <= at, ~(o.detected <= at)
      PROVE  LexLess(Found(e), Found(o))
  <2>1. e.detected < o.detected
    BY <1>2, <1>5
  <2>2. /\ 1 \in DOMAIN Found(e) /\ Found(e)[1] < Found(o)[1]
        /\ \A m \in 1 .. 1 - 1 : Found(e)[m] = Found(o)[m]
    BY <2>1
  <2> QED
    BY <2>2 DEF LexLess
<1>6. {e \in First(all) : e.detected <= at} = First(early)
  <2> HIDE DEF Found
  <2>1. ASSUME NEW e \in First(all), e.detected <= at PROVE e \in First(early)
    BY <1>3, <2>1
  <2>2. ASSUME NEW e \in First(early) PROVE e \in First(all) /\ e.detected <= at
    <3>1. e \in all /\ e.detected <= at
      BY <1>3
    <3>2. ASSUME NEW o \in all \ {e}, OccurrenceId(o) = OccurrenceId(e) PROVE LexLess(Found(e), Found(o))
      <4>1. CASE o.detected <= at
        BY <1>3, <3>2, <4>1
      <4>2. CASE ~(o.detected <= at)
        BY <1>5, <3>1, <4>2
      <4> QED
        BY <4>1, <4>2
    <3> QED
      BY <3>1, <3>2
  <2> QED
    BY <2>1, <2>2
<1> QED
  BY <1>4, <1>6 DEF past

InPeriod(s, events) == {e \in events : e.market \in s.from .. s.to}

StudyInv ==
    /\ recorded \subseteq Rows
    /\ finding # NoFinding =>
          \E s \in Studies :
              /\ finding.study = s
              /\ finding.detected
                    = InPeriod(s, DetectOver(s, BuildDataset(recorded, s.K),
                                             DefaultInstants(BuildDataset(recorded, s.K))))

LEMMA ReportIs ==
    ASSUME NEW s, NEW rows, NEW prices
    PROVE  /\ Report(s, rows, prices).study = s
           /\ Report(s, rows, prices).detected
                = InPeriod(s, DetectOver(s, BuildDataset(rows, s.K), DefaultInstants(BuildDataset(rows, s.K))))
BY DEF Report, InPeriod

LEMMA StudyStep == StudyInv /\ [ResearchNext]_researchVars => StudyInv'
<1> SUFFICES ASSUME StudyInv, [ResearchNext]_researchVars PROVE StudyInv'
  OBVIOUS
<1>1. ASSUME NEW row \in Rows \ recorded, Record(row) PROVE StudyInv'
  BY <1>1 DEF StudyInv, Record
<1>2. ASSUME NEW s \in Studies, NEW prices \in PriceSeries, RunStudy(s, prices) PROVE StudyInv'
  <2>1. finding' = Report(s, recorded, prices) /\ recorded' = recorded
    BY <1>2 DEF RunStudy
  <2> QED
    BY <2>1, ReportIs DEF StudyInv
<1>3. CASE UNCHANGED researchVars
  BY <1>3 DEF StudyInv, researchVars
<1> QED
  BY <1>1, <1>2, <1>3 DEF ResearchNext

LEMMA LooksBack == StudyInv /\ finding # NoFinding => LooksBackOnly
<1> SUFFICES ASSUME StudyInv, finding # NoFinding PROVE LooksBackOnly
  OBVIOUS
<1>1. PICK s \in Studies :
        /\ finding.study = s
        /\ finding.detected
              = InPeriod(s, DetectOver(s, BuildDataset(recorded, s.K), DefaultInstants(BuildDataset(recorded, s.K))))
  BY DEF StudyInv
<1> DEFINE D == BuildDataset(recorded, s.K)
<1>2. D \in SUBSET Rows /\ DefaultInstants(D) \subseteq Nat /\ DefaultInstants(recorded) \subseteq Nat
  BY StudyAssumption DEF BuildDataset, StudyInv, DefaultInstants
<1>3. \A at : ToDate(s.K, at) = {r \in D : r.available <= at}
  BY DEF ToDate
<1>4. finding.detected = InPeriod(s, DetectOver(s, D, DefaultInstants(D)))
  BY <1>1
<1> HIDE DEF D
<1>5. ASSUME NEW e \in finding.detected
      PROVE  \E r \in ToDate(s.K, e.detected) :
                r.ref = e.evidence /\ r.value = e.trigger /\ r.observed <= e.available /\ e.available <= e.detected
  <2>1. PICK at \in DefaultInstants(D) : e \in DetectAt(s, D, at)
    BY <1>4 DEF InPeriod, DetectOver
  <2>2. at \in Nat
    BY <1>2
  <2> QED
    BY <1>2, <1>3, <2>1, <2>2, DetectsWhatIsThere
<1>6. ASSUME NEW at \in DefaultInstants(recorded)
      PROVE  {e \in finding.detected : e.detected <= at}
                = InPeriod(s, DetectOver(s, ToDate(s.K, at), DefaultInstants(ToDate(s.K, at))))
  <2>1. {e \in DetectOver(s, D, DefaultInstants(D)) : e.detected <= at}
           = DetectOver(s, ToDate(s.K, at), DefaultInstants(ToDate(s.K, at)))
    BY <1>2, <1>3, LaterFindsChangeNothing
  <2> QED
    BY <1>4, <2>1 DEF InPeriod
<1> QED
  BY <1>1, <1>5, <1>6 DEF LooksBackOnly, InPeriod

(* However a study asks, and whatever is recorded after an instant, what   *)
(* it finds by that instant is what it would have found then, from rows    *)
(* that were available (PointInTimeAccessor, detect_over).                 *)
(* For any extract, policy and prices: a study finds by an instant what it *)
(* would have found had nothing been recorded since, and every event rests *)
(* on a row that was available when it was detected.                       *)
THEOREM StudiesLookBack == ResearchSpec => [](finding # NoFinding => LooksBackOnly)
<1>1. ResearchInit => StudyInv
  BY DEF ResearchInit, StudyInv
<1> QED
  BY <1>1, StudyStep, LooksBack, PTL DEF ResearchSpec
=============================================================================
