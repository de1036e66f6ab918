---------------------------- MODULE SessionGate ----------------------------
(***************************************************************************)
(* The access gate in front of every route: the pipeline of                *)
(* identity/gate.py over server-side sessions (identity/sessions.py), the  *)
(* route policies (permissions.py) and the checks of state-changing        *)
(* requests (csrf.py), and the middleware that runs it and advances        *)
(* last_seen_at (api/security.py).                                         *)
(***************************************************************************)
EXTENDS Integers, Sequences, FiniteSets

CONSTANTS
    Users,
    SessionTtl, IdleTimeout,
    MaxClock,           \* bound: the clock
    MaxSessions,        \* bound: sessions issued
    MaxAdmitted         \* bound: requests admitted

ASSUME GateAssumption == SessionTtl \in Nat /\ IdleTimeout \in Nat /\ MaxSessions \in Nat

VARIABLES
    clock,
    sessions,   \* identity_sessions, in the order issued
    admitted    \* the requests the gate let through, each with its time

gateVars == <<clock, sessions, admitted>>

(* The kinds of policies the table holds for three of its permissions; an  *)
(* account is named by its owner.                                          *)
RoutePolicies ==
    {[required |-> "MARKET_DATA_READ", scoped |-> FALSE, changes |-> c] : c \in BOOLEAN}
        \cup {[required |-> "PAPER_TRADE", scoped |-> TRUE, changes |-> c] : c \in BOOLEAN}
        \cup {[required |-> "ADMIN", scoped |-> FALSE, changes |-> TRUE]}

Grants == {{"MARKET_DATA_READ"}, {"MARKET_DATA_READ", "PAPER_TRADE"}, {"ADMIN"}}

(* A request names a session, or none there is; its route has a policy or  *)
(* none. A route that is public never comes to the session.                *)
Requests ==
    [session : 0 .. MaxSessions, route : {{}} \cup {{p} : p \in RoutePolicies}, owner : Users,
     resolves : BOOLEAN, origin : {"allowed", "foreign", "none"}, token : BOOLEAN]

GateInit == clock = 0 /\ sessions = <<>> /\ admitted = <<>>

Issue(user, permissions) ==
    [user |-> user, created |-> clock, lastSeen |-> clock, expires |-> clock + SessionTtl,
     revoked |-> {}, permissions |-> permissions]

ValidateSession(n) ==
    CASE n \notin DOMAIN sessions -> "NOT_FOUND"
      [] n \in DOMAIN sessions /\ sessions[n].revoked # {} -> "REVOKED"
      [] n \in DOMAIN sessions /\ sessions[n].revoked = {} /\ clock >= sessions[n].expires -> "EXPIRED"
      [] OTHER -> IF clock - sessions[n].lastSeen >= IdleTimeout THEN "IDLE_TIMEOUT" ELSE "ACTIVE"

EvaluateCsrf(request, policy) == policy.changes => request.origin = "allowed" /\ request.token

(* The first check that fails decides.                                     *)
Outcome(request) ==
    IF request.route = {} THEN "NO_POLICY"
    ELSE IF ValidateSession(request.session) # "ACTIVE" THEN "UNAUTHENTICATED"
    ELSE LET policy == CHOOSE p \in request.route : TRUE
             session == sessions[request.session]
             isAdmin == "ADMIN" \in session.permissions
         IN  IF policy.required \notin session.permissions /\ ~isAdmin THEN "FORBIDDEN"
             ELSE IF policy.scoped /\ ~isAdmin /\ ~request.resolves THEN "OWNERSHIP_UNAVAILABLE"
             ELSE IF policy.scoped /\ ~isAdmin /\ request.owner # session.user THEN "WRONG_OWNER"
             ELSE IF ~EvaluateCsrf(request, policy) THEN "CSRF_FAILED" ELSE "ALLOWED"

Touch(n) == sessions' = [sessions EXCEPT ![n].lastSeen = clock]

Admission(request) ==
    [session |-> request.session, route |-> request.route, owner |-> request.owner,
     trusted |-> request.origin = "allowed" /\ request.token, at |-> clock]

\* Mutant: a session is touched as soon as it validates.
GateTouchingFirst(request) ==
    /\ IF ValidateSession(request.session) = "ACTIVE" THEN Touch(request.session) ELSE UNCHANGED sessions
    /\ IF Outcome(request) = "ALLOWED"
       THEN admitted' = Append(admitted, Admission(request))
       ELSE UNCHANGED admitted
    /\ UNCHANGED clock

(* The gate refuses a request, or touches the session and lets it through. *)
Gate(request) ==
    /\ Outcome(request) = "ALLOWED"
    /\ Len(admitted) < MaxAdmitted
    /\ Touch(request.session)
    /\ admitted' = Append(admitted, Admission(request))
    /\ UNCHANGED clock

Revoke(n) ==
    /\ sessions[n].revoked = {}
    /\ sessions' = [sessions EXCEPT ![n].revoked = {clock}]
    /\ UNCHANGED <<clock, admitted>>

IssueSession ==
    /\ Len(sessions) < MaxSessions
    /\ \E user \in Users, permissions \in Grants : sessions' = Append(sessions, Issue(user, permissions))
    /\ UNCHANGED <<clock, admitted>>

TimeGoesOn == clock < MaxClock /\ clock' = clock + 1 /\ UNCHANGED <<sessions, admitted>>

GateNext ==
    \/ \E request \in Requests : Gate(request)
    \/ \E n \in DOMAIN sessions : Revoke(n)
    \/ IssueSession
    \/ TimeGoesOn

GateSpec == GateInit /\ [][GateNext]_gateVars
-----------------------------------------------------------------------------
(* What was ever let through was of a session younger than its time to     *)
(* live and not revoked before, whose holder had been let through, or had  *)
(* signed in, less than the idle timeout earlier: a refused request keeps  *)
(* no session alive.                                                       *)
SessionsStayLive ==
    \A k \in DOMAIN admitted :
        LET a == admitted[k]
            n == a.session
            before == {sessions[n].created}
                          \cup {admitted[j].at : j \in {i \in 1 .. k - 1 : admitted[i].session = n}}
        IN  /\ a.at < sessions[n].created + SessionTtl
            /\ \E t \in before : a.at - t < IdleTimeout
            /\ \A r \in sessions[n].revoked : a.at <= r

(* It was permitted to the user that asked, reached no account of another  *)
(* user, and changed no state on the word of another site.                 *)
OthersAreOutOfReach ==
    \A k \in DOMAIN admitted :
        LET a == admitted[k]
            session == sessions[a.session]
        IN  \E policy \in a.route :
                /\ \/ "ADMIN" \in session.permissions
                   \/ policy.required \in session.permissions /\ (policy.scoped => a.owner = session.user)
                /\ policy.changes => a.trusted

(* Every request the gate let through was entitled to pass: of a live      *)
(* session of the user it concerns.                                        *)
AdmissionsAreLawful == SessionsStayLive /\ OthersAreOutOfReach
=============================================================================
