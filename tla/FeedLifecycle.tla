--------------------------- MODULE FeedLifecycle ---------------------------
(***************************************************************************)
(* Market data collection: the sessions, gaps and watchdog of one feed     *)
(* (marketdata/lifecycle.py), the client that opens it (providers/upstox/  *)
(* ws.py, or v3.py), the provider that records its messages, the collector *)
(* that stores them and recovers gaps (collector.py, recovery.py), and the *)
(* runtime around them (runtime.py).  A step ends at an await.             *)
(*                                                                         *)
(* The clock is left out: the watchdog may find the feed stale whenever a  *)
(* read times out.  One channel, one expiry to recover.                    *)
(***************************************************************************)
EXTENDS Naturals, Sequences, FiniteSets

CONSTANTS
    MaxSessions,    \* bound: sessions opened
    MaxSequence,    \* bound: sequence numbers of a session
    MaxStale        \* bound: times the watchdog fires

ASSUME FeedAssumption == MaxSequence \in Nat

VARIABLES
    client,         \* "V2" (ws.py) or "V3" (v3.py), chosen at the start
    connection,     \* SessionManager.state
    sessions,       \* [open, first, last, received], the current one last
    gaps,           \* every gap recorded: [kind, session, from, to]
    drained,        \* how many of them the collector has taken
    todo,           \* gaps taken and not yet recovered
    planned,        \* the recovery plans, with whether the re-fetch was stored
    dropped,        \* gaps taken and forgotten, when the store failed
    running,        \* CanonicalCollector._running
    task            \* where the collecting task waits

feedVars == <<client, connection, sessions, gaps, drained, todo, planned, dropped, running, task>>

PermittedConnection ==
    [idle           |-> {"connecting", "stopped"},
     connecting     |-> {"authenticating", "disconnected"},
     authenticating |-> {"subscribing", "disconnected"},
     subscribing    |-> {"streaming", "disconnected"},
     streaming      |-> {"recovering", "disconnected", "stopped"},
     recovering     |-> {"streaming", "disconnected", "stopped"},
     disconnected   |-> {"connecting", "stopped"},
     stopped        |-> {}]

MayTransition(to) == to \in PermittedConnection[connection]

Current == Len(sessions)

FeedInit ==
    /\ client \in {"V2", "V3"}
    /\ connection = "idle"
    /\ sessions = <<>>
    /\ gaps = <<>>
    /\ drained = 0
    /\ todo = <<>>
    /\ planned = {}
    /\ dropped = {}
    /\ running = FALSE
    /\ task = "down"

NewSession == [open |-> TRUE, first |-> 0, last |-> 0, received |-> {}]

\* Mutant: superseding an open session records no outage.
OpenedIfClosed ==
    /\ gaps' = IF Current > 0 /\ ~sessions[Current].open
               THEN Append(gaps, [kind |-> "RECONNECT", session |-> Current, from |-> 0, to |-> 0])
               ELSE gaps
    /\ sessions' = Append(sessions, NewSession)

(* open_session closes the one that is still open, and records the outage  *)
(* after any that came before.                                             *)
OpenSession ==
    /\ gaps' = IF Current > 0
               THEN Append(gaps, [kind |-> "RECONNECT", session |-> Current, from |-> 0, to |-> 0])
               ELSE gaps
    /\ sessions' = Append([s \in DOMAIN sessions |-> [sessions[s] EXCEPT !.open = FALSE]],
                          NewSession)

Closed == [s \in DOMAIN sessions |-> [sessions[s] EXCEPT !.open = FALSE]]

\* Mutant: a late message takes the watermark back.
RecordLastMessage(n) ==
    LET last == sessions[Current].last
        jump == n # 0 /\ last # 0 /\ n > last + 1
    IN  /\ gaps' = IF jump THEN Append(gaps, [kind |-> "WEBSOCKET", session |-> Current,
                                              from |-> last + 1, to |-> n - 1])
                   ELSE gaps
        /\ sessions' = [sessions EXCEPT ![Current].first = IF last = 0 THEN n ELSE @,
                                        ![Current].last = IF n # 0 THEN n ELSE @,
                                        ![Current].received = @ \cup ({n} \ {0})]

(* n = 0 is a message without a sequence: under WEAK confidence nothing is *)
(* detected and nothing claimed.                                           *)
RecordMessage(n) ==
    LET last == sessions[Current].last
        jump == n # 0 /\ last # 0 /\ n > last + 1
    IN  /\ gaps' = IF jump THEN Append(gaps, [kind |-> "WEBSOCKET", session |-> Current,
                                              from |-> last + 1, to |-> n - 1])
                   ELSE gaps
        /\ sessions' = [sessions EXCEPT ![Current].first = IF last = 0 THEN n ELSE @,
                                        ![Current].last = IF n > @ THEN n ELSE @,
                                        ![Current].received = @ \cup ({n} \ {0})]
-----------------------------------------------------------------------------
(* IngestorRuntime.run walks the connection to streaming and opens a       *)
(* session before the collector starts; a collector may also be started    *)
(* without it.                                                             *)
Start(walked) ==
    /\ task = "down"
    /\ ~running
    /\ IF walked THEN connection' = "streaming" /\ OpenSession
                 ELSE UNCHANGED <<connection, sessions, gaps>>
    /\ running' = TRUE
    /\ task' = "retrying"
    /\ UNCHANGED <<client, drained, todo, planned, dropped>>

\* Mutant: the finally clause looks only for an open session.
EndAttemptSessionOnly ==
    /\ sessions' = Closed
    /\ task' = "retrying"
    /\ UNCHANGED connection

(* The finally clause of UpstoxWebSocketClient.stream: only a streaming    *)
(* connection is marked disconnected.  The V3 client has no such clause.   *)
EndAttempt ==
    /\ IF client = "V2"
       THEN /\ sessions' = Closed
            /\ connection' = IF connection = "streaming" THEN "disconnected" ELSE connection
       ELSE UNCHANGED <<sessions, connection>>
    /\ task' = "retrying"

FirstState == IF client = "V2" THEN "connecting" ELSE "authenticating"

BeginAttempt ==
    /\ task = "retrying"
    /\ MayTransition(FirstState)
    /\ connection' = FirstState
    /\ task' = "opening"
    /\ UNCHANGED <<client, sessions, gaps, drained, todo, planned, dropped, running>>

(* An illegal transition is one more error of the attempt.                 *)
RefuseAttempt ==
    /\ task = "retrying"
    /\ ~MayTransition(FirstState)
    /\ EndAttempt
    /\ UNCHANGED <<client, gaps, drained, todo, planned, dropped, running>>

(* The V3 client goes through the same states from authenticating on.      *)
Opened ==
    /\ task = "opening"
    /\ connection' = "subscribing"
    /\ task' = "subscribing"
    /\ UNCHANGED <<client, sessions, gaps, drained, todo, planned, dropped, running>>

(* Only the V2 client opens a session; the V3 client leaves the one of the *)
(* runtime, if any, as it is.                                              *)
Subscribed ==
    /\ task = "subscribing"
    /\ Current < MaxSessions
    /\ connection' = "streaming"
    /\ IF client = "V2" THEN OpenSession ELSE UNCHANGED <<sessions, gaps>>
    /\ task' = "reading"
    /\ UNCHANGED <<client, drained, todo, planned, dropped, running>>

(* Opening or subscribing raises, or the connection drops while reading.   *)
AttemptFails ==
    /\ task \in {"opening", "subscribing"}
    /\ EndAttempt
    /\ UNCHANGED <<client, gaps, drained, todo, planned, dropped, running>>

ConnectionLost ==
    /\ task = "reading"
    /\ EndAttempt
    /\ UNCHANGED <<client, gaps, drained, todo, planned, dropped, running>>

(* Only the V2 client reads with a timeout.                                *)
WatchdogFires ==
    /\ task = "reading"
    /\ client = "V2"
    /\ Cardinality({g \in DOMAIN gaps : gaps[g].kind = "STALE"}) < MaxStale
    /\ gaps' = Append(gaps, [kind |-> "STALE", session |-> Current, from |-> 0, to |-> 0])
    /\ EndAttempt
    /\ UNCHANGED <<client, drained, todo, planned, dropped, running>>

(* The provider drops a frame when there is no session at all.             *)
Receive(n) ==
    /\ task = "reading"
    /\ Current > 0
    /\ client = "V3" => n = 0
    /\ RecordMessage(n)
    /\ task' = "storing"
    /\ UNCHANGED <<client, connection, drained, todo, planned, dropped, running>>

\* Mutant: the gaps of the last frame only.
StoredLastGap ==
    /\ task = "storing"
    /\ todo' = IF drained < Len(gaps) THEN <<Len(gaps)>> ELSE <<>>
    /\ drained' = Len(gaps)
    /\ task' = "recovering"
    /\ UNCHANGED <<client, connection, sessions, gaps, planned, dropped, running>>

(* The frame is stored; the collector takes the gaps recorded since it     *)
(* last did, of whichever session.                                         *)
Stored ==
    /\ task = "storing"
    /\ todo' = SubSeq([g \in DOMAIN gaps |-> g], drained + 1, Len(gaps))
    /\ drained' = Len(gaps)
    /\ task' = "recovering"
    /\ UNCHANGED <<client, connection, sessions, gaps, planned, dropped, running>>

(* plan_recovery: a gap is an issue, and a mere warning only where the     *)
(* feed was silent and no message is known to be missing.                  *)
PlanRecovery(g, fetched) ==
    [gap |-> g, stored |-> fetched,
     severity |-> IF gaps[g].kind = "STALE" THEN "WARNING" ELSE "DEGRADED"]

(* recover_after_gap: the gap becomes an issue, and the chain is fetched   *)
(* again; a fetch that fails is logged and left at that.                   *)
Recover(fetched) ==
    /\ task = "recovering"
    /\ todo # <<>>
    /\ planned' = planned \cup {PlanRecovery(Head(todo), fetched)}
    /\ todo' = Tail(todo)
    /\ UNCHANGED <<client, connection, sessions, gaps, drained, dropped, running, task>>

RecoveredAll ==
    /\ task = "recovering"
    /\ todo = <<>>
    /\ task' = "reading"
    /\ UNCHANGED <<client, connection, sessions, gaps, drained, todo, planned, dropped, running>>

(* The store raises.  While it stores a frame, the frame is lost; while it *)
(* stores a recovered chain, so are the gaps still to do, this one with    *)
(* its issue.  The abandoned generator is closed, which ends the attempt.  *)
StoreFails ==
    /\ task \in {"storing", "recovering"}
    /\ task = "recovering" => todo # <<>>
    /\ planned' = IF task = "recovering" THEN planned \cup {PlanRecovery(Head(todo), FALSE)}
                  ELSE planned
    /\ dropped' = dropped \cup {todo[i] : i \in 2 .. Len(todo)}
    /\ todo' = <<>>
    /\ EndAttempt
    /\ UNCHANGED <<client, gaps, drained, running>>

(* shutdown closes the session and tells the collector, which looks only   *)
(* when the stream has ended, to stop.                                     *)
Shutdown ==
    /\ running
    /\ running' = FALSE
    /\ sessions' = Closed
    /\ UNCHANGED <<client, connection, gaps, drained, todo, planned, dropped, task>>

(* The V2 stream never ends, so the collector behind it never looks; the   *)
(* V3 stream ends with an error, and then it does.                         *)
Stop ==
    /\ ~running
    /\ client = "V3"
    /\ task = "retrying"
    /\ task' = "stopped"
    /\ UNCHANGED <<client, connection, sessions, gaps, drained, todo, planned, dropped, running>>

Attempt == BeginAttempt \/ RefuseAttempt

FeedNext ==
    \/ \E walked \in BOOLEAN : Start(walked)
    \/ BeginAttempt
    \/ RefuseAttempt
    \/ Opened
    \/ Subscribed
    \/ AttemptFails
    \/ ConnectionLost
    \/ WatchdogFires
    \/ \E n \in 0 .. MaxSequence : Receive(n)
    \/ Stored
    \/ \E fetched \in BOOLEAN : Recover(fetched)
    \/ RecoveredAll
    \/ StoreFails
    \/ Shutdown
    \/ Stop

(* The event loop runs the task on from every await: an attempt begins     *)
(* after its delay, and what it waits for ends, well or not.               *)
FeedFairness ==
    /\ WF_feedVars(Attempt)
    /\ WF_feedVars(Opened \/ AttemptFails)
    /\ WF_feedVars(Subscribed \/ AttemptFails)

FeedSpec == FeedInit /\ [][FeedNext]_feedVars /\ FeedFairness
-----------------------------------------------------------------------------
GapsOf(s, kind) == {g \in DOMAIN gaps : gaps[g].session = s /\ gaps[g].kind = kind}

Covers(g, n) == gaps[g].from <= n /\ n <= gaps[g].to

(* Whatever order frames come in, with repeats, and however often the feed *)
(* reconnects and counts anew: a sequence number between the first one of  *)
(* a session and its highest that was not received is in exactly one gap   *)
(* of that session, and no gap reaches beyond them.                        *)
MissingIsRecordedOnce ==
    \A s \in DOMAIN sessions : \A n \in 1 .. MaxSequence :
        LET holes == {g \in GapsOf(s, "WEBSOCKET") : Covers(g, n)}
        IN  /\ Cardinality(holes) <= 1
            /\ holes # {} => sessions[s].first < n /\ n < sessions[s].last
            /\ (sessions[s].first < n /\ n < sessions[s].last
                 /\ n \notin sessions[s].received) => holes # {}

(* Between any two sessions there is one outage on record, and every gap   *)
(* the collector has taken is recovered, being recovered, or was lost to a *)
(* failing store: none is taken twice, none is passed over.                *)
OutagesAndRecoveries ==
    /\ \A s \in DOMAIN sessions :
          Cardinality(GapsOf(s, "RECONNECT")) = IF s < Current THEN 1 ELSE 0
    /\ \A g \in DOMAIN gaps :
          LET fates == {x \in {"todo", "planned", "dropped"} :
                          \/ x = "todo" /\ g \in {todo[i] : i \in DOMAIN todo}
                          \/ x = "planned" /\ g \in {p.gap : p \in planned}
                          \/ x = "dropped" /\ g \in dropped}
          IN  Cardinality(fates) = IF g <= drained THEN 1 ELSE 0

(* Every hole and outage of the feed is on record once, and followed up.   *)
GapsAreAccountedFor == MissingIsRecordedOnce /\ OutagesAndRecoveries

(* A connection left between connecting and streaming cannot begin again.  *)
Wedged == task = "retrying" /\ ~MayTransition("connecting") /\ connection # "streaming"

(* "Yield frames forever, reconnecting with backoff" (ws.py): a V2 feed    *)
(* that has to reconnect streams again, unless opening it failed; the      *)
(* session bound is not the code's.                                        *)
Reconnects ==
    (client = "V2" /\ task = "retrying")
        ~> (task = "reading" \/ Wedged \/ Current = MaxSessions)
=============================================================================
