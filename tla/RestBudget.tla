----------------------------- MODULE RestBudget -----------------------------
(***************************************************************************)
(* The request budget of one endpoint class (marketdata/ratelimit.py) and  *)
(* the callers that queue on it, send, and retry (providers/upstox/        *)
(* rest.py).  Time moves in ticks while they sleep; ages stop counting at  *)
(* the window, where they no longer matter.                                *)
(***************************************************************************)
EXTENDS Integers, Sequences, FiniteSets

CONSTANTS
    Callers,
    Budget, Window,     \* RateLimitPolicy
    RetryAfters         \* delays the provider may ask for

(* A policy grants something, for some time.                               *)
ASSUME BudgetAssumption == Budget \in Nat \ {0} /\ Window \in Nat \ {0}

VARIABLES
    hits,       \* ages of the requests granted, oldest first
    backoff,    \* ticks of provider-directed backoff left
    sends,      \* for checking: ages of the requests sent
    calls       \* caller -> [at, attempt, sleep]

restVars == <<hits, backoff, sends, calls>>

MaxAttempts == 3

RestInit ==
    /\ hits = <<>>
    /\ backoff = 0
    /\ sends = <<>>
    /\ calls = [c \in Callers |-> [at |-> "idle", attempt |-> 1, sleep |-> 0]]

\* Mutant: a request stays in the window it was made in.
LiveForever(ages) == ages

(* The oldest is dropped while it is out of the window.                    *)
Live(ages) ==
    LET kept == {n \in 0 .. Len(ages) : n = Len(ages) \/ ages[n + 1] < Window}
        gone == CHOOSE n \in kept : \A m \in kept : n <= m
    IN  SubSeq(ages, gone + 1, Len(ages))

Moved(c, at, sleep) == calls' = [calls EXCEPT ![c].at = at, ![c].sleep = sleep]

Awake(c) == calls[c].at = "ready" /\ calls[c].sleep = 0

Begin(c) ==
    /\ calls[c].at = "idle"
    /\ Moved(c, "ready", 0)
    /\ UNCHANGED <<hits, backoff, sends>>

Sent(c) ==
    /\ sends' = Append(Live(sends), 0)
    /\ Moved(c, "sent", 0)

(* acquire, granted: the hits out of the window are forgotten first.       *)
Acquire(c) ==
    /\ Awake(c)
    /\ backoff = 0
    /\ Len(Live(hits)) < Budget
    /\ hits' = Append(Live(hits), 0)
    /\ Sent(c)
    /\ UNCHANGED backoff

(* Not granted: the caller sleeps until the backoff ends, or until the     *)
(* oldest hit leaves the window, and asks again.                           *)
Wait(c) ==
    /\ Awake(c)
    /\ \/ backoff > 0 /\ Moved(c, "ready", backoff) /\ UNCHANGED hits
       \/ /\ backoff = 0
          /\ Len(Live(hits)) >= Budget
          /\ hits' = Live(hits)
          /\ Moved(c, "ready", Window - Head(hits'))
    /\ UNCHANGED <<backoff, sends>>

\* Mutant: the budget is asked for the first attempt only.
AgainUnasked(c, delay) ==
    IF calls[c].attempt = MaxAttempts
    THEN Moved(c, "failed", 0) /\ UNCHANGED sends
    ELSE /\ calls' = [calls EXCEPT ![c].attempt = @ + 1]
         /\ sends' = Append(Live(sends), 0)

Again(c, delay) ==
    /\ IF calls[c].attempt = MaxAttempts
       THEN Moved(c, "failed", 0)
       ELSE calls' = [calls EXCEPT ![c] = [at |-> "ready", attempt |-> @.attempt + 1, sleep |-> delay]]
    /\ UNCHANGED sends

(* A body, or an error that is not retried: 401, another 4xx, a body that  *)
(* is no object.                                                           *)
Answered(c) ==
    /\ calls[c].at = "sent"
    /\ \E at \in {"answered", "failed"} : Moved(c, at, 0)
    /\ UNCHANGED <<hits, backoff, sends>>

(* The network or the server failed: 1, then 2 seconds and a little.       *)
ServerFails(c) ==
    /\ calls[c].at = "sent"
    /\ Again(c, calls[c].attempt)
    /\ UNCHANGED <<hits, backoff>>

(* 429: the delay holds for the whole class, whatever it was before.       *)
RateLimited(c, retryAfter) ==
    /\ calls[c].at = "sent"
    /\ backoff' = retryAfter
    /\ Again(c, retryAfter)
    /\ UNCHANGED hits

Respond(c) == Answered(c) \/ ServerFails(c) \/ \E r \in RetryAfters : RateLimited(c, r)

Less(n) == IF n = 0 THEN 0 ELSE n - 1

Older(ages) == [n \in DOMAIN ages |-> IF ages[n] < Window THEN ages[n] + 1 ELSE Window]

Tick ==
    /\ hits' = Older(hits)
    /\ sends' = Older(Live(sends))
    /\ backoff' = Less(backoff)
    /\ calls' = [c \in Callers |-> [calls[c] EXCEPT !.sleep = Less(@)]]

RestNext == Tick \/ \E c \in Callers : Begin(c) \/ Acquire(c) \/ Wait(c) \/ Respond(c)

RestSpec == RestInit /\ [][RestNext]_restVars

(* Time passes, sleepers wake, and a request is answered or times out.     *)
RestFairness ==
    /\ WF_restVars(Tick)
    /\ \A c \in Callers : WF_restVars(Acquire(c) \/ Wait(c)) /\ WF_restVars(Respond(c))
-----------------------------------------------------------------------------
(* "Every caller acquires budget before issuing a request" (ratelimit.py): *)
(* with retries and whoever sends, no window has more sends than budget.   *)
SendsStayInBudget == Len(Live(sends)) <= Budget

(* "Budget exhaustion queues, never fails" (rest.py): with as many callers *)
(* as there are, each one is answered or fails for another reason.         *)
CallersAreServed ==
    \A c \in Callers : calls[c].at = "ready" ~> calls[c].at \in {"answered", "failed"}
=============================================================================
