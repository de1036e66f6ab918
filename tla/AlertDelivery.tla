--------------------------- MODULE AlertDelivery ---------------------------
(***************************************************************************)
(* Alerts about the signals of a stream: routing with deduplication and    *)
(* cooldown (alerts/routing.py), the rule and the occurrences              *)
(* (alerts/model.py), and delivery with retries (alerts/delivery.py).  A   *)
(* restart forgets the router, which is restored from what was stored.     *)
(***************************************************************************)
EXTENDS SignalEvaluation

CONSTANTS
    Cooldown, DedupWindow,  \* of the one alert rule
    MaxAlerts               \* bound: alerts raised

(* Both are lengths of time, and a window of none holds nothing.           *)
ASSUME AlertAssumption == Cooldown \in Nat /\ DedupWindow \in Nat \ {0}

VARIABLES
    byKey,      \* AlertRouter._by_key: dedup key -> index of its occurrence
    lastAt,     \* AlertRouter._last_by_stream: signal id -> when last
    stored      \* occurrences the caller keeps, in the order raised

alertVars == <<byKey, lastAt, stored>>

AlertInit == byKey = <<>> /\ lastAt = <<>> /\ stored = <<>>

(* A signal id names one evaluation: market time and horizon are part of   *)
(* it.                                                                     *)
SignalId(n) == <<n, signals[n].market, signals[n].horizon>>

Matches(n) == signals[n].status \in {"ACTIVE", "CONFIRMED"} /\ signals[n].strength >= 1

(* The stream, the status and the fixed window now is in.                  *)
DedupKeyOf(n) == <<n, signals[n].status, now \div DedupWindow>>

Put(f, x, y) == [z \in DOMAIN f \cup {x} |-> IF z = x THEN y ELSE f[z]]

OnCooldown(n) == SignalId(n) \in DOMAIN lastAt /\ now - lastAt[SignalId(n)] < Cooldown

(* deliver_with_retry: up to three attempts, ending with the first that    *)
(* reports success; a send may arrive and report failure all the same.     *)
(* An occurrence is routed, and delivered by one attempt or by none; one   *)
(* that is suppressed is returned to the caller, not kept.                 *)
RouteAndDeliver(n, succeeded) ==
    /\ Matches(n)
    /\ DedupKeyOf(n) \notin DOMAIN byKey
    /\ ~OnCooldown(n)
    /\ Len(stored) < MaxAlerts
    /\ stored' = Append(stored, [stream |-> n, about |-> SignalId(n), reported |-> signals[n].status,
                                 key |-> DedupKeyOf(n), at |-> now,
                                 status |-> IF succeeded THEN "delivered" ELSE "failed"])
    /\ byKey' = Put(byKey, DedupKeyOf(n), Len(stored'))
    /\ lastAt' = Put(lastAt, SignalId(n), now)

\* Mutant: the dedup index is not rebuilt.
RestoreCooldowns ==
    /\ byKey' = <<>>
    /\ lastAt' = [id \in {o.about : o \in ToSet(stored)} |->
                     Max({o.at : o \in {p \in ToSet(stored) : p.about = id}})]

Restore ==
    /\ byKey' = [key \in {o.key : o \in ToSet(stored)} |->
                     CHOOSE k \in DOMAIN stored : stored[k].key = key]
    /\ lastAt' = [id \in {o.about : o \in ToSet(stored)} |->
                     Max({o.at : o \in {p \in ToSet(stored) : p.about = id}})]

RestartRouter == Restore /\ UNCHANGED stored

AlertStep ==
    \/ \E n \in DOMAIN signals, succeeded \in BOOLEAN : RouteAndDeliver(n, succeeded)
    \/ RestartRouter

AlertNext ==
    \/ (EvaluateLive \/ TimePasses) /\ UNCHANGED alertVars
    \/ AlertStep /\ UNCHANGED signalVars

AlertSpec == SignalInit /\ AlertInit /\ [][AlertNext]_<<signalVars, alertVars>>
-----------------------------------------------------------------------------
(* "Two evaluations of one developing signal inside the window are one     *)
(* alert", and no restart alerts again: one status of one occurrence is    *)
(* reported once in a window, and of one evaluation once in a cooldown.    *)
ToldOncePerWindow ==
    \A k, l \in DOMAIN stored :
        (k < l /\ stored[k].stream = stored[l].stream) =>
            /\ stored[k].reported = stored[l].reported
                  => stored[k].at \div DedupWindow # stored[l].at \div DedupWindow
            /\ stored[k].about = stored[l].about => stored[l].at - stored[k].at >= Cooldown
=============================================================================
