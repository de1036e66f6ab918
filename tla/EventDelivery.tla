--------------------------- MODULE EventDelivery ---------------------------
(***************************************************************************)
(* Domain events from the outbox to a consumer: oipulse/events/domain.py,  *)
(* events/inbox.py and AggregateWatermarks of trading/events.py.  Delivery *)
(* is at least once and in any order; a consumer's mutation may fail.      *)
(***************************************************************************)
EXTENDS Naturals, Sequences, FiniteSets

CONSTANTS
    Subscribers,    \* consumers that share one AggregateWatermarks
    Aggregates,
    MaxEvents       \* bound: events of an aggregate

ASSUME DeliveryAssumption == MaxEvents \in Nat

VARIABLES
    issued,        \* aggregate -> last sequence emitted
    outbox,         \* the events emitted, each to be delivered any number of times
    claims,         \* the inbox: <<subscriber, event>>
    watermark,      \* aggregate -> highest sequence applied
    log             \* subscriber -> aggregate -> the sequences applied, in order

deliveryVars == <<issued, outbox, claims, watermark, log>>

DomainEvents == [aggregate : Aggregates, sequence : 1 .. MaxEvents]

DeliveryInit ==
    /\ issued = [a \in Aggregates |-> 0]
    /\ outbox = {}
    /\ claims = {}
    /\ watermark = [a \in Aggregates |-> 0]
    /\ log = [s \in Subscribers |-> [a \in Aggregates |-> <<>>]]

Emit(a) ==
    /\ issued[a] < MaxEvents
    /\ issued' = [issued EXCEPT ![a] = @ + 1]
    /\ outbox' = outbox \cup {[aggregate |-> a, sequence |-> issued[a] + 1]}
    /\ UNCHANGED <<claims, watermark, log>>

\* Mutant: one off: the event after the next is in turn too.
SequenceGapLate(e) == e.sequence > watermark[e.aggregate] + 2

SequenceGap(e) == e.sequence > watermark[e.aggregate] + 1

\* Mutant: nobody looks whether the event was applied.
ClaimAny(s, e) == TRUE

Claim(s, e) == <<s, e>> \notin claims

\* Mutant: the mutation commits without its watermark.
RecordNothing(e) == UNCHANGED watermark

Record(e) ==
    watermark' = [watermark EXCEPT ![e.aggregate] = IF e.sequence > @ THEN e.sequence ELSE @]

(* Deferred, absorbed, or a mutation that failed and released its claim:   *)
(* the event stays in the outbox.                                          *)
DeliverInVain(s, e) ==
    /\ e \in outbox
    /\ UNCHANGED deliveryVars

(* Claim, mutation and watermark commit together.                          *)
ApplyOrdered(s, e) ==
    /\ e \in outbox
    /\ ~SequenceGap(e)
    /\ Claim(s, e)
    /\ claims' = claims \cup {<<s, e>>}
    /\ log' = [log EXCEPT ![s][e.aggregate] = Append(@, e.sequence)]
    /\ Record(e)
    /\ UNCHANGED <<issued, outbox>>

DeliveryNext ==
    \/ \E a \in Aggregates : Emit(a)
    \/ \E s \in Subscribers, e \in outbox : DeliverInVain(s, e) \/ ApplyOrdered(s, e)

DeliverySpec == DeliveryInit /\ [][DeliveryNext]_deliveryVars

(* The dispatcher keeps delivering what is not applied, and a mutation     *)
(* that is tried again and again succeeds some time.                       *)
DeliveryFairness == \A s \in Subscribers, e \in DomainEvents : SF_deliveryVars(ApplyOrdered(s, e))
-----------------------------------------------------------------------------
(* The consumer implements what is promised of it: never an event before   *)
(* its predecessor nor twice, over reordered, repeated and failed          *)
(* deliveries.                                                             *)
Promise == INSTANCE OrderedOnce WITH
    Consumers <- Subscribers,
    MaxSequence <- MaxEvents,
    applied <- [s \in Subscribers |-> [a \in Aggregates |->
                   IF log[s][a] = [n \in 1 .. Len(log[s][a]) |-> n] THEN Len(log[s][a]) ELSE 0]]

RefinesPromise == Promise!Spec

(* "Deferred, not dropped": whatever was emitted is applied in the end.    *)
EveryEventIsApplied ==
    \A s \in Subscribers, e \in DomainEvents : (e \in outbox) ~> (<<s, e>> \in claims)
=============================================================================
