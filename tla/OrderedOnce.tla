---------------------------- MODULE OrderedOnce ----------------------------
(***************************************************************************)
(* What consumers of domain events are promised: of each aggregate, every  *)
(* event in its sequence, and each of them once.                           *)
(***************************************************************************)
EXTENDS Naturals

CONSTANTS Consumers, Aggregates, MaxSequence

VARIABLE applied    \* consumer -> aggregate -> how many of its events

Init == applied = [s \in Consumers |-> [a \in Aggregates |-> 0]]

ApplyNext(s, a) ==
    /\ applied[s][a] < MaxSequence
    /\ applied' = [applied EXCEPT ![s][a] = @ + 1]

Next == \E s \in Consumers, a \in Aggregates : ApplyNext(s, a)

Spec == Init /\ [][Next]_applied
=============================================================================
