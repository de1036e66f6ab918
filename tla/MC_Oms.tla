------------------------------- MODULE MC_Oms -------------------------------
(***************************************************************************)
(* OmsSystem on small instances: two orders that are legs of two intents   *)
(* of one strategy on one instrument, so that either may block the other.  *)
(***************************************************************************)
EXTENDS OmsProperties, TLC

CONSTANTS o1, o2, i1, i2, good1, good2, small1

MC_IntentOf == o1 :> i1 @@ o2 :> i2

MC_ScopeOf == o1 :> "scope" @@ o2 :> "scope"

MC_QuantityOf == o1 :> 2 @@ o2 :> 1

Approval(i, n, horizon) ==
    [intent |-> i, evaluated |-> TRUE, verdict |-> "APPROVED", quantity |-> n,
     until |-> horizon]

\* A decision per intent that approves it until time 1, and one that risk cut
\* down to less than the order of the first intent asks for.
MC_DecisionRecord ==
    good1 :> Approval(i1, 2, 1)
    @@ good2 :> Approval(i2, 1, 1)
    @@ small1 :> [Approval(i1, 1, 2) EXCEPT !.verdict = "MODIFIED"]
=============================================================================
