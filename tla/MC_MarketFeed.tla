---------------------------- MODULE MC_MarketFeed ----------------------------
(***************************************************************************)
(* Collecting from the provider: over the feed, by request, and the        *)
(* process that does it.  The three share no state that is modelled: a     *)
(* behaviour moves one of them from the start, and the others stay where   *)
(* they begin, where nothing is fair.                                      *)
(***************************************************************************)
EXTENDS FeedLifecycle, RestBudget, IngestorProcess

CONSTANTS c1, c2, c3, k1, k2

(* One key, two, one listed twice, two keys of one instrument.             *)
MC_Shards ==
    {<<<<k1, 1>>>>, <<<<k1, 1>>, <<k2, 2>>>>, <<<<k1, 1>>, <<k1, 2>>>>,
     <<<<k1, 2>>, <<k2, 2>>, <<k1, 1>>>>}

Init == FeedInit /\ RestInit /\ ProcessInit

(* One of the two clients is enough for what happens without a feed.       *)
FeedIdle == task = "down" /\ client = "V2"
ProcessIdle == stage = "down"

Next ==
    \/ RestInit /\ ProcessIdle /\ FeedNext /\ UNCHANGED <<restVars, processVars>>
    \/ FeedIdle /\ ProcessIdle /\ RestNext /\ UNCHANGED <<feedVars, processVars>>
    \/ FeedIdle /\ RestInit /\ ProcessNext /\ UNCHANGED <<feedVars, restVars>>

Spec ==
    /\ Init
    /\ [][Next]_<<feedVars, restVars, processVars>>
    /\ FeedFairness /\ RestFairness /\ ProcessFairness

(* Reconnecting, waiting for the budget, starting and stopping all end.    *)
NobodyWaitsForEver == Reconnects /\ CallersAreServed /\ ProcessesGetOn
=============================================================================
