------------------------ MODULE SubscriptionPlanner ------------------------
(***************************************************************************)
(* Planning a feed's subscriptions within the provider's limits:           *)
(* marketdata/subscription.py.  Pure: a question is the universe's         *)
(* instruments by data mode, the least informative last, and a budget.     *)
(***************************************************************************)
EXTENDS Integers, Sequences, FiniteSets, SequencesExt

CONSTANTS MaxFull, MaxGreeks, MaxLtpc, MaxProtected,    \* bounds of a request
          PoolSizes, Connections                        \* usable capacities, and how many connections

ASSUME PlannerAssumption ==
    {MaxFull, MaxGreeks, MaxLtpc, MaxProtected} \cup PoolSizes \cup Connections \subseteq Nat

VARIABLE plan       \* the question: <<request, budget>>, or less

Modes == <<"FULL", "GREEKS", "LTPC">>
ModeSet == {"FULL", "GREEKS", "LTPC"}

(* SubscriptionBudget.usable, the reserve already held back.               *)
Usable(budget, mode) == IF mode = "FULL" THEN budget.full ELSE budget.shared

CountOf(byMode, mode) == Len(byMode[mode])

TotalOfModes(byMode) == CountOf(byMode, "FULL") + CountOf(byMode, "GREEKS") + CountOf(byMode, "LTPC")

CeilDiv(a, b) == (a + b - 1) \div b

MaxOf(a, b) == IF a < b THEN b ELSE a

TooMany == 1073741824

ConnectionsNeeded(full, shared, perConnection) ==
    IF perConnection = 0 THEN TooMany
    ELSE IF full > 0 /\ shared > 0
    THEN CeilDiv(full, perConnection) + CeilDiv(shared, perConnection)
    ELSE MaxOf(1, CeilDiv(full + shared, perConnection))

\* Mutant: the shared pool is not looked at.
FitsFull(byMode, budget) == CountOf(byMode, "FULL") <= budget.full

(* LTPC and GREEKS share a pool; the larger pool counts the connections.   *)
Fits(byMode, budget) ==
    LET full == CountOf(byMode, "FULL")
        shared == CountOf(byMode, "LTPC") + CountOf(byMode, "GREEKS")
    IN  /\ full <= budget.full
        /\ shared <= budget.shared
        /\ ConnectionsNeeded(full, shared, MaxOf(budget.full, budget.shared)) <= budget.connections

(* Each mode in chunks of what a connection takes, none mixed.             *)
Allocate(byMode, budget) ==
    UNION {{[mode |-> mode, ids |-> SubSeq(byMode[mode], start + 1,
                                           IF start + Usable(budget, mode) < CountOf(byMode, mode)
                                           THEN start + Usable(budget, mode) ELSE CountOf(byMode, mode))] :
              start \in {n \in 0 .. CountOf(byMode, mode) - 1 : n % MaxOf(1, Usable(budget, mode)) = 0}} :
           mode \in ModeSet}

(* Those of the ids that are in S, in their order.                         *)
Among(ids, S) ==
    LET kept[n \in 0 .. Len(ids)] ==
            IF n = 0 THEN <<>>
            ELSE IF ids[n] \in S THEN Append(kept[n - 1], ids[n]) ELSE kept[n - 1]
    IN  kept[Len(ids)]

Unprotected(ids, protected) == Among(ids, Range(ids) \ protected)

(* Depth is dropped: FULL becomes GREEKS for what is not protected.        *)
Demote(byMode, protected) ==
    [byMode EXCEPT !["FULL"] = Among(@, protected),
                   !["GREEKS"] = @ \o Unprotected(byMode["FULL"], protected)]

\* Mutant: the tail is shed whatever it is.
VictimsOfAll(ids, protected) ==
    LET n == MaxOf(1, Len(ids) \div 4)
    IN  IF ids = <<>> THEN {} ELSE {ids[k] : k \in Len(ids) - n + 1 .. Len(ids)}

(* A quarter of what is not protected, at least one, from the tail.        *)
Victims(ids, protected) ==
    LET free == Unprotected(ids, protected)
        n == MaxOf(1, Len(free) \div 4)
    IN  IF free = <<>> THEN {} ELSE {free[k] : k \in Len(free) - n + 1 .. Len(free)}

ShedTail(byMode, protected) ==
    [mode \in ModeSet |->
        Among(byMode[mode], Range(byMode[mode]) \ Victims(byMode[mode], protected))]

(* The requests tried in turn: as it is, demoted, and shed three times.    *)
(* One that is no different from the one before fits no better than it.    *)
Ladder(request) ==
    LET demoted == Demote(request.byMode, request.protected)
        once == ShedTail(demoted, request.protected)
        twice == ShedTail(once, request.protected)
    IN  <<request.byMode, demoted, once, twice, ShedTail(twice, request.protected)>>

PlanOf(request, budget) ==
    LET ladder == Ladder(request)
        fitting == {n \in DOMAIN ladder : Fits(ladder[n], budget)}
        first == CHOOSE n \in fitting : \A m \in fitting : n <= m
    IN  IF fitting = {} THEN [verdict |-> "UNSATISFIABLE", allocations |-> {}]
        ELSE [verdict |-> IF first = 1 THEN "ACCEPTED" ELSE "DEGRADED",
              allocations |-> Allocate(ladder[first], budget)]
-----------------------------------------------------------------------------
Ids(mode, count) == [n \in 1 .. count |-> <<mode, n>>]

Requests ==
    {[byMode |-> [mode \in ModeSet |-> Ids(mode, counts[mode])],
      protected |-> {<<mode, n>> : mode \in ModeSet, n \in 1 .. protected}] :
        counts \in {c \in [ModeSet -> 0 .. MaxOf(MaxFull, MaxOf(MaxGreeks, MaxLtpc))] :
                       c["FULL"] <= MaxFull /\ c["GREEKS"] <= MaxGreeks /\ c["LTPC"] <= MaxLtpc},
        protected \in 0 .. MaxProtected}

Budgets == [full : PoolSizes, shared : PoolSizes, connections : Connections]

PlannerInit == plan = <<>>

AskPlan ==
    \/ plan = <<>> /\ plan' \in {<<budget>> : budget \in Budgets}
    \/ Len(plan) = 1 /\ plan' \in {<<request, plan[1]>> : request \in Requests}

PlannerNext == AskPlan \/ (Len(plan) = 2 /\ plan' = <<>>)

PlannerSpec == PlannerInit /\ [][PlannerNext]_plan

(* A plan is within the limits: each pool, each connection, and their      *)
(* number, but for one more when GREEKS and LTPC, counted together, are    *)
(* both subscribed.  What is protected is subscribed, in the mode asked    *)
(* for, and every instrument is subscribed once at most.                   *)
IsSound(made, request, budget) ==
    LET of(mode) == {a \in made.allocations : a.mode = mode}
        subscribed == UNION {Range(a.ids) : a \in made.allocations}
        asked == UNION {Range(request.byMode[mode]) : mode \in ModeSet}
        both == IF of("GREEKS") # {} /\ of("LTPC") # {} THEN 1 ELSE 0
    IN  /\ Cardinality(made.allocations) <= budget.connections + both
        /\ \A a \in made.allocations :
              /\ Len(a.ids) <= Usable(budget, a.mode)
              /\ \A b \in made.allocations : a # b => Range(a.ids) \cap Range(b.ids) = {}
        /\ \A i \in asked \cap request.protected :
              \E a \in made.allocations : i \in Range(a.ids) /\ a.mode = i[1]
        /\ subscribed \subseteq asked
        /\ made.verdict = "ACCEPTED" => subscribed = asked

(* No plan that is made is unsound: nothing protected is lost.             *)
PlansKeepWhatIsProtected ==
    Len(plan) = 2 =>
        \A made \in {PlanOf(plan[1], plan[2])} :
            made.verdict # "UNSATISFIABLE" => IsSound(made, plan[1], plan[2])
=============================================================================
