-------------------------- MODULE MigrationTracker --------------------------
(***************************************************************************)
(* Migrations of open interest as tracked entities:                        *)
(* oipulse/analytics/migration.py.  One expiry and option type; a window's *)
(* observation has a direction, whether its magnitude reaches the          *)
(* threshold, and a time, which the caller gives.  `windows` of an entity  *)
(* are the observations that it was advanced by.                           *)
(***************************************************************************)
EXTENDS Naturals, Sequences, FiniteSets

CONSTANTS
    ConfirmAfter,       \* consecutive windows until a migration is confirmed
    LastWindow          \* bound: observations

ASSUME TrackerAssumption == ConfirmAfter \in Nat /\ LastWindow \in Nat

VARIABLES
    live,       \* the live migration of each direction
    faded,      \* those that faded, in order
    observed    \* history: the observations, in order

trackerVars == <<live, faded, observed>>

Directions == {"UP", "DOWN"}

Forming(o, at) == [direction |-> o.direction, status |-> "FORMING", origin |-> at, destination |-> at,
                   first |-> at, last |-> at, windows |-> 1]

\* Mutant: what falls below the threshold is forgotten, not faded.
FadeForgotten(m, at) == <<>>

(* The entity that ends, as it is kept.                                    *)
Fade(m, at) == <<[m EXCEPT !.status = "FADED", !.last = at]>>

(* The destination advances; the origin stays.                             *)
Advanced(m, at) ==
    [m EXCEPT !.destination = at, !.last = at, !.windows = @ + 1,
              !.status = IF m.windows + 1 >= ConfirmAfter THEN "CONFIRMED" ELSE @]
-----------------------------------------------------------------------------
TrackerInit == live = [d \in {} |-> {}] /\ faded = <<>> /\ observed = <<>>

(* The strikes of an observation are named by its place in the sequence.   *)
Observe(o) ==
    LET at == Len(observed) + 1
        known == o.direction \in DOMAIN live
    IN  /\ Len(observed) < LastWindow
        /\ observed' = Append(observed, o)
        /\ \/ /\ ~o.above
              /\ faded' = faded \o (IF known THEN Fade(live[o.direction], at) ELSE <<>>)
              /\ live' = [d \in DOMAIN live \ {o.direction} |-> live[d]]
           \/ /\ o.above
              /\ live' = [d \in DOMAIN live \cup {o.direction} |->
                            IF d # o.direction THEN live[d]
                            ELSE IF known THEN Advanced(live[d], at) ELSE Forming(o, at)]
              /\ UNCHANGED faded

TrackerNext == \E d \in Directions, above \in BOOLEAN : Observe([direction |-> d, above |-> above])

TrackerSpec == TrackerInit /\ [][TrackerNext]_trackerVars
-----------------------------------------------------------------------------
Entities == {live[d] : d \in DOMAIN live} \cup {faded[n] : n \in DOMAIN faded}

(* The observations that entity m covers, from its first to its last.      *)
Covered(m) == {n \in m.first .. m.last : observed[n].direction = m.direction}

(* The entities tile the record: every observation above the threshold is  *)
(* of exactly one entity of its direction, whose windows it counts; an     *)
(* entity is confirmed exactly when it lasted, begins where it was first   *)
(* seen and points where it was last above; one that faded ended at the    *)
(* observation below (migration.py, `observe`).                            *)
EntitiesTileTheLog ==
    /\ \A n \in DOMAIN observed : observed[n].above =>
          Cardinality({m \in Entities : n \in Covered(m)}) = 1
    /\ \A m \in Entities :
          LET above == {n \in Covered(m) : observed[n].above}
          IN  /\ Cardinality(above) = m.windows
              /\ m.origin = m.first /\ m.destination \in above
              /\ \A n \in above : m.first <= n /\ n <= m.destination
              /\ m.status = "CONFIRMED" => m.windows >= ConfirmAfter
              /\ m.status = "FORMING" => m.windows < ConfirmAfter \/ m.windows = 1
              /\ (m.status = "FADED") = ~observed[m.last].above
    /\ \A n \in DOMAIN faded : \A o \in DOMAIN faded : n < o => faded[n].last < faded[o].last
=============================================================================
