---------------------------- MODULE MC_Collector ----------------------------
(***************************************************************************)
(* Two users collecting the same chain; its legs and figures come and go.  *)
(***************************************************************************)
EXTENDS OiReader, TLC

CONSTANTS u1, u2

Leg(oi, ltp) == [oi |-> oi, ltp |-> ltp]

ThinChain ==
    [spot |-> 20,
     rows |-> 10 :> [CE |-> Leg(2, 3), PE |-> Leg(None, 1)]
           @@ 30 :> [CE |-> None,      PE |-> Leg(1, 1)]
           @@ 40 :> [CE |-> Leg(0, 1), PE |-> None]]

FullChain ==
    [spot |-> None,
     rows |-> 10 :> [CE |-> Leg(1, 4), PE |-> Leg(3, None)]
           @@ 30 :> [CE |-> Leg(4, 1), PE |-> Leg(0, 2)]
           @@ 40 :> [CE |-> Leg(1, 1), PE |-> Leg(2, 9)]]

BothChains == {ThinChain, FullChain}
=============================================================================
