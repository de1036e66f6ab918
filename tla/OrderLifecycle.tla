--------------------------- MODULE OrderLifecycle ---------------------------
(***************************************************************************)
(* The order state machine of oipulse/trading/orders.py: the states, the   *)
(* declared transition table, and the three questions the rest of the      *)
(* trading code asks of a state.                                           *)
(*                                                                         *)
(* Every component that moves an order (the OMS, the reconciler, the paper *)
(* runtime) goes through PaperOrder.transition, which raises on a move the *)
(* table does not list; a model of such a component therefore guards every *)
(* move by Permitted.                                                      *)
(***************************************************************************)

\* The states of class OrderState.
OrderStates ==
    {"CREATED", "SUBMITTING", "SUBMITTED", "ACCEPTED", "OPEN",
     "PARTIALLY_FILLED", "FILLED", "CANCEL_PENDING", "CANCELLED",
     "REJECTED", "EXPIRED", "UNKNOWN", "PENDING_RECONCILIATION"}

Terminal == {"FILLED", "CANCELLED", "REJECTED", "EXPIRED"}

\* The venue may or may not hold an order in one of these states.
Unresolved == {"UNKNOWN", "PENDING_RECONCILIATION"}

\* The table _PERMITTED: where a transition may lead from state s.
Permitted(s) ==
    CASE s = "CREATED" -> {"SUBMITTING", "ACCEPTED", "REJECTED"}
      [] s = "SUBMITTING" -> {"SUBMITTED", "ACCEPTED", "REJECTED", "UNKNOWN"}
      [] s = "SUBMITTED" ->
           {"ACCEPTED", "OPEN", "PARTIALLY_FILLED", "FILLED",
            "CANCEL_PENDING", "CANCELLED", "REJECTED", "EXPIRED", "UNKNOWN"}
      [] s = "ACCEPTED" ->
           {"OPEN", "PARTIALLY_FILLED", "FILLED", "CANCEL_PENDING",
            "CANCELLED", "REJECTED", "EXPIRED", "UNKNOWN"}
      [] s \in {"OPEN", "PARTIALLY_FILLED"} ->
           {"PARTIALLY_FILLED", "FILLED", "CANCEL_PENDING", "CANCELLED",
            "EXPIRED", "UNKNOWN"}
      [] s = "CANCEL_PENDING" ->
           {"PARTIALLY_FILLED", "FILLED", "CANCELLED", "EXPIRED", "UNKNOWN"}
      [] s = "UNKNOWN" -> {"PENDING_RECONCILIATION"}
      [] s = "PENDING_RECONCILIATION" ->
           {"ACCEPTED", "OPEN", "PARTIALLY_FILLED", "FILLED", "CANCELLED",
            "REJECTED", "EXPIRED", "UNKNOWN"}
      [] OTHER -> {}

\* A fill may be folded into an order in these states: apply_fill moves to
\* PARTIALLY_FILLED or to FILLED, whichever the quantities say, through the
\* table, and the table permits both or neither.
Fillable == {s \in OrderStates :
                {"PARTIALLY_FILLED", "FILLED"} \subseteq Permitted(s)}

\* The state apply_fill computes when the filled quantity becomes q of n.
FilledState(q, n) == IF q = n THEN "FILLED" ELSE "PARTIALLY_FILLED"
=============================================================================
