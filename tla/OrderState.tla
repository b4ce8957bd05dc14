----------------------------- MODULE OrderState -----------------------------
(***************************************************************************)
(* The order lifecycle of app/execution/order_state.py: its statuses, the  *)
(* ones that are final and the moves the table allows.                     *)
(***************************************************************************)

Terminal == {"FILLED", "CANCELLED", "REJECTED", "EXPIRED"}

\* An entry order in any other status can still become a position.
Pending == {"NEW", "SUBMITTED", "WORKING", "PARTIALLY_FILLED", "CANCEL_REQUESTED"}

OrderStatus == Pending \cup Terminal

Filling   == {"PARTIALLY_FILLED", "FILLED"}
Cancelled == {"CANCELLED", "EXPIRED"}

Allowed ==
  [ st \in OrderStatus |->
    CASE st = "NEW" -> {"SUBMITTED", "WORKING", "CANCEL_REQUESTED", "REJECTED"} \cup Cancelled
      [] st = "SUBMITTED" -> {"WORKING", "REJECTED"} \cup Cancelled \cup Filling
      [] st \in {"WORKING", "PARTIALLY_FILLED"} -> Filling \cup Cancelled \cup {"CANCEL_REQUESTED"}
      [] st = "CANCEL_REQUESTED" -> Filling \cup {"CANCELLED"}
      [] st \in Terminal -> {} ]

\* Re-entering the same status is not a move.
CanTransition(current, requested) ==
  current = requested \/ requested \in Allowed[current]

=============================================================================
