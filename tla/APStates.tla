------------------------------ MODULE APStates ------------------------------
(***************************************************************************)
(* The state graph of an accounts-payable item: core/ap_states.py.         *)
(*                                                                         *)
(* Every state change of an item is checked against ValidTransitions by    *)
(* transition_or_raise.  A state is not a successor of itself, so a second *)
(* request for the state an item is already in is refused like any other   *)
(* illegal one.                                                            *)
(***************************************************************************)

APState ==
  {"received", "validated", "needs_info", "needs_approval",
   "needs_second_approval", "approved", "rejected", "ready_to_post",
   "posted_to_erp", "failed_post", "snoozed", "reversed", "closed",
   "awaiting_payment", "payment_in_flight", "payment_executed",
   "payment_failed"}

\* VALID_TRANSITIONS, the authoritative graph.
ValidTransitions ==
  [s \in APState |->
    CASE s = "received"       -> {"validated", "closed", "rejected"}
      [] s = "validated"      -> {"needs_approval", "needs_info", "snoozed",
                                  "closed"}
      [] s = "needs_info"     -> {"validated", "snoozed", "closed"}
      [] s = "needs_approval" -> {"approved", "needs_second_approval",
                                  "rejected", "needs_info", "snoozed",
                                  "closed"}
      [] s = "needs_second_approval"
                              -> {"approved", "needs_approval", "rejected",
                                  "needs_info", "snoozed", "closed"}
      [] s = "approved"       -> {"ready_to_post", "needs_approval",
                                  "needs_info", "closed"}
      [] s = "rejected"       -> {"closed"}
      [] s = "ready_to_post"  -> {"posted_to_erp", "failed_post",
                                  "needs_approval", "closed"}
      [] s = "posted_to_erp"  -> {"awaiting_payment", "closed", "reversed"}
      [] s = "failed_post"    -> {"ready_to_post", "snoozed", "closed"}
      [] s = "snoozed"        -> {"validated", "needs_info", "needs_approval",
                                  "needs_second_approval", "failed_post",
                                  "closed"}
      [] s = "awaiting_payment"
                              -> {"payment_in_flight", "payment_executed",
                                  "payment_failed", "closed", "reversed"}
      [] s = "payment_in_flight"
                              -> {"payment_executed", "payment_failed",
                                  "reversed"}
      [] s = "payment_executed"
                              -> {"closed", "reversed"}
      [] s = "payment_failed" -> {"awaiting_payment", "reversed", "closed"}
      [] s \in {"reversed", "closed"} -> {}]

\* validate_transition(current, target)
Legal(s, t) == t \in ValidTransitions[s]

\* The states update_ap_item mirrors into box_outcomes.
OutcomeStates == {"posted_to_erp", "rejected", "reversed"}
=============================================================================
