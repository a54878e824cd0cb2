---------------------------- MODULE TradeStatus ----------------------------
(***************************************************************************)
(* The status vocabularies of the executor and the transition relations    *)
(* the domain types declare.  The stored rows are written by raw SQL in    *)
(* several places, so the relation below is what those writers are checked *)
(* against, not what enforces them.                                        *)
(***************************************************************************)

\* Rows of trade_intents (TradeIntentStatus); "absent" is no row.
TradeStatuses ==
  { "received", "awaiting_confirmation", "risk_rejected", "shadow_accepted",
    "approved", "submitting", "executing", "completed", "cancel_pending",
    "canceled", "failed" }

\* Rows of live_executions (LiveExecutionStatus).
LiveStatuses ==
  { "pending", "entry_submitting", "entry_unknown", "entry_filled",
    "protecting", "protected", "emergency_closing", "closed", "failed",
    "reconciliation_required" }

\* TradeIntentStatus::can_transition_to.
TradeSuccessors(s) ==
  CASE s = "received" ->
         { "risk_rejected", "awaiting_confirmation", "shadow_accepted",
           "approved", "canceled" }
    [] s = "awaiting_confirmation" ->
         { "risk_rejected", "shadow_accepted", "approved", "canceled" }
    [] s = "shadow_accepted" -> { "canceled" }
    [] s = "approved"        -> { "submitting", "canceled", "failed" }
    [] s = "submitting"      -> { "executing", "failed", "cancel_pending" }
    [] s = "executing"       -> { "completed", "failed", "cancel_pending" }
    [] s = "cancel_pending"  -> { "canceled", "completed", "failed" }
    [] OTHER -> {}

\* The statuses a claimed execution of the same account and symbol may have
\* without holding the symbol: NOT IN ('pending', 'closed', 'failed').
Released == { "absent", "pending", "closed", "failed" }

\* The statuses that keep a live worker from starting.
Unresolved ==
  { "entry_submitting", "entry_unknown", "emergency_closing",
    "reconciliation_required" }

=============================================================================
