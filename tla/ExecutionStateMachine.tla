------------------------ MODULE ExecutionStateMachine ------------------------
(***************************************************************************)
(* The order state machine of core/execution/deterministic_state_machine.  *)
(* Quantities are abstracted to one bit: whether a fill completes the      *)
(* order.  An operator maps the machine's state to its next state; an      *)
(* attempt that the code refuses leaves the state as it is.                *)
(***************************************************************************)
Terminal == {"FILLED", "REJECTED", "CANCELLED", "FAILED"}

ExecutionState ==
  {"INIT", "PENDING_SUBMISSION", "VALIDATED", "PERSISTED", "SUBMITTED", "ACKNOWLEDGED",
   "PARTIAL_FILL", "CANCEL_PENDING", "UNKNOWN", "RECONCILING"} \cup Terminal

ValidTransitions(s) ==
  CASE s = "INIT"               -> {"VALIDATED", "FAILED"}
    [] s = "PENDING_SUBMISSION" -> {"VALIDATED", "FAILED", "UNKNOWN"}
    [] s = "VALIDATED"          -> {"PERSISTED", "FAILED"}
    [] s = "PERSISTED"          -> {"SUBMITTED", "FAILED"}
    [] s = "SUBMITTED"          -> {"ACKNOWLEDGED", "REJECTED", "FAILED", "UNKNOWN"}
    [] s \in {"ACKNOWLEDGED", "PARTIAL_FILL"} ->
         {"PARTIAL_FILL", "FILLED", "CANCEL_PENDING", "FAILED", "UNKNOWN"}
    [] s = "CANCEL_PENDING"     -> {"CANCELLED", "FILLED", "FAILED"}
    [] s = "UNKNOWN"            -> {"RECONCILING"}
    [] s = "RECONCILING"        -> {"FILLED", "CANCELLED", "FAILED", "UNKNOWN"}
    [] OTHER                    -> {}

\* create_or_get: the machine of a key, new in INIT when there is none.
CreateOrGet(s) == IF s = "NONE" THEN "INIT" ELSE s

\* The persistence callback swallows its own errors, so no attempt is reverted.
TryTransitionTo(s, new) == IF new \in ValidTransitions(s) THEN new ELSE s

RecordSubmission(s) == IF s = "PERSISTED" THEN TryTransitionTo(s, "SUBMITTED") ELSE s

RecordAcknowledgment(s) ==
  IF s = "SUBMITTED" THEN TryTransitionTo(s, "ACKNOWLEDGED") ELSE s

RecordFill(s, complete) ==
  IF s \in {"ACKNOWLEDGED", "PARTIAL_FILL"}
  THEN TryTransitionTo(s, IF complete THEN "FILLED" ELSE "PARTIAL_FILL")
  ELSE s
=============================================================================
