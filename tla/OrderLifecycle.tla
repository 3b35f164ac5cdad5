--------------------------- MODULE OrderLifecycle ----------------------------
(***************************************************************************)
(* What happens to the state machine of an order while and after           *)
(* execute_order records the broker's answer: the recording itself, one    *)
(* locked operation of the machine at a time, the acknowledgement watchdog *)
(* of every trading cycle and the stale-order timeout                      *)
(* (core/execution/order_lifecycle.py).  Each order has one call of        *)
(* execute_order; OrderExecution has the retries and treats the recording  *)
(* as one step.  The ages the two functions compare with their limits are  *)
(* nondeterministic: any machine may be found old enough.                  *)
(***************************************************************************)
EXTENDS ExecutionStateMachine

CONSTANTS Order,    \* orders, one call of execute_order each
          NoOrder   \* the watchdog, or the timeout, has no machine in its hands

VARIABLES
  pc,       \* where the call of each order is
  answer,   \* status the broker call gave it
  machine,  \* the state of its machine, "NONE" until created
  known,    \* orders whose machine has a broker_order_id and a submitted_at
  broker,   \* the broker's view of the order
  watch,    \* the order the watchdog asked about, and what the broker said
  stale     \* the order the timeout is about to mark failed

vars == <<pc, answer, machine, known, broker, watch, stale>>

Status == {"FILLED", "PARTIALLY_FILLED", "SUBMITTED", "REJECTED", "OTHER"}
Idle == [order |-> NoOrder, status |-> "NONE"]
\* Views of an order that no longer changes at the broker.
Decided == {"filled", "cancelled", "partial_cancelled"}

Init ==
  /\ pc = [o \in Order |-> "idle"] /\ answer = [o \in Order |-> "NONE"]
  /\ machine = [o \in Order |-> "NONE"] /\ known = {}
  /\ broker = [o \in Order |-> "none"]
  /\ watch = Idle /\ stale = NoOrder

-----------------------------------------------------------------------------
(***************************************************************************)
(* The call.  Only a FILLED answer takes the machine through PERSISTED,    *)
(* the one state record_submission accepts.                                *)
(***************************************************************************)
Validate(o) ==
  /\ pc[o] = "idle"
  /\ machine' = [machine EXCEPT ![o] = TryTransitionTo(CreateOrGet(@), "VALIDATED")]
  /\ pc' = [pc EXCEPT ![o] = "placing"]
  /\ UNCHANGED <<answer, known, broker, watch, stale>>

\* As in OrderExecution: the broker's view behind each answer.
Answers(status) ==
  CASE status = "FILLED"           -> {"partial", "filled"}
    [] status = "PARTIALLY_FILLED" -> {"partial"}
    [] status = "SUBMITTED"        -> {"open"}
    [] status = "OTHER"            -> {"open", "cancelled"}
    [] OTHER                       -> {"none", "open", "partial", "filled"}

PlaceOrder(o, status, view) ==
  /\ pc[o] = "placing" /\ view \in Answers(status)
  /\ broker' = [broker EXCEPT ![o] = view]
  /\ answer' = [answer EXCEPT ![o] = status]
  /\ pc' = [pc EXCEPT ![o] = IF status = "FILLED" THEN "persist" ELSE "record"]
  /\ UNCHANGED <<machine, known, watch, stale>>

RecordSubmitted(o) ==
  /\ machine' = [machine EXCEPT ![o] = RecordSubmission(@)]
  /\ known' = IF machine[o] = "PERSISTED" THEN known \cup {o} ELSE known

\* The next locked operation of a call whose order was filled.
RecordFilledAnswer(o) ==
  /\ \/ /\ pc[o] = "persist"
        /\ machine' = [machine EXCEPT ![o] = TryTransitionTo(@, "PERSISTED")]
        /\ pc' = [pc EXCEPT ![o] = "submit"] /\ UNCHANGED known
     \/ /\ pc[o] = "submit"
        /\ RecordSubmitted(o)
        /\ pc' = [pc EXCEPT ![o] = "acknowledge"]
     \/ /\ pc[o] = "acknowledge"
        /\ machine' = [machine EXCEPT ![o] = RecordAcknowledgment(@)]
        /\ pc' = [pc EXCEPT ![o] = "fill"] /\ UNCHANGED known
     \/ /\ pc[o] = "fill"
        /\ machine' = [machine EXCEPT ![o] = RecordFill(@, TRUE)]
        /\ pc' = [pc EXCEPT ![o] = "returned"] /\ UNCHANGED known
  /\ UNCHANGED <<answer, broker, watch, stale>>

\* The one operation of a call with any other answer.
RecordAnswer(o) ==
  /\ pc[o] = "record"
  /\ pc' = [pc EXCEPT ![o] = "returned"]
  /\ \/ answer[o] = "SUBMITTED" /\ RecordSubmitted(o)
     \/ /\ answer[o] # "SUBMITTED"
        /\ machine' = [machine EXCEPT ![o] =
                         CASE answer[o] = "PARTIALLY_FILLED" -> RecordFill(@, FALSE)
                           [] answer[o] = "REJECTED"         -> TryTransitionTo(@, "REJECTED")
                           [] OTHER                          -> TryTransitionTo(@, "FAILED")]
        /\ UNCHANGED known
  /\ UNCHANGED <<answer, broker, watch, stale>>

-----------------------------------------------------------------------------
(***************************************************************************)
(* run_ack_watchdog: the machine is looked at under its lock, the broker   *)
(* asked without it, and the outcome recorded under it again.              *)
(***************************************************************************)
WatchCheck(o) ==
  /\ watch = Idle
  /\ machine[o] = "SUBMITTED" /\ o \in known
  /\ watch' = [order |-> o, status |-> "ASK"]
  /\ UNCHANGED <<pc, answer, machine, known, broker, stale>>

\* The status the broker gives; an order that is still working is left alone.
WatchAsk ==
  /\ watch.status = "ASK"
  /\ watch' = CASE broker[watch.order] = "filled" -> [watch EXCEPT !.status = "FILLED"]
                [] broker[watch.order] \in {"cancelled", "partial_cancelled"} ->
                     [watch EXCEPT !.status = "CANCELLED"]
                [] OTHER -> Idle
  /\ UNCHANGED <<pc, answer, machine, known, broker, stale>>

WatchRecord ==
  /\ watch.status \in {"FILLED", "CANCELLED"}
  /\ machine' = [machine EXCEPT ![watch.order] =
                   IF watch.status = "FILLED" THEN RecordFill(RecordAcknowledgment(@), TRUE)
                   ELSE TryTransitionTo(@, "REJECTED")]
  /\ watch' = Idle
  /\ UNCHANGED <<pc, answer, known, broker, stale>>

-----------------------------------------------------------------------------
(***************************************************************************)
(* run_stale_order_timeout: the machine is judged and the order cancelled  *)
(* under the machine's lock; the failure is recorded without it.  A cancel *)
(* is only tried with a broker order id, and may fail.                     *)
(***************************************************************************)
StaleStates ==
  {"SUBMITTED", "ACKNOWLEDGED", "CANCEL_PENDING", "PENDING_SUBMISSION", "VALIDATED", "PERSISTED"}

Cancelled(view) ==
  CASE view = "open"    -> "cancelled"
    [] view = "partial" -> "partial_cancelled"
    [] OTHER            -> view

StaleCheck(o) ==
  /\ stale = NoOrder /\ machine[o] \in StaleStates
  /\ stale' = o
  /\ \/ o \in known /\ broker' = [broker EXCEPT ![o] = Cancelled(@)]
     \/ UNCHANGED broker
  /\ UNCHANGED <<pc, answer, machine, known, watch>>

StaleFail ==
  /\ stale # NoOrder
  /\ machine' = [machine EXCEPT ![stale] = TryTransitionTo(@, "FAILED")]
  /\ stale' = NoOrder
  /\ UNCHANGED <<pc, answer, known, broker, watch>>

-----------------------------------------------------------------------------
\* The broker fills or cancels an order it has accepted.
BrokerProgress(o, view) ==
  /\ \/ broker[o] = "open" /\ view \in {"partial", "filled", "cancelled"}
     \/ broker[o] = "partial" /\ view \in {"filled", "partial_cancelled"}
  /\ broker' = [broker EXCEPT ![o] = view]
  /\ UNCHANGED <<pc, answer, machine, known, watch, stale>>

Next ==
  \/ \E o \in Order :
       \/ Validate(o) \/ RecordFilledAnswer(o) \/ RecordAnswer(o)
       \/ \E status \in Status : \E view \in Answers(status) : PlaceOrder(o, status, view)
       \/ WatchCheck(o) \/ StaleCheck(o)
       \/ \E view \in Decided \cup {"partial"} : BrokerProgress(o, view)
  \/ WatchAsk \/ WatchRecord \/ StaleFail

(***************************************************************************)
(* The watchdog runs at the end of every trading cycle and looks at every  *)
(* machine; a call that has its answer records it.  Nothing calls the      *)
(* timeout, and the broker owes no progress.                               *)
(***************************************************************************)
Fairness ==
  /\ WF_vars(WatchAsk) /\ WF_vars(WatchRecord) /\ WF_vars(StaleFail)
  /\ \A o \in Order : /\ SF_vars(WatchCheck(o))
                      /\ WF_vars(RecordFilledAnswer(o)) /\ WF_vars(RecordAnswer(o))

FairSpec == Init /\ [][Next]_vars /\ Fairness

-----------------------------------------------------------------------------
(***************************************************************************)
(* "If the order has been acknowledged/rejected/filled by the broker,      *)
(* updates the state machine" (run_ack_watchdog): the machine of an order  *)
(* that was answered SUBMITTED, and that the broker has since filled or    *)
(* cancelled, ends.                                                        *)
(***************************************************************************)
SubmittedFollowedUp ==
  \A o \in Order :
    (answer[o] = "SUBMITTED" /\ broker[o] \in Decided) ~> (machine[o] \in Terminal)
=============================================================================
