--------------------------- MODULE OrderExecution ----------------------------
(***************************************************************************)
(* ExecutionService.execute_order (core/services/execution_service.py)     *)
(* called by several threads, with everything it writes to: the            *)
(* idempotency manager, the order state machines, the durable execution    *)
(* store, the write-ahead journal, and the broker.                         *)
(*                                                                         *)
(* A call is one invocation of execute_order; a retry of an order is       *)
(* another call with the same key.  The service's lock covers the steps    *)
(* up to the in-flight marker (Admit); it is released before the state     *)
(* machine is consulted, the broker called and the outcome recorded, and   *)
(* calls interleave there.                                                 *)
(***************************************************************************)
EXTENDS IdempotencyManager, ExecutionStateMachine, WalRows

CONSTANTS
  Call,        \* invocations of execute_order
  KeyOf,       \* the idempotency key of each call's request
  IntentOf,    \* symbol_direction_strike_lot of the orders with a key
  WalJournal,  \* whether the service was given a journal
  NoCall,      \* no broker order id in a durable row
  MaxCrash,    \* bound: crashes of the process
  MaxExpire,   \* bound: expiries of idempotency entries
  MaxError     \* bound: SQLite errors of the journal and of the durable store

ASSUME ExecutionAssumption ==
  /\ KeyOf \in [Call -> Key]
  /\ IntentOf \in [Key -> Intent]
  /\ WalJournal \in BOOLEAN /\ NoCall \notin Call
  /\ MaxCrash \in Nat /\ MaxExpire \in Nat /\ MaxError \in Nat

VARIABLES
  pc,        \* where each call is
  answer,    \* status _execute_with_retries returned to the call
  result,    \* status execute_order returned to the caller
  machine,   \* state machine of each key, "NONE" until created
  durable,   \* the execution_state row of each intent
  walQueue,  \* journal statements the writer thread has not executed
  walDisk,   \* rows of the journal on disk
  halted,    \* the hard-halt event
  order,     \* the broker's view of the order of each call
  look,      \* broker order reconcile_with_broker read in each row, still to be asked for
  repair,    \* update reconcile_with_broker is about to make to each row
  session,   \* number of the running process
  ticket,    \* history: gen of the call's key when the call was admitted
  gate,      \* history: session in which the call was let through to the broker
  faults     \* crashes, expiries and SQLite errors so far

serviceVars == <<pc, answer, result>>
walVars == <<walQueue, walDisk>>
reconcileVars == <<look, repair>>
callHistory == <<session, ticket, gate>>
historyVars == <<callHistory, faults>>
vars == <<serviceVars, machine, durable, walVars, halted, order, reconcileVars, historyVars,
          idempotencyVars>>

OrderStatus == {"FILLED", "PARTIALLY_FILLED", "SUBMITTED", "REJECTED", "OTHER"}
DurableState == {"NONE", "PENDING", "SUBMITTED", "PARTIALLY_FILLED", "FILLED",
                 "CANCELLED", "REJECTED", "FAILED"}
OrderView == {"none", "open", "partial", "partial_cancelled", "filled", "cancelled"}
ExecutedView == {"partial", "partial_cancelled", "filled"}
Repair == {"NONE", "FILLED", "CANCELLED"}

\* Calls between admission and the end of execute_order.
Executing == {"admitted", "placing", "answered", "confirmed"}

TypeOK ==
  /\ pc \in [Call -> {"idle", "returned", "raised", "crashed"} \cup Executing]
  /\ answer \in [Call -> OrderStatus \cup {"NONE"}]
  /\ result \in [Call -> OrderStatus \cup {"NONE", "STRING", "EXCEPTION"}]
  /\ machine \in [Key -> ExecutionState \cup {"NONE"}]
  /\ durable \in [Intent -> [state : DurableState, order : Call \cup {NoCall}]]
  /\ walQueue \in Seq(JournalOp) /\ walDisk \in Rows
  /\ halted \in BOOLEAN
  /\ order \in [Call -> OrderView]
  /\ look \in [Intent -> Call \cup {NoCall}] /\ repair \in [Intent -> Repair]
  /\ session \in Nat /\ ticket \in [Call -> Nat] /\ gate \in [Call -> Nat]
  /\ faults \in [crash : Nat, expire : Nat, error : Nat]
  /\ IdempotencyTypeOK

Init ==
  /\ pc = [c \in Call |-> "idle"]
  /\ answer = [c \in Call |-> "NONE"]
  /\ result = [c \in Call |-> "NONE"]
  /\ machine = [k \in Key |-> "NONE"]
  /\ durable = [i \in Intent |-> [state |-> "NONE", order |-> NoCall]]
  /\ walQueue = <<>> /\ walDisk = NoRows
  /\ halted = FALSE
  /\ order = [c \in Call |-> "none"]
  /\ look = [i \in Intent |-> NoCall] /\ repair = [i \in Intent |-> "NONE"]
  /\ session = 1
  /\ ticket = [c \in Call |-> 0] /\ gate = [c \in Call |-> 0]
  /\ faults = [crash |-> 0, expire |-> 0, error |-> 0]
  /\ IdempotencyInit

IntentOfCall(c) == IntentOf[KeyOf[c]]

\* The call ends, with its local variables.
End(c, where, status) ==
  /\ result' = [result EXCEPT ![c] = status]
  /\ pc' = [pc EXCEPT ![c] = where]
  /\ answer' = [answer EXCEPT ![c] = "NONE"]

Log(ops) ==
  /\ walQueue' = IF WalJournal THEN walQueue \o ops ELSE walQueue
  /\ UNCHANGED walDisk

Error ==
  /\ faults.error < MaxError
  /\ faults' = [faults EXCEPT !.error = @ + 1]

\* The durable store writes a row.  It logs an SQLite error and goes on without the write.
Store(i, row) ==
  \/ durable' = [durable EXCEPT ![i] = row] /\ UNCHANGED faults
  \/ Error /\ UNCHANGED durable

-----------------------------------------------------------------------------
(***************************************************************************)
(* The section under the service's lock.  The journal statement is queued  *)
(* before the duplicate check, so a duplicate also replaces the journal    *)
(* row of its intent and then marks it failed.                             *)
(***************************************************************************)
AdmitDuplicate(c) ==
  LET k == KeyOf[c]
      i == IntentOfCall(c)
  IN  /\ pc[c] = "idle" /\ IsDuplicate(k)
      /\ Log(<<Op("append", i), Op("fail", i)>>)
      /\ End(c, "returned", IF GetResult(k) = "NONE" THEN "REJECTED" ELSE GetResult(k))
      /\ UNCHANGED <<machine, durable, halted, order, reconcileVars, historyVars, idempotencyVars>>

AdmitNew(c) ==
  LET k == KeyOf[c]
      i == IntentOfCall(c)
  IN  /\ pc[c] = "idle" /\ ~IsDuplicate(k)
      /\ Log(<<Op("append", i)>>)
      /\ Store(i, [state |-> "PENDING", order |-> NoCall])
      /\ MarkInFlight(k)
      /\ ticket' = [ticket EXCEPT ![c] = gen[k]]
      /\ pc' = [pc EXCEPT ![c] = "admitted"]
      /\ UNCHANGED <<answer, result, machine, halted, order, reconcileVars, session, gate>>

\* The journal raises sqlite3.Error under the lock, from append, or from fail after the
\* duplicate check; no handler of execute_order names it, and the call is not admitted.
AdmitRaises(c) ==
  /\ pc[c] = "idle" /\ WalJournal /\ Error
  /\ \/ UNCHANGED walVars
     \/ IsDuplicate(KeyOf[c]) /\ Log(<<Op("append", IntentOfCall(c))>>)
  /\ End(c, "raised", "EXCEPTION")
  /\ UNCHANGED <<machine, durable, halted, order, reconcileVars, callHistory, idempotencyVars>>

-----------------------------------------------------------------------------
(***************************************************************************)
(* _execute_with_retries up to the broker call: the hard-halt gate, then   *)
(* the state machine of the key.  A machine that exists and is not in a    *)
(* terminal state blocks the order; a terminal one does not.               *)
(***************************************************************************)
Blocked(c) ==
  /\ answer' = [answer EXCEPT ![c] = "REJECTED"]
  /\ pc' = [pc EXCEPT ![c] = "answered"]
  /\ UNCHANGED <<result, machine, durable, walVars, halted, order, reconcileVars, historyVars, idempotencyVars>>

GateHalted(c) ==
  /\ pc[c] = "admitted" /\ halted
  /\ Blocked(c)

GateInProgress(c) ==
  /\ pc[c] = "admitted" /\ ~halted
  /\ machine[KeyOf[c]] \notin Terminal \cup {"NONE"}
  /\ Blocked(c)

\* Mutant: the state of an existing machine is not looked at.
GateOpenUnchecked(c) ==
  LET k == KeyOf[c]
  IN  /\ pc[c] = "admitted" /\ ~halted
      /\ machine' = [machine EXCEPT ![k] = TryTransitionTo(CreateOrGet(@), "VALIDATED")]
      /\ gate' = [gate EXCEPT ![c] = session]
      /\ pc' = [pc EXCEPT ![c] = "placing"]
      /\ UNCHANGED <<answer, result, durable, walVars, halted, order, reconcileVars,
                     session, ticket, faults, idempotencyVars>>

GateOpen(c) ==
  LET k == KeyOf[c]
  IN  /\ pc[c] = "admitted" /\ ~halted
      /\ machine[k] \in Terminal \cup {"NONE"}
      /\ machine' = [machine EXCEPT ![k] = TryTransitionTo(CreateOrGet(@), "VALIDATED")]
      /\ gate' = [gate EXCEPT ![c] = session]
      /\ pc' = [pc EXCEPT ![c] = "placing"]
      /\ UNCHANGED <<answer, result, durable, walVars, halted, order, reconcileVars,
                     session, ticket, faults, idempotencyVars>>

-----------------------------------------------------------------------------
(***************************************************************************)
(* The broker call.  What the service learns and what the broker holds may *)
(* differ: a broker that answers with an order id and any filled quantity  *)
(* is FILLED; PENDING, CANCELLED and EXPIRED are OTHER; an error of a kind *)
(* _attempt_order_execution catches, an answer the acknowledgement         *)
(* validator refuses, or a missing id is REJECTED, whatever became of the  *)
(* order.  The Kite adapter raises RuntimeError, which nothing catches.    *)
(***************************************************************************)
Answers(status) ==
  CASE status = "FILLED"           -> {"partial", "filled"}
    [] status = "PARTIALLY_FILLED" -> {"partial"}
    [] status = "SUBMITTED"        -> {"open"}
    [] status = "OTHER"            -> {"open", "cancelled"}
    [] OTHER                       -> {"none", "open", "partial", "filled"}

\* The transitions _execute_with_retries records after the attempt.
AfterAttempt(s, status) ==
  CASE status = "FILLED" ->
         RecordFill(RecordAcknowledgment(RecordSubmission(TryTransitionTo(s, "PERSISTED"))), TRUE)
    [] status = "PARTIALLY_FILLED" -> RecordFill(s, FALSE)
    [] status = "REJECTED"         -> TryTransitionTo(s, "REJECTED")
    [] status = "SUBMITTED"        -> RecordSubmission(s)
    [] OTHER                       -> TryTransitionTo(s, "FAILED")

PlaceOrder(c, status, view) ==
  LET k == KeyOf[c]
  IN  /\ pc[c] = "placing"
      /\ view \in Answers(status)
      /\ order' = [order EXCEPT ![c] = view]
      /\ answer' = [answer EXCEPT ![c] = status]
      /\ machine' = [machine EXCEPT ![k] = AfterAttempt(@, status)]
      /\ pc' = [pc EXCEPT ![c] = "answered"]
      /\ UNCHANGED <<result, durable, walVars, halted, reconcileVars, historyVars, idempotencyVars>>

\* An error only the handler of _execute_with_retries names: the machine fails.
PlaceOrderFails(c, view) ==
  /\ pc[c] = "placing"
  /\ view \in Answers("RAISES")
  /\ order' = [order EXCEPT ![c] = view]
  /\ answer' = [answer EXCEPT ![c] = "REJECTED"]
  /\ machine' = [machine EXCEPT ![KeyOf[c]] = TryTransitionTo(@, "FAILED")]
  /\ pc' = [pc EXCEPT ![c] = "answered"]
  /\ UNCHANGED <<result, durable, walVars, halted, reconcileVars, historyVars, idempotencyVars>>

\* An error no handler of execute_order names: it leaves every record as it is.
PlaceOrderRaises(c, view) ==
  /\ pc[c] = "placing"
  /\ view \in Answers("RAISES")
  /\ order' = [order EXCEPT ![c] = view]
  /\ End(c, "raised", "EXCEPTION")
  /\ UNCHANGED <<machine, durable, walVars, halted, reconcileVars, historyVars, idempotencyVars>>

-----------------------------------------------------------------------------
(***************************************************************************)
(* execute_order after the attempt.                                        *)
(***************************************************************************)
\* update_state: an UPDATE, which finds nothing when the row could not be inserted.
SetDurable(c, state, brokerOrder) ==
  LET i == IntentOfCall(c)
      row == [state |-> state, order |-> IF brokerOrder = NoCall THEN durable[i].order ELSE brokerOrder]
  IN  Store(i, IF durable[i].state = "NONE" THEN durable[i] ELSE row)

Executed(c) == answer[c] \in {"FILLED", "PARTIALLY_FILLED"}

\* wal.commit, idempotency.confirm_execution and the engine's store_result.
Confirm(c) ==
  /\ pc[c] = "answered" /\ Executed(c)
  /\ Log(<<Op("commit", IntentOfCall(c))>>)
  /\ ConfirmExecution(KeyOf[c], answer[c])
  /\ pc' = [pc EXCEPT ![c] = "confirmed"]
  /\ UNCHANGED <<answer, result, machine, durable, halted, order, reconcileVars, historyVars>>

\* The durable row is updated and the result returned.
ReturnExecuted(c) ==
  /\ pc[c] = "confirmed"
  /\ SetDurable(c, answer[c], c)
  /\ End(c, "returned", answer[c])
  /\ UNCHANGED <<machine, walVars, halted, order, reconcileVars, callHistory, idempotencyVars>>

\* Mutant: the status is stored in the durable row as it came.
ReturnFailedRaw(c) ==
  /\ pc[c] = "answered" /\ ~Executed(c)
  /\ Log(<<Op("fail", IntentOfCall(c))>>)
  /\ SetDurable(c, answer[c], NoCall)
  /\ End(c, "returned", answer[c])
  /\ UNCHANGED <<machine, halted, order, reconcileVars, callHistory, idempotencyVars>>

\* Mutant: an order that was only submitted is recorded as executed.
ReturnSubmittedAsFilled(c) ==
  /\ pc[c] = "answered" /\ ~Executed(c)
  /\ Log(<<Op(IF answer[c] = "SUBMITTED" THEN "commit" ELSE "fail", IntentOfCall(c))>>)
  /\ SetDurable(c, CASE answer[c] = "SUBMITTED" -> "FILLED"
                     [] answer[c] = "REJECTED"  -> "REJECTED"
                     [] OTHER                   -> "FAILED", NoCall)
  /\ End(c, "returned", answer[c])
  /\ UNCHANGED <<machine, halted, order, reconcileVars, callHistory, idempotencyVars>>

\* Any other status is a failure; the in-flight marker stays.
ReturnFailed(c) ==
  /\ pc[c] = "answered" /\ ~Executed(c)
  /\ Log(<<Op("fail", IntentOfCall(c))>>)
  /\ SetDurable(c, IF answer[c] = "REJECTED" THEN "REJECTED" ELSE "FAILED", NoCall)
  /\ End(c, "returned", answer[c])
  /\ UNCHANGED <<machine, halted, order, reconcileVars, callHistory, idempotencyVars>>

\* The journal raises sqlite3.Error from commit or fail (its queue is full and the synchronous
\* fallback fails), which no handler of execute_order names.
RecordingRaises(c) ==
  /\ pc[c] = "answered" /\ WalJournal /\ Error
  /\ End(c, "raised", "EXCEPTION")
  /\ UNCHANGED <<machine, durable, walVars, halted, order, reconcileVars, callHistory,
                 idempotencyVars>>

-----------------------------------------------------------------------------
(***************************************************************************)
(* The rest of the system.                                                 *)
(***************************************************************************)
\* The journal's writer thread executes the oldest queued statement.
WalWrite ==
  /\ walQueue # <<>>
  /\ walDisk' = Effect(walDisk, Head(walQueue))
  /\ walQueue' = Tail(walQueue)
  /\ UNCHANGED <<serviceVars, machine, durable, halted, order, reconcileVars, historyVars, idempotencyVars>>

TripHardHalt ==
  /\ ~halted
  /\ halted' = TRUE
  /\ UNCHANGED <<serviceVars, machine, durable, walVars, order, reconcileVars, historyVars, idempotencyVars>>

\* The operator clears the halt, once the cooldown since the last clear is over.
ClearHardHalt ==
  /\ halted' = FALSE
  /\ UNCHANGED <<serviceVars, machine, durable, walVars, order, reconcileVars, historyVars, idempotencyVars>>

\* The broker works on the order of a call.
BrokerProgress(c, view) ==
  /\ \/ order[c] = "open" /\ view \in {"partial", "filled", "cancelled"}
     \/ order[c] = "partial" /\ view \in {"partial_cancelled", "filled"}
  /\ order' = [order EXCEPT ![c] = view]
  /\ UNCHANGED <<serviceVars, machine, durable, walVars, halted, reconcileVars, historyVars, idempotencyVars>>

(***************************************************************************)
(* reconcile_with_broker: the rows that are not terminal are read at once; *)
(* then, row by row, the broker is asked for the order of the row and the  *)
(* row is updated.  Calls go on in between, so a row may have been         *)
(* replaced when the broker is asked and when the update reaches it.       *)
(***************************************************************************)
NoPass == \A i \in Intent : look[i] = NoCall /\ repair[i] = "NONE"

ReconcileRead ==
  /\ NoPass
  /\ look' = [i \in Intent |->
                IF durable[i].state \in {"PENDING", "SUBMITTED", "PARTIALLY_FILLED"}
                THEN durable[i].order ELSE NoCall]
  /\ UNCHANGED <<serviceVars, machine, durable, walVars, halted, order, repair, historyVars,
                 idempotencyVars>>

\* What the row is to become, by the view the broker has of its order.
RepairFor(view) ==
  CASE view = "filled"                               -> "FILLED"
    [] view \in {"cancelled", "partial_cancelled"}   -> "CANCELLED"
    [] OTHER                                         -> "NONE"

ReconcileQuery(i) ==
  /\ look[i] # NoCall /\ \A j \in Intent : repair[j] = "NONE"
  /\ repair' = [repair EXCEPT ![i] = RepairFor(order[look[i]])]
  /\ look' = [look EXCEPT ![i] = NoCall]
  /\ UNCHANGED <<serviceVars, machine, durable, walVars, halted, order, historyVars,
                 idempotencyVars>>

\* The broker port raises.  An error that is named skips the row; BrokerAdapter's
\* get_order_status raises AttributeError, which is not, and the pass ends.
ReconcileQueryRaises(i) ==
  /\ look[i] # NoCall /\ \A j \in Intent : repair[j] = "NONE"
  /\ \/ look' = [look EXCEPT ![i] = NoCall]
     \/ look' = [j \in Intent |-> NoCall]
  /\ UNCHANGED <<serviceVars, machine, durable, walVars, halted, order, repair, historyVars,
                 idempotencyVars>>

ReconcileWrite(i) ==
  /\ repair[i] # "NONE"
  /\ Store(i, [durable[i] EXCEPT !.state = repair[i]])
  /\ repair' = [repair EXCEPT ![i] = "NONE"]
  /\ UNCHANGED <<serviceVars, machine, walVars, halted, order, look, callHistory, idempotencyVars>>

(***************************************************************************)
(* An entry of the idempotency manager expires.  The marker of a call that *)
(* is still executing does not: an hour is far beyond any broker timeout.  *)
(***************************************************************************)
Expire(k) ==
  /\ faults.expire < MaxExpire
  /\ faults' = [faults EXCEPT !.expire = @ + 1]
  /\ \/ ExpireConfirmed(k)
     \/ /\ \A c \in Call : pc[c] \in Executing => KeyOf[c] # k
        /\ ExpireInFlight(k)
  /\ UNCHANGED <<serviceVars, machine, durable, walVars, halted, order, reconcileVars, callHistory>>

(***************************************************************************)
(* The process dies and is started again: calls, state machines, the halt  *)
(* event and the queued journal statements are gone.                       *)
(***************************************************************************)
Crash ==
  /\ faults.crash < MaxCrash
  /\ faults' = [faults EXCEPT !.crash = @ + 1]
  /\ session' = session + 1
  /\ pc' = [c \in Call |-> IF pc[c] \in Executing THEN "crashed" ELSE pc[c]]
  /\ answer' = [c \in Call |-> "NONE"]
  /\ machine' = [k \in Key |-> "NONE"]
  /\ walQueue' = <<>>
  /\ halted' = FALSE
  /\ look' = [i \in Intent |-> NoCall] /\ repair' = [i \in Intent |-> "NONE"]
  /\ LoadFromPersistence
  /\ UNCHANGED <<result, durable, walDisk, order, ticket, gate>>

CallStep(c) ==
  \/ AdmitDuplicate(c) \/ AdmitNew(c) \/ AdmitRaises(c)
  \/ GateHalted(c) \/ GateInProgress(c) \/ GateOpen(c)
  \/ \E status \in OrderStatus, view \in OrderView : PlaceOrder(c, status, view)
  \/ \E view \in OrderView : PlaceOrderFails(c, view) \/ PlaceOrderRaises(c, view)
  \/ Confirm(c) \/ ReturnExecuted(c) \/ ReturnFailed(c) \/ RecordingRaises(c)

Next ==
  \/ \E c \in Call : CallStep(c)
  \/ WalWrite
  \/ TripHardHalt \/ ClearHardHalt
  \/ \E c \in Call, view \in OrderView : BrokerProgress(c, view)
  \/ ReconcileRead
  \/ \E i \in Intent : ReconcileQuery(i) \/ ReconcileQueryRaises(i) \/ ReconcileWrite(i)
  \/ \E k \in Key : Expire(k)
  \/ Crash

Spec == Init /\ [][Next]_vars

-----------------------------------------------------------------------------
(***************************************************************************)
(* Properties.                                                             *)
(***************************************************************************)
SameOrder(c, d) == c # d /\ KeyOf[c] = KeyOf[d]
AtBroker(c) == gate[c] # 0

\* As long as the idempotency manager does not cease to remember a key, at most one call
\* with that key gets through to the broker, however calls, crashes and expiries interleave.
OneOrderPerRemembering ==
  \A c, d \in Call : SameOrder(c, d) /\ AtBroker(c) /\ AtBroker(d) => ticket[c] # ticket[d]

\* Two calls with the same key are never between admission and the confirmation of the key (or
\* the record of a failure) at the same time, although the lock is released right after admission.
OneExecutionPerKey ==
  \A c, d \in Call : SameOrder(c, d) => ~ {pc[c], pc[d]} \subseteq {"admitted", "placing", "answered"}

\* Within one process a key is sent to the broker again only after its state machine has
\* ended, even when the idempotency manager has forgotten the key.
NoReplaceWhileMachineOpen ==
  \A c, d \in Call :
    SameOrder(c, d) /\ gate[c] = session /\ gate[d] = session => machine[KeyOf[c]] \in Terminal

\* A caller that is told of an execution, directly, by the cache or by a result read back
\* after a restart, is told the truth: an order with its key was executed by the broker.
CallerTold ==
  \A c \in Call : result[c] \in {"FILLED", "PARTIALLY_FILLED", "STRING"} =>
    \E d \in Call : KeyOf[d] = KeyOf[c] /\ order[d] \in ExecutedView

ExecutedFor(i) == \E c \in Call : IntentOfCall(c) = i /\ order[c] \in ExecutedView

\* A durable row says "filled" or "partially filled" only when an order of that instrument
\* was executed, although calls and the reconciliation overwrite each other's rows.
DurableTruth ==
  \A i \in Intent : durable[i].state \in {"FILLED", "PARTIALLY_FILLED"} => ExecutedFor(i)

\* The journal says COMMITTED only when an order of that instrument was executed.
CommittedIsExecuted ==
  \A i \in Intent : walDisk[i] = "COMMITTED" => ExecutedFor(i)

\* A restart forgets no confirmed key but those whose confirmation SQLite refused: what
\* confirm_execution stored over the in-flight row, in whatever session, is loaded again,
\* unless SQLite refuses the load too.
RestartKeepsConfirmed ==
  [][session' # session /\ refusals' = refusals => Confirmed \ unsaved \subseteq Confirmed']_vars

(***************************************************************************)
(* The inductive invariant behind the safety properties.                   *)
(***************************************************************************)
\* A call holds its in-flight marker until its outcome is recorded.
MarkerHeld == \A c \in Call : pc[c] \in {"admitted", "placing", "answered"} => KeyOf[c] \in inFlight

Admitted(c) == pc[c] \in Executing \/ AtBroker(c)

\* A call admitted since the manager last ceased to remember its key keeps the key remembered.
TicketsCurrent ==
  \A c \in Call : Admitted(c) =>
    /\ ticket[c] <= gen[KeyOf[c]]
    /\ ticket[c] = gen[KeyOf[c]] => KeyOf[c] \in Remembered

TicketsDistinct ==
  \A c, d \in Call : SameOrder(c, d) /\ Admitted(c) /\ Admitted(d) => ticket[c] # ticket[d]

\* A call let through in this process left a state machine behind.
GatesCurrent ==
  /\ session > 0
  /\ \A c \in Call :
       /\ gate[c] <= session
       /\ pc[c] = "placing" => gate[c] = session
       /\ gate[c] = session => machine[KeyOf[c]] # "NONE"

\* Only an executed order is confirmed.
OutcomeKept == \A c \in Call : pc[c] = "confirmed" => Executed(c)

\* All of it, and the properties it keeps true: the invariant of every step of execute_order,
\* of expiry and of a restart.
ExecutionInv ==
  /\ TypeOK
  /\ MarkerHeld /\ OneExecutionPerKey
  /\ TicketsCurrent /\ TicketsDistinct
  /\ GatesCurrent /\ NoReplaceWhileMachineOpen
  /\ ConfirmedStored /\ OutcomeKept

-----------------------------------------------------------------------------
(***************************************************************************)
(* What comments and documents say of restarts, and the code does not do.  *)
(***************************************************************************)
\* mark_in_flight: a restart does not let the same order through a second time.
RestartKeepsOneOrder ==
  \A c, d \in Call :
    SameOrder(c, d) /\ order[c] # "none" /\ order[d] # "none" => gate[c] = gate[d]
=============================================================================
