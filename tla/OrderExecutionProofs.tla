------------------------ MODULE OrderExecutionProofs -------------------------
(***************************************************************************)
(* Proofs about OrderExecution, for any number of calls, keys and intents, *)
(* any cache size and any bounds on crashes, expiries and errors.          *)
(***************************************************************************)
EXTENDS OrderExecution, IdempotencyProofs, TLAPS

-----------------------------------------------------------------------------
(***************************************************************************)
(* The state machine.                                                      *)
(***************************************************************************)
\* The transitions of an order lead to states of the machine.
LEMMA TransitionType ==
  ASSUME NEW s \in ExecutionState, NEW new
  PROVE  TryTransitionTo(s, new) \in ExecutionState
BY DEF TryTransitionTo, ValidTransitions, ExecutionState, Terminal

\* A terminal state is never left.
LEMMA TerminalStays ==
  ASSUME NEW s \in Terminal
  PROVE  /\ \A new : TryTransitionTo(s, new) = s
         /\ RecordSubmission(s) = s /\ RecordAcknowledgment(s) = s
         /\ RecordFill(s, TRUE) = s /\ RecordFill(s, FALSE) = s
BY DEF TryTransitionTo, ValidTransitions, Terminal, RecordSubmission, RecordAcknowledgment, RecordFill

\* What _execute_with_retries records keeps the type and never leaves a terminal state.
LEMMA AttemptType ==
  ASSUME NEW s \in ExecutionState, NEW status
  PROVE  AfterAttempt(s, status) \in ExecutionState
<1>1. ASSUME NEW t \in ExecutionState, NEW complete
      PROVE  /\ RecordSubmission(t) \in ExecutionState
             /\ RecordAcknowledgment(t) \in ExecutionState
             /\ RecordFill(t, complete) \in ExecutionState
  BY TransitionType DEF RecordSubmission, RecordAcknowledgment, RecordFill
<1>2. QED
  BY <1>1, TransitionType DEF AfterAttempt

\* What _execute_with_retries records after an attempt never moves a machine out of a terminal state.
LEMMA AttemptTerminal ==
  ASSUME NEW s \in Terminal, NEW status
  PROVE  AfterAttempt(s, status) = s
<1>1. /\ TryTransitionTo(s, "PERSISTED") = s /\ TryTransitionTo(s, "REJECTED") = s
      /\ TryTransitionTo(s, "FAILED") = s
  BY TerminalStays
<1>2. /\ RecordSubmission(s) = s /\ RecordAcknowledgment(s) = s
      /\ RecordFill(s, TRUE) = s /\ RecordFill(s, FALSE) = s
  BY TerminalStays
<1>3. QED
  BY <1>1, <1>2 DEF AfterAttempt

-----------------------------------------------------------------------------
(***************************************************************************)
(* Types.  ServiceTypeOK is TypeOK without the idempotency manager.        *)
(***************************************************************************)
ServiceTypeOK ==
  /\ pc \in [Call -> {"idle", "returned", "raised", "crashed"} \cup Executing]
  /\ answer \in [Call -> OrderStatus \cup {"NONE"}]
  /\ result \in [Call -> OrderStatus \cup {"NONE", "STRING", "EXCEPTION"}]
  /\ machine \in [Key -> ExecutionState \cup {"NONE"}]
  /\ durable \in [Intent -> [state : DurableState, order : Call \cup {NoCall}]]
  /\ walQueue \in Seq(JournalOp) /\ walDisk \in Rows
  /\ halted \in BOOLEAN
  /\ order \in [Call -> OrderView]
  /\ look \in [Intent -> Call \cup {NoCall}] /\ repair \in [Intent -> Repair]
  /\ session \in Nat /\ ticket \in [Call -> Nat] /\ gate \in [Call -> Nat]
  /\ faults \in [crash : Nat, expire : Nat, error : Nat]

\* The type invariant is the types of the service's own state and those of the manager.
LEMMA TypeParts == /\ TypeOK <=> ServiceTypeOK /\ IdempotencyTypeOK
                   /\ TypeOK' <=> ServiceTypeOK' /\ IdempotencyTypeOK'
BY DEF TypeOK, ServiceTypeOK

\* Queueing well-formed journal statements keeps the type of the queue.
LEMMA LogType ==
  ASSUME walQueue \in Seq(JournalOp), walDisk \in Rows, NEW i \in Intent,
         NEW kind \in {"append", "commit", "fail", "settle"},
         NEW kind2 \in {"append", "commit", "fail", "settle"},
         Log(<<Op(kind, i)>>) \/ Log(<<Op(kind, i), Op(kind2, i)>>)
  PROVE  walQueue' \in Seq(JournalOp) /\ walDisk' \in Rows
<1>1. Op(kind, i) \in JournalOp /\ Op(kind2, i) \in JournalOp
  BY DEF Op, JournalOp
<1>2. <<Op(kind, i)>> \in Seq(JournalOp) /\ <<Op(kind, i), Op(kind2, i)>> \in Seq(JournalOp)
  BY <1>1
<1>3. \A s \in Seq(JournalOp) : walQueue \o s \in Seq(JournalOp)
  OBVIOUS
<1>4. CASE Log(<<Op(kind, i)>>)
  BY <1>2, <1>3, <1>4 DEF Log
<1>5. CASE Log(<<Op(kind, i), Op(kind2, i)>>)
  BY <1>2, <1>3, <1>5 DEF Log
<1>6. QED
  BY <1>4, <1>5

\* A journal statement maps rows to rows.
LEMMA EffectType ==
  ASSUME walDisk \in Rows, NEW op \in JournalOp
  PROVE  Effect(walDisk, op) \in Rows
BY DEF Effect, Rows, JournalOp, IntentStatus

\* Counting a fault keeps the type of the counters.
LEMMA FaultsType ==
  ASSUME faults \in [crash : Nat, expire : Nat, error : Nat]
  PROVE  /\ [faults EXCEPT !.crash = @ + 1] \in [crash : Nat, expire : Nat, error : Nat]
         /\ [faults EXCEPT !.expire = @ + 1] \in [crash : Nat, expire : Nat, error : Nat]
         /\ [faults EXCEPT !.error = @ + 1] \in [crash : Nat, expire : Nat, error : Nat]
OBVIOUS

Fault == [crash : Nat, expire : Nat, error : Nat]
DurableRow == [state : DurableState, order : Call \cup {NoCall}]

\* A write of the durable store, whether or not SQLite refuses it, keeps the types.
LEMMA StoreType ==
  ASSUME ServiceTypeOK, NEW i \in Intent, NEW row \in DurableRow, Store(i, row)
  PROVE  durable' \in [Intent -> DurableRow] /\ faults' \in Fault
<1>1. durable \in [Intent -> DurableRow] /\ faults \in Fault
  BY DEF ServiceTypeOK, DurableRow, Fault
<1>2. CASE durable' = [durable EXCEPT ![i] = row] /\ UNCHANGED faults
  BY <1>1, <1>2
<1>3. CASE Error /\ UNCHANGED durable
  BY <1>1, <1>3, FaultsType DEF Error, Fault
<1> QED
  BY <1>2, <1>3 DEF Store

\* An update of a durable row to a state of the table keeps the type of the rows.
LEMMA SetDurableType ==
  ASSUME ExecutionAssumption, ServiceTypeOK, NEW c \in Call,
         NEW state \in DurableState, NEW o \in Call \cup {NoCall}, SetDurable(c, state, o)
  PROVE  durable' \in [Intent -> DurableRow] /\ faults' \in Fault
<1> DEFINE i == IntentOfCall(c)
           row == [state |-> state, order |-> IF o = NoCall THEN durable[i].order ELSE o]
<1>1. i \in Intent
  BY DEF IntentOfCall, ExecutionAssumption
<1>2. durable[i] \in DurableRow /\ row \in DurableRow
  BY <1>1 DEF ServiceTypeOK, DurableRow
<1>3. Store(i, IF durable[i].state = "NONE" THEN durable[i] ELSE row)
  BY DEF SetDurable
<1> HIDE DEF row, i
<1>4. CASE durable[i].state = "NONE"
  BY <1>1, <1>2, <1>3, <1>4, StoreType
<1>5. CASE durable[i].state # "NONE"
  BY <1>1, <1>2, <1>3, <1>5, StoreType
<1> QED
  BY <1>4, <1>5

\* The end of a call keeps the types of the call's state.
LEMMA EndType ==
  ASSUME ServiceTypeOK, NEW c \in Call, NEW where \in {"returned", "raised"},
         NEW status \in OrderStatus \cup {"NONE", "STRING", "EXCEPTION"}, End(c, where, status)
  PROVE  /\ pc' \in [Call -> {"idle", "returned", "raised", "crashed"} \cup Executing]
         /\ answer' \in [Call -> OrderStatus \cup {"NONE"}]
         /\ result' \in [Call -> OrderStatus \cup {"NONE", "STRING", "EXCEPTION"}]
BY DEF End, ServiceTypeOK

\* Every step keeps the types of the service's own state.
LEMMA ServiceTypeStep ==
  ASSUME ExecutionAssumption, TypeOK, GatesCurrent, OutcomeKept, Next
  PROVE  ServiceTypeOK'
<1> USE DEF serviceVars, walVars, reconcileVars, callHistory, historyVars, Executing, DurableRow, Fault
<1>0. ServiceTypeOK /\ IdempotencyTypeOK
  BY TypeParts
<1>a. \A c \in Call : KeyOf[c] \in Key /\ IntentOfCall(c) \in Intent
  BY DEF ExecutionAssumption, IntentOfCall
<1>1. ASSUME NEW c \in Call, AdmitDuplicate(c) PROVE ServiceTypeOK'
  <2>1. walQueue' \in Seq(JournalOp) /\ walDisk' \in Rows
    BY <1>0, <1>1, <1>a, LogType DEF AdmitDuplicate, ServiceTypeOK
  <2>2. GetResult(KeyOf[c]) \in OrderStatus \cup {"NONE", "STRING"}
    BY <1>0, <1>a DEF GetResult, IdempotencyTypeOK, CachedResults, OrderStatus
  <2>3. (IF GetResult(KeyOf[c]) = "NONE" THEN "REJECTED" ELSE GetResult(KeyOf[c]))
          \in OrderStatus \cup {"NONE", "STRING", "EXCEPTION"}
    BY <2>2 DEF OrderStatus
  <2>4. QED
    BY <1>0, <1>1, <2>1, <2>3, EndType DEF AdmitDuplicate, ServiceTypeOK
<1>2. ASSUME NEW c \in Call, AdmitNew(c) PROVE ServiceTypeOK'
  <2>1. walQueue' \in Seq(JournalOp) /\ walDisk' \in Rows
    BY <1>0, <1>2, <1>a, LogType DEF AdmitNew, ServiceTypeOK
  <2>2. durable' \in [Intent -> DurableRow] /\ faults' \in Fault
    <3>1. [state |-> "PENDING", order |-> NoCall] \in DurableRow
      BY DEF DurableState
    <3> QED
      BY <1>0, <1>2, <1>a, <3>1, StoreType DEF AdmitNew
  <2>3. ticket' \in [Call -> Nat]
    BY <1>0, <1>2, <1>a DEF AdmitNew, ServiceTypeOK, IdempotencyTypeOK
  <2>4. QED
    BY <1>0, <1>2, <2>1, <2>2, <2>3 DEF AdmitNew, ServiceTypeOK
<1>3. ASSUME NEW c \in Call, GateHalted(c) \/ GateInProgress(c) PROVE ServiceTypeOK'
  BY <1>0, <1>3 DEF GateHalted, GateInProgress, Blocked, ServiceTypeOK, OrderStatus
<1>4. ASSUME NEW c \in Call, GateOpen(c) PROVE ServiceTypeOK'
  <2>1. machine' \in [Key -> ExecutionState \cup {"NONE"}]
    <3>1. "INIT" \in ExecutionState /\ Terminal \subseteq ExecutionState
      BY DEF ExecutionState
    <3>2. TryTransitionTo(CreateOrGet(machine[KeyOf[c]]), "VALIDATED") \in ExecutionState
      BY <1>4, <3>1, TransitionType DEF GateOpen, CreateOrGet
    <3>3. QED
      BY <1>0, <1>4, <3>2 DEF GateOpen, ServiceTypeOK
  <2>2. QED
    BY <1>0, <1>4, <2>1 DEF GateOpen, ServiceTypeOK
<1>5. ASSUME NEW c \in Call, NEW status \in OrderStatus, NEW view \in OrderView,
             PlaceOrder(c, status, view)
      PROVE  ServiceTypeOK'
  <2>1. AfterAttempt(machine[KeyOf[c]], status) \in ExecutionState
    BY <1>0, <1>5, <1>a, AttemptType DEF ServiceTypeOK, GatesCurrent, PlaceOrder
  <2>2. QED
    BY <1>0, <1>5, <2>1 DEF PlaceOrder, ServiceTypeOK
<1>6. ASSUME NEW c \in Call, NEW view \in OrderView, PlaceOrderRaises(c, view) PROVE ServiceTypeOK'
  BY <1>0, <1>6, EndType DEF PlaceOrderRaises, ServiceTypeOK
<1>7. ASSUME NEW c \in Call, Confirm(c) PROVE ServiceTypeOK'
  <2>1. walQueue' \in Seq(JournalOp) /\ walDisk' \in Rows
    BY <1>0, <1>7, <1>a, LogType DEF Confirm, ServiceTypeOK
  <2>2. QED
    BY <1>0, <1>7, <2>1 DEF Confirm, ServiceTypeOK
<1>8. ASSUME NEW c \in Call, ReturnFailed(c) PROVE ServiceTypeOK'
  <2>1. walQueue' \in Seq(JournalOp) /\ walDisk' \in Rows
    BY <1>0, <1>8, <1>a, LogType DEF ReturnFailed, ServiceTypeOK
  <2>2. durable' \in [Intent -> DurableRow] /\ faults' \in Fault
    BY <1>0, <1>8, SetDurableType DEF ReturnFailed, DurableState
  <2>3. answer[c] \in OrderStatus \cup {"NONE"}
    BY <1>0 DEF ServiceTypeOK
  <2>4. QED
    BY <1>0, <1>8, <2>1, <2>2, <2>3, EndType DEF ReturnFailed, ServiceTypeOK
<1>9. ASSUME NEW c \in Call, AdmitRaises(c) PROVE ServiceTypeOK'
  <2>1. walQueue' \in Seq(JournalOp) /\ walDisk' \in Rows
    <3>1. CASE UNCHANGED walVars
      BY <1>0, <3>1 DEF ServiceTypeOK
    <3>2. CASE Log(<<Op("append", IntentOfCall(c))>>)
      BY <1>0, <1>a, <3>2, LogType DEF ServiceTypeOK
    <3> QED
      BY <1>9, <3>1, <3>2 DEF AdmitRaises
  <2>2. faults' \in Fault
    BY <1>0, <1>9, FaultsType DEF AdmitRaises, Error, ServiceTypeOK
  <2> QED
    BY <1>0, <1>9, <2>1, <2>2, EndType DEF AdmitRaises, ServiceTypeOK
<1>10. ASSUME NEW c \in Call, RecordingRaises(c) PROVE ServiceTypeOK'
  <2>1. faults' \in Fault
    BY <1>0, <1>10, FaultsType DEF RecordingRaises, Error, ServiceTypeOK
  <2> QED
    BY <1>0, <1>10, <2>1, EndType DEF RecordingRaises, ServiceTypeOK
<1>11. CASE WalWrite
  <2>1. Head(walQueue) \in JournalOp /\ Tail(walQueue) \in Seq(JournalOp)
    BY <1>0, <1>11 DEF WalWrite, ServiceTypeOK
  <2>2. QED
    BY <1>0, <1>11, <2>1, EffectType DEF WalWrite, ServiceTypeOK
<1>12. ASSUME TripHardHalt \/ ClearHardHalt PROVE ServiceTypeOK'
  BY <1>0, <1>12 DEF TripHardHalt, ClearHardHalt, ServiceTypeOK
<1>13. ASSUME NEW c \in Call, NEW view \in OrderView, BrokerProgress(c, view) PROVE ServiceTypeOK'
  BY <1>0, <1>13 DEF BrokerProgress, ServiceTypeOK
<1>14. CASE ReconcileRead
  <2>1. look' \in [Intent -> Call \cup {NoCall}]
    BY <1>0, <1>14 DEF ReconcileRead, ServiceTypeOK
  <2> QED
    BY <1>0, <1>14, <2>1 DEF ReconcileRead, ServiceTypeOK
<1>14a. ASSUME NEW i \in Intent, ReconcileQuery(i) \/ ReconcileQueryRaises(i) PROVE ServiceTypeOK'
  <2>1. look' \in [Intent -> Call \cup {NoCall}]
    BY <1>0, <1>14a DEF ReconcileQuery, ReconcileQueryRaises, ServiceTypeOK
  <2>2. \A view : RepairFor(view) \in Repair
    BY DEF RepairFor, Repair
  <2>3. repair' \in [Intent -> Repair]
    <3>1. \E new \in Repair : repair' = [repair EXCEPT ![i] = new] \/ repair' = repair
      BY <1>14a, <2>2 DEF ReconcileQuery, ReconcileQueryRaises, Repair
    <3> QED
      BY <1>0, <3>1 DEF ServiceTypeOK
  <2> QED
    BY <1>0, <1>14a, <2>1, <2>3 DEF ReconcileQuery, ReconcileQueryRaises, ServiceTypeOK
<1>15. ASSUME NEW i \in Intent, ReconcileWrite(i) PROVE ServiceTypeOK'
  <2>1. repair[i] \in DurableState
    BY <1>0, <1>15 DEF ReconcileWrite, ServiceTypeOK, Repair, DurableState
  <2>3. [durable[i] EXCEPT !.state = repair[i]] \in DurableRow
    <3>1. durable[i] \in DurableRow
      BY <1>0 DEF ServiceTypeOK
    <3>2. ASSUME NEW rec \in DurableRow, NEW st \in DurableState
          PROVE  [rec EXCEPT !.state = st] \in DurableRow
      OBVIOUS
    <3>3. QED
      BY <2>1, <3>1, <3>2
  <2>4. durable' \in [Intent -> DurableRow] /\ faults' \in Fault
    BY <1>0, <1>15, <2>3, StoreType DEF ReconcileWrite
  <2>5. QED
    BY <1>0, <1>15, <2>4 DEF ReconcileWrite, ServiceTypeOK, Repair
<1>16. ASSUME NEW k \in Key, Expire(k) PROVE ServiceTypeOK'
  BY <1>0, <1>16, FaultsType DEF Expire, ServiceTypeOK
<1>17. CASE Crash
  <2>1. /\ pc' \in [Call -> {"idle", "returned", "raised", "crashed"} \cup Executing]
        /\ answer' \in [Call -> OrderStatus \cup {"NONE"}]
        /\ machine' \in [Key -> ExecutionState \cup {"NONE"}]
        /\ look' \in [Intent -> Call \cup {NoCall}] /\ repair' \in [Intent -> Repair]
    BY <1>0, <1>17 DEF Crash, ServiceTypeOK, Repair
  <2>2. walQueue' \in Seq(JournalOp) /\ session' \in Nat
    BY <1>0, <1>17 DEF Crash, ServiceTypeOK
  <2>4. halted' \in BOOLEAN
    BY <1>17 DEF Crash
  <2>3. faults' \in [crash : Nat, expire : Nat, error : Nat]
    BY <1>0, <1>17, FaultsType DEF Crash, ServiceTypeOK
  <2>5. QED
    BY <1>0, <1>17, <2>1, <2>2, <2>3, <2>4 DEF Crash, ServiceTypeOK
<1>18. ASSUME NEW c \in Call, ReturnExecuted(c) PROVE ServiceTypeOK'
  <2>1. answer[c] \in OrderStatus /\ answer[c] \in DurableState
    BY <1>18 DEF ReturnExecuted, OutcomeKept, Executed, OrderStatus, DurableState
  <2>2. durable' \in [Intent -> DurableRow] /\ faults' \in Fault
    BY <1>0, <1>18, <2>1, SetDurableType DEF ReturnExecuted
  <2>3. QED
    BY <1>0, <1>18, <2>1, <2>2, EndType DEF ReturnExecuted, ServiceTypeOK
<1>19. ASSUME NEW c \in Call, NEW view \in OrderView, PlaceOrderFails(c, view) PROVE ServiceTypeOK'
  <2>1. TryTransitionTo(machine[KeyOf[c]], "FAILED") \in ExecutionState
    BY <1>0, <1>19, <1>a, TransitionType DEF ServiceTypeOK, GatesCurrent, PlaceOrderFails
  <2>2. QED
    BY <1>0, <1>19, <2>1 DEF PlaceOrderFails, ServiceTypeOK, OrderStatus
<1>20. QED
  BY <1>1, <1>2, <1>3, <1>4, <1>5, <1>6, <1>7, <1>8, <1>9, <1>10, <1>11, <1>12, <1>13,
     <1>14, <1>14a, <1>15, <1>16, <1>17, <1>18, <1>19 DEF Next, CallStep

\* Every step keeps the idempotency manager's invariant and counts what it forgets.
LEMMA IdempotencyStep ==
  ASSUME CacheAssumption, ExecutionAssumption, ExecutionInv, Next
  PROVE  IdempotencyInv' /\ Counted
<1>0. IdempotencyInv
  BY DEF ExecutionInv, TypeOK, IdempotencyInv
<1>a. \A c \in Call : KeyOf[c] \in Key
  BY DEF ExecutionAssumption
<1>1. ASSUME NEW c \in Call, AdmitNew(c) PROVE IdempotencyInv' /\ Counted
  BY <1>0, <1>1, <1>a, MarkInFlightKeeps DEF AdmitNew
<1>2. ASSUME NEW c \in Call, Confirm(c) PROVE IdempotencyInv' /\ Counted
  <2>1. answer[c] \in CachedResults
    BY <1>2 DEF Confirm, Executed, CachedResults
  <2>2. QED
    BY <1>0, <1>2, <1>a, <2>1, ConfirmExecutionKeeps DEF Confirm
<1>4. ASSUME NEW k \in Key, Expire(k) PROVE IdempotencyInv' /\ Counted
  BY <1>0, <1>4, ExpireConfirmedKeeps, ExpireInFlightKeeps DEF Expire
<1>5. CASE Crash
  BY <1>0, <1>5, LoadFromPersistenceKeeps DEF Crash
<1>6. CASE UNCHANGED idempotencyVars
  BY <1>0, <1>6, UnchangedCounts
<1>7. QED
  BY <1>1, <1>2, <1>4, <1>5, <1>6
  DEF Next, CallStep, AdmitDuplicate, AdmitRaises, GateHalted, GateInProgress, Blocked, GateOpen, PlaceOrder,
      PlaceOrderFails, PlaceOrderRaises, ReturnExecuted, ReturnFailed, RecordingRaises, WalWrite,
      TripHardHalt, ClearHardHalt, BrokerProgress, ReconcileRead, ReconcileQuery,
      ReconcileQueryRaises, ReconcileWrite

-----------------------------------------------------------------------------
(***************************************************************************)
(* What a step does to the calls.  Every step of execute_order moves one   *)
(* call and leaves the others where they are.                              *)
(***************************************************************************)
Holding == {"admitted", "placing", "answered"}

Ended(c) == /\ pc' = [pc EXCEPT ![c] = "returned"] \/ pc' = [pc EXCEPT ![c] = "raised"]
            /\ UNCHANGED <<ticket, gate, session>>

\* A step is the admission of a call, its passage through the gate, its progress without the
\* marker being touched, its confirmation, its end, a crash, an expiry, or moves no call.
LEMMA StepKinds ==
  ASSUME Next
  PROVE  \/ \E c \in Call : AdmitNew(c)
         \/ \E c \in Call : GateOpen(c)
         \/ \E c \in Call : /\ pc[c] \in Holding /\ pc' = [pc EXCEPT ![c] = "answered"]
                            /\ UNCHANGED <<ticket, gate, session, idempotencyVars>>
         \/ \E c \in Call : Confirm(c)
         \/ \E c \in Call : Ended(c) /\ UNCHANGED idempotencyVars
         \/ Crash
         \/ \E k \in Key : Expire(k)
         \/ UNCHANGED <<pc, ticket, gate, session, idempotencyVars>>
BY DEF Next, CallStep, AdmitDuplicate, AdmitRaises, GateHalted, GateInProgress, Blocked, PlaceOrder,
       PlaceOrderFails, PlaceOrderRaises, ReturnExecuted, ReturnFailed, RecordingRaises, WalWrite,
       TripHardHalt, ClearHardHalt, BrokerProgress, ReconcileRead, ReconcileQuery,
       ReconcileQueryRaises, ReconcileWrite, End, Ended, Holding, callHistory, historyVars, serviceVars

\* Every step keeps the markers of the calls that execute, and at most one call per key there.
LEMMA MarkerStep ==
  ASSUME ExecutionAssumption, ExecutionInv, Next
  PROVE  MarkerHeld' /\ OneExecutionPerKey'
<1> DEFINE Excl == \A c, d \in Call : SameOrder(c, d) => pc[c] \notin Holding \/ pc[d] \notin Holding
           Held == \A c \in Call : pc[c] \in Holding => KeyOf[c] \in inFlight
<1>1. Excl /\ Held /\ pc \in [Call -> {"idle", "returned", "raised", "crashed"} \cup Executing]
  BY DEF ExecutionInv, TypeOK, OneExecutionPerKey, MarkerHeld, Holding
<1>2. (MarkerHeld' /\ OneExecutionPerKey') <=> (Held' /\ Excl')
  BY DEF OneExecutionPerKey, MarkerHeld, Holding
<1>3. ASSUME NEW c \in Call, AdmitNew(c) PROVE Held' /\ Excl'
  <2>1. /\ pc' = [pc EXCEPT ![c] = "admitted"] /\ inFlight' = inFlight \cup {KeyOf[c]}
        /\ KeyOf[c] \notin inFlight
    BY <1>3 DEF AdmitNew, MarkInFlight, IsDuplicate, Remembered
  <2>2. QED
    BY <1>1, <2>1 DEF SameOrder
<1>4. ASSUME NEW c \in Call, GateOpen(c) PROVE Held' /\ Excl'
  <2>1. pc[c] = "admitted" /\ pc' = [pc EXCEPT ![c] = "placing"] /\ inFlight' = inFlight
    BY <1>4 DEF GateOpen, idempotencyVars
  <2>2. QED
    BY <1>1, <2>1 DEF SameOrder, Holding
<1>5. ASSUME NEW c \in Call, pc[c] \in Holding, pc' = [pc EXCEPT ![c] = "answered"],
             UNCHANGED idempotencyVars
      PROVE  Held' /\ Excl'
  BY <1>1, <1>5 DEF SameOrder, Holding, idempotencyVars
<1>6. ASSUME NEW c \in Call, Confirm(c) PROVE Held' /\ Excl'
  <2>1. /\ pc[c] = "answered" /\ pc' = [pc EXCEPT ![c] = "confirmed"]
        /\ inFlight' = inFlight \ {KeyOf[c]}
    BY <1>6 DEF Confirm, ConfirmExecution, ConfirmInMemory
  <2>2. QED
    BY <1>1, <2>1 DEF SameOrder, Holding
<1>7. ASSUME NEW c \in Call, Ended(c), UNCHANGED idempotencyVars PROVE Held' /\ Excl'
  BY <1>1, <1>7 DEF SameOrder, Holding, Ended, idempotencyVars
<1>9. ASSUME Crash PROVE Held' /\ Excl'
  <2>1. \A c \in Call : pc'[c] \notin Holding
    BY <1>9 DEF Crash, Holding, Executing
  <2>2. QED
    BY <2>1
<1>10. ASSUME NEW k \in Key, Expire(k) PROVE Held' /\ Excl'
  <2>1. pc' = pc
    BY <1>10 DEF Expire, serviceVars
  <2>2. \A c \in Call : pc[c] \in Holding => (KeyOf[c] \in inFlight => KeyOf[c] \in inFlight')
    BY <1>10 DEF Expire, ExpireConfirmed, ExpireInFlight, Holding, Executing
  <2>3. QED
    BY <1>1, <2>1, <2>2
<1>11. ASSUME UNCHANGED <<pc, ticket, gate, session, idempotencyVars>> PROVE Held' /\ Excl'
  BY <1>1, <1>11 DEF idempotencyVars
<1>12. Held' /\ Excl'
  BY <1>3, <1>4, <1>5, <1>6, <1>7, <1>9, <1>10, <1>11, StepKinds
<1>13. QED
  BY <1>2, <1>12

\* Every step keeps the tickets of admitted calls current and distinct.
LEMMA TicketStep ==
  ASSUME CacheAssumption, ExecutionAssumption, ExecutionInv, Next
  PROVE  TicketsCurrent' /\ TicketsDistinct'
<1>1. /\ pc \in [Call -> {"idle", "returned", "raised", "crashed"} \cup Executing]
      /\ ticket \in [Call -> Nat] /\ gate \in [Call -> Nat] /\ gen \in [Key -> Nat]
      /\ \A c \in Call : KeyOf[c] \in Key
      /\ session \in Nat /\ session > 0
      /\ TicketsCurrent /\ TicketsDistinct
  BY DEF ExecutionInv, TypeOK, IdempotencyTypeOK, ExecutionAssumption, GatesCurrent
<1>2. gen' \in [Key -> Nat] /\ Counted
  BY IdempotencyStep DEF IdempotencyInv, IdempotencyTypeOK
<1>3. ASSUME ticket' = ticket, \A c \in Call : Admitted(c)' => Admitted(c)
      PROVE  TicketsCurrent' /\ TicketsDistinct'
  <2>1. TicketsCurrent'
    BY <1>1, <1>2, <1>3 DEF TicketsCurrent, Counted
  <2>2. TicketsDistinct'
    BY <1>1, <1>3 DEF TicketsDistinct, SameOrder
  <2>3. QED
    BY <2>1, <2>2
<1>4. ASSUME NEW c \in Call, AdmitNew(c) PROVE TicketsCurrent' /\ TicketsDistinct'
  <2>1. /\ pc' = [pc EXCEPT ![c] = "admitted"] /\ gate' = gate /\ gen' = gen
        /\ ticket' = [ticket EXCEPT ![c] = gen[KeyOf[c]]]
        /\ KeyOf[c] \notin Remembered
    BY <1>4 DEF AdmitNew, MarkInFlight, IsDuplicate
  <2>2. KeyOf[c] \in Remembered'
    BY <1>4 DEF AdmitNew, MarkInFlight, Remembered
  <2>3. \A d \in Call \ {c} : (Admitted(d)' <=> Admitted(d)) /\ ticket'[d] = ticket[d]
    BY <1>1, <2>1 DEF Admitted, AtBroker
  <2>4. ticket'[c] = gen[KeyOf[c]]
    BY <1>1, <2>1
  <2>5. \A d \in Call : SameOrder(c, d) /\ Admitted(d) => ticket[d] < gen[KeyOf[c]]
    BY <1>1, <2>1 DEF TicketsCurrent, SameOrder
  <2>6. TicketsCurrent'
    <3>1. ASSUME NEW d \in Call, Admitted(d)'
          PROVE  /\ ticket'[d] <= gen'[KeyOf[d]]
                 /\ ticket'[d] = gen'[KeyOf[d]] => KeyOf[d] \in Remembered'
      <4>1. CASE d = c
        BY <1>1, <2>1, <2>2, <2>4, <4>1
      <4>2. CASE d # c
        BY <1>1, <1>2, <2>1, <2>3, <3>1, <4>2 DEF TicketsCurrent, Counted
      <4>3. QED
        BY <4>1, <4>2
    <3>2. QED
      BY <3>1 DEF TicketsCurrent
  <2>7. TicketsDistinct'
    BY <1>1, <2>3, <2>4, <2>5 DEF TicketsDistinct, SameOrder
  <2>8. QED
    BY <2>6, <2>7
<1>5. ASSUME NEW c \in Call, GateOpen(c) PROVE TicketsCurrent' /\ TicketsDistinct'
  <2>1. /\ pc[c] = "admitted" /\ pc' = [pc EXCEPT ![c] = "placing"]
        /\ gate' = [gate EXCEPT ![c] = session] /\ ticket' = ticket
    BY <1>5 DEF GateOpen
  <2>2. \A d \in Call : Admitted(d)' => Admitted(d)
    BY <1>1, <2>1 DEF Admitted, AtBroker, Executing
  <2>3. QED
    BY <1>3, <2>1, <2>2
<1>6. ASSUME NEW c \in Call, pc[c] \in Holding, pc' = [pc EXCEPT ![c] = "answered"],
             UNCHANGED <<ticket, gate, session, idempotencyVars>>
      PROVE  TicketsCurrent' /\ TicketsDistinct'
  <2>1. \A d \in Call : Admitted(d)' => Admitted(d)
    BY <1>1, <1>6 DEF Admitted, AtBroker, Executing, Holding
  <2>2. QED
    BY <1>3, <1>6, <2>1
<1>7. ASSUME NEW c \in Call, Confirm(c) PROVE TicketsCurrent' /\ TicketsDistinct'
  <2>1. /\ pc[c] = "answered" /\ pc' = [pc EXCEPT ![c] = "confirmed"]
        /\ gate' = gate /\ ticket' = ticket
    BY <1>7 DEF Confirm, callHistory, historyVars
  <2>2. \A d \in Call : Admitted(d)' => Admitted(d)
    BY <1>1, <2>1 DEF Admitted, AtBroker, Executing
  <2>3. QED
    BY <1>3, <2>1, <2>2
<1>8. ASSUME NEW c \in Call, Ended(c) PROVE TicketsCurrent' /\ TicketsDistinct'
  <2>1. \A d \in Call : Admitted(d)' => Admitted(d)
    BY <1>1, <1>8 DEF Admitted, AtBroker, Executing, Ended
  <2>2. QED
    BY <1>3, <1>8, <2>1 DEF Ended
<1>9. CASE Crash
  <2>1. ticket' = ticket /\ \A d \in Call : Admitted(d)' => Admitted(d)
    BY <1>1, <1>9 DEF Crash, Admitted, AtBroker, Executing
  <2>2. QED
    BY <1>3, <2>1
<1>10. ASSUME NEW k \in Key, Expire(k) PROVE TicketsCurrent' /\ TicketsDistinct'
  <2>1. ticket' = ticket /\ \A d \in Call : Admitted(d)' => Admitted(d)
    BY <1>10 DEF Expire, serviceVars, callHistory, Admitted, AtBroker
  <2>2. QED
    BY <1>3, <2>1
<1>11. CASE UNCHANGED <<pc, ticket, gate, session, idempotencyVars>>
  BY <1>3, <1>11 DEF Admitted, AtBroker
<1>12. QED
  BY <1>4, <1>5, <1>6, <1>7, <1>8, <1>9, <1>10, <1>11, StepKinds

\* Only the gate, the broker call and a crash touch the state machines; no other step lets a
\* call through the gate.
LEMMA MachineKinds ==
  ASSUME TypeOK, Next
  PROVE  \/ \E c \in Call : GateOpen(c)
         \/ \E c \in Call, status \in OrderStatus, view \in OrderView : PlaceOrder(c, status, view)
         \/ \E c \in Call, view \in OrderView : PlaceOrderFails(c, view)
         \/ Crash
         \/ /\ UNCHANGED <<machine, gate, session>>
            /\ \A d \in Call : pc'[d] = "placing" => pc[d] = "placing"
<1>1. pc \in [Call -> {"idle", "returned", "raised", "crashed"} \cup Executing]
  BY DEF TypeOK
<1>2. ASSUME NEW c \in Call, NEW where \in {"returned", "raised", "admitted", "answered", "confirmed"},
             pc' = [pc EXCEPT ![c] = where]
      PROVE  \A d \in Call : pc'[d] = "placing" => pc[d] = "placing"
  BY <1>1, <1>2
<1>3. ASSUME NEW c \in Call, CallStep(c), ~GateOpen(c),
             ~ \E status \in OrderStatus, view \in OrderView : PlaceOrder(c, status, view),
             ~ \E view \in OrderView : PlaceOrderFails(c, view)
      PROVE  /\ UNCHANGED <<machine, gate, session>>
             /\ \E where \in {"returned", "raised", "admitted", "answered", "confirmed"} :
                  pc' = [pc EXCEPT ![c] = where]
  BY <1>3 DEF CallStep, AdmitDuplicate, AdmitNew, AdmitRaises, GateHalted, GateInProgress, Blocked,
              PlaceOrderRaises, Confirm, ReturnExecuted, ReturnFailed, RecordingRaises, End,
              callHistory, historyVars
<1>4. CASE \E c \in Call : CallStep(c)
  BY <1>2, <1>3, <1>4
<1>5. CASE UNCHANGED <<machine, gate, session, pc>>
  BY <1>5
<1>6. QED
  BY <1>4, <1>5 DEF Next, WalWrite, TripHardHalt, ClearHardHalt, BrokerProgress, ReconcileRead,
                    ReconcileQuery, ReconcileQueryRaises, ReconcileWrite, Expire, callHistory,
                    historyVars, serviceVars

\* Every step keeps what the gates say about the state machines.
LEMMA GateStep ==
  ASSUME ExecutionAssumption, ExecutionInv, Next
  PROVE  GatesCurrent' /\ NoReplaceWhileMachineOpen'
<1>1. /\ pc \in [Call -> {"idle", "returned", "raised", "crashed"} \cup Executing]
      /\ machine \in [Key -> ExecutionState \cup {"NONE"}]
      /\ gate \in [Call -> Nat] /\ session \in Nat
      /\ \A c \in Call : KeyOf[c] \in Key
      /\ GatesCurrent /\ NoReplaceWhileMachineOpen /\ TypeOK
  BY DEF ExecutionInv, TypeOK, ExecutionAssumption
<1>2. "NONE" \notin ExecutionState /\ Terminal \subseteq ExecutionState /\ "INIT" \in ExecutionState
  BY DEF ExecutionState, Terminal
<1>3. ASSUME NEW c \in Call, GateOpen(c) PROVE GatesCurrent' /\ NoReplaceWhileMachineOpen'
  <2> DEFINE k == KeyOf[c]
             new == TryTransitionTo(CreateOrGet(machine[k]), "VALIDATED")
  <2>1. /\ machine' = [machine EXCEPT ![k] = new]
        /\ gate' = [gate EXCEPT ![c] = session] /\ session' = session
        /\ pc' = [pc EXCEPT ![c] = "placing"]
        /\ machine[k] \in Terminal \cup {"NONE"}
    BY <1>3 DEF GateOpen
  <2>2. new \in ExecutionState
    BY <1>2, <2>1, TransitionType DEF CreateOrGet
  <2>3. machine[k] \in Terminal => new = machine[k]
    BY <1>2, TerminalStays DEF CreateOrGet, Terminal
  <2> HIDE DEF new
  <2>4. GatesCurrent'
    BY <1>1, <1>2, <2>1, <2>2 DEF GatesCurrent
  <2>5. NoReplaceWhileMachineOpen'
    <3>1. CASE machine[k] = "NONE"
      <4>1. \A d \in Call : KeyOf[d] = k => gate[d] # session
        BY <1>1, <3>1 DEF GatesCurrent
      <4>2. QED
        BY <1>1, <2>1, <4>1 DEF NoReplaceWhileMachineOpen, SameOrder
    <3>2. CASE machine[k] \in Terminal
      <4>1. machine' = machine
        BY <1>1, <2>1, <2>3, <3>2
      <4>2. QED
        BY <1>1, <2>1, <3>2, <4>1 DEF NoReplaceWhileMachineOpen, SameOrder
    <3>3. QED
      BY <2>1, <3>1, <3>2
  <2>6. QED
    BY <2>4, <2>5
<1>4. ASSUME NEW c \in Call, NEW status \in OrderStatus, NEW view \in OrderView,
             PlaceOrder(c, status, view)
      PROVE  GatesCurrent' /\ NoReplaceWhileMachineOpen'
  <2> DEFINE k == KeyOf[c]
             new == AfterAttempt(machine[k], status)
  <2>1. /\ machine' = [machine EXCEPT ![k] = new] /\ gate' = gate /\ session' = session
        /\ pc[c] = "placing" /\ pc' = [pc EXCEPT ![c] = "answered"]
    BY <1>4 DEF PlaceOrder, callHistory, historyVars
  <2>2. machine[k] \in ExecutionState
    BY <1>1, <2>1 DEF GatesCurrent
  <2>3. new \in ExecutionState /\ (machine[k] \in Terminal => new = machine[k])
    BY <2>2, AttemptType, AttemptTerminal
  <2> HIDE DEF new
  <2>4. GatesCurrent'
    BY <1>1, <1>2, <2>1, <2>3 DEF GatesCurrent
  <2>5. NoReplaceWhileMachineOpen'
    BY <1>1, <2>1, <2>3 DEF NoReplaceWhileMachineOpen, SameOrder
  <2>6. QED
    BY <2>4, <2>5
<1>4a. ASSUME NEW c \in Call, NEW view \in OrderView, PlaceOrderFails(c, view)
       PROVE  GatesCurrent' /\ NoReplaceWhileMachineOpen'
  <2> DEFINE k == KeyOf[c]
             new == TryTransitionTo(machine[k], "FAILED")
  <2>1. /\ machine' = [machine EXCEPT ![k] = new] /\ gate' = gate /\ session' = session
        /\ pc[c] = "placing" /\ pc' = [pc EXCEPT ![c] = "answered"]
    BY <1>4a DEF PlaceOrderFails, callHistory, historyVars
  <2>2. machine[k] \in ExecutionState
    BY <1>1, <2>1 DEF GatesCurrent
  <2>3. new \in ExecutionState /\ (machine[k] \in Terminal => new = machine[k])
    BY <2>2, TransitionType, TerminalStays
  <2> HIDE DEF new
  <2>4. GatesCurrent'
    BY <1>1, <1>2, <2>1, <2>3 DEF GatesCurrent
  <2>5. NoReplaceWhileMachineOpen'
    BY <1>1, <2>1, <2>3 DEF NoReplaceWhileMachineOpen, SameOrder
  <2>6. QED
    BY <2>4, <2>5
<1>5. CASE Crash
  <2>1. /\ session' = session + 1 /\ gate' = gate
        /\ \A c \in Call : pc'[c] # "placing"
    BY <1>5 DEF Crash, Executing
  <2>2. \A c \in Call : gate'[c] < session'
    BY <1>1, <2>1 DEF GatesCurrent
  <2>3. QED
    BY <1>1, <2>1, <2>2 DEF GatesCurrent, NoReplaceWhileMachineOpen
<1>6. CASE /\ UNCHANGED <<machine, gate, session>>
           /\ \A d \in Call : pc'[d] = "placing" => pc[d] = "placing"
  BY <1>1, <1>6 DEF GatesCurrent, NoReplaceWhileMachineOpen
<1>7. QED
  BY <1>1, <1>3, <1>4, <1>4a, <1>5, <1>6, MachineKinds

\* Every step keeps the outcome of a confirmed call.
LEMMA OutcomeStep ==
  ASSUME ExecutionInv, Next
  PROVE  OutcomeKept'
<1>1. /\ pc \in [Call -> {"idle", "returned", "raised", "crashed"} \cup Executing]
      /\ answer \in [Call -> OrderStatus \cup {"NONE"}]
      /\ OutcomeKept
  BY DEF ExecutionInv, TypeOK
<1>2. ASSUME NEW c \in Call, CallStep(c) PROVE OutcomeKept'
  <2>1. /\ \A d \in Call \ {c} : pc'[d] = pc[d] /\ answer'[d] = answer[d]
        /\ pc'[c] = "confirmed" => answer'[c] = answer[c] /\ Executed(c)
    BY <1>1, <1>2
    DEF CallStep, AdmitDuplicate, AdmitNew, AdmitRaises, GateHalted, GateInProgress, Blocked,
        GateOpen, PlaceOrder, PlaceOrderFails, PlaceOrderRaises, Confirm, ReturnExecuted,
        ReturnFailed, RecordingRaises, End, Executing
  <2>2. QED
    BY <1>1, <2>1 DEF OutcomeKept, Executed
<1>3. CASE Crash
  BY <1>1, <1>3 DEF Crash, OutcomeKept, Executing
<1>4. CASE UNCHANGED <<pc, answer>>
  BY <1>1, <1>4 DEF OutcomeKept, Executed
<1>5. QED
  BY <1>2, <1>3, <1>4 DEF Next, WalWrite, TripHardHalt, ClearHardHalt, BrokerProgress,
                          ReconcileRead, ReconcileQuery, ReconcileQueryRaises, ReconcileWrite,
                          Expire, serviceVars

-----------------------------------------------------------------------------
(***************************************************************************)
(* The invariant and what follows from it.                                 *)
(***************************************************************************)
\* The initial state satisfies the invariant.
LEMMA InitInv ==
  ASSUME CacheAssumption, ExecutionAssumption, Init
  PROVE  ExecutionInv
<1>1. TypeOK
  <2>1. IdempotencyTypeOK
    BY DEF Init, IdempotencyInit, IdempotencyTypeOK, CachedResults
  <2>2. ServiceTypeOK
    <3>1. /\ durable \in [Intent -> [state : DurableState, order : Call \cup {NoCall}]]
          /\ look \in [Intent -> Call \cup {NoCall}]
          /\ repair \in [Intent -> Repair] /\ order \in [Call -> OrderView] /\ walDisk \in Rows
      BY DEF Init, DurableState, Repair, OrderView, Rows, NoRows, IntentStatus
    <3>2. faults \in [crash : Nat, expire : Nat, error : Nat]
      BY DEF Init
    <3>3. walQueue \in Seq(JournalOp)
      BY DEF Init
    <3>4. halted \in BOOLEAN
      BY DEF Init
    <3>5. QED
      BY <3>1, <3>2, <3>3, <3>4 DEF Init, ServiceTypeOK
  <2>3. QED
    BY <2>1, <2>2, TypeParts
<1>2. MarkerHeld /\ OneExecutionPerKey /\ OutcomeKept
  BY DEF Init, MarkerHeld, OneExecutionPerKey, OutcomeKept
<1>3. TicketsCurrent /\ TicketsDistinct
  BY DEF Init, TicketsCurrent, TicketsDistinct, Admitted, AtBroker, Executing
<1>4. GatesCurrent /\ NoReplaceWhileMachineOpen
  BY DEF Init, GatesCurrent, NoReplaceWhileMachineOpen
<1>5. ConfirmedStored
  BY DEF Init, IdempotencyInit, ConfirmedStored, Confirmed
<1>6. QED
  BY <1>1, <1>2, <1>3, <1>4, <1>5 DEF ExecutionInv

\* Every step keeps the invariant.
LEMMA NextInv ==
  ASSUME CacheAssumption, ExecutionAssumption, ExecutionInv, [Next]_vars
  PROVE  ExecutionInv'
<1>1. CASE Next
  <2>1. TypeOK' /\ ConfirmedStored'
    BY <1>1, ServiceTypeStep, IdempotencyStep, TypeParts DEF ExecutionInv, IdempotencyInv
  <2>2. QED
    BY <1>1, <2>1, MarkerStep, TicketStep, GateStep, OutcomeStep DEF ExecutionInv
<1>2. CASE UNCHANGED vars
  BY <1>2
  DEF ExecutionInv, TypeOK, IdempotencyTypeOK, MarkerHeld, OneExecutionPerKey, TicketsCurrent,
      TicketsDistinct, GatesCurrent, NoReplaceWhileMachineOpen, ConfirmedStored, OutcomeKept,
      Admitted, AtBroker, Executed, Remembered, Confirmed, vars, serviceVars, walVars, reconcileVars,
      callHistory, historyVars, idempotencyVars, tableVars
<1>3. QED
  BY <1>1, <1>2

\* The invariant holds in every reachable state of execute_order.
THEOREM ExecutionInvariant == Spec => []ExecutionInv
BY CacheAssumption, ExecutionAssumption, InitInv, NextInv, PTL DEF Spec

\* Type correctness of the service and of the idempotency manager.
THEOREM TypeCorrect == Spec => []TypeOK
<1>1. ExecutionInv => TypeOK
  BY DEF ExecutionInv
<1>2. QED
  BY <1>1, ExecutionInvariant, PTL

\* As long as the manager remembers a key, at most one call with it reaches the broker.
THEOREM AtMostOneOrder == Spec => []OneOrderPerRemembering
<1>1. ExecutionInv => OneOrderPerRemembering
  BY DEF ExecutionInv, TicketsDistinct, OneOrderPerRemembering, Admitted
<1>2. QED
  BY <1>1, ExecutionInvariant, PTL

\* Two calls with one key never execute at the same time.
THEOREM ExclusiveExecution == Spec => []OneExecutionPerKey
<1>1. ExecutionInv => OneExecutionPerKey
  BY DEF ExecutionInv
<1>2. QED
  BY <1>1, ExecutionInvariant, PTL

\* A key is sent to the broker again in the same process only after its machine has ended.
THEOREM NoReplacement == Spec => []NoReplaceWhileMachineOpen
<1>1. ExecutionInv => NoReplaceWhileMachineOpen
  BY DEF ExecutionInv
<1>2. QED
  BY <1>1, ExecutionInvariant, PTL

\* A restart whose load SQLite does not refuse loads every confirmed key again whose
\* confirmation SQLite did not refuse.
THEOREM RestartKeeps == Spec => RestartKeepsConfirmed
<1> DEFINE Kept == session' # session /\ refusals' = refusals => Confirmed \ unsaved \subseteq Confirmed'
<1>1. ASSUME ExecutionInv, [Next]_vars
      PROVE  [Kept]_vars
  <2>1. CASE Crash
    BY <1>1, <2>1, LoadFromPersistenceKeeps, CacheAssumption DEF Crash, ExecutionInv, TypeOK, IdempotencyInv
  <2>2. CASE UNCHANGED vars
    BY <2>2
  <2>3. CASE Next /\ ~Crash
    <3>1. session' = session
      BY <2>3 DEF Next, CallStep, AdmitDuplicate, AdmitNew, AdmitRaises, GateHalted, GateInProgress,
                  Blocked, GateOpen, PlaceOrder, PlaceOrderFails, PlaceOrderRaises, Confirm,
                  ReturnExecuted, ReturnFailed, RecordingRaises, WalWrite, TripHardHalt,
                  ClearHardHalt, BrokerProgress, ReconcileRead, ReconcileQuery,
                  ReconcileQueryRaises, ReconcileWrite, Expire, callHistory, historyVars
    <3>2. QED
      BY <3>1
  <2>4. QED
    BY <1>1, <2>1, <2>2, <2>3
<1>2. QED
  BY <1>1, ExecutionInvariant, PTL DEF Spec, RestartKeepsConfirmed
=============================================================================
