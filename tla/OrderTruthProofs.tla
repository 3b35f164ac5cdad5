-------------------------- MODULE OrderTruthProofs ---------------------------
(***************************************************************************)
(* What execute_order tells its callers, writes into the durable rows and  *)
(* commits to the journal is true, for any number of calls, keys and       *)
(* intents, however calls, reconciliation, expiry, errors and crashes      *)
(* interleave.                                                             *)
(***************************************************************************)
EXTENDS OrderExecutionProofs

AnsweredExecuted == {"FILLED", "PARTIALLY_FILLED"}

\* A call has no order at the broker until its broker call.
NotYetPlaced == \A c \in Call : pc[c] \in {"idle", "admitted", "placing"} => order[c] = "none"

\* An answer that reports an execution is kept only for an executed order.
AnswersTrue == \A c \in Call : Executed(c) => order[c] \in ExecutedView

ExecutedKey(k) == \E c \in Call : KeyOf[c] = k /\ order[c] \in ExecutedView

\* The manager holds a result, in memory or in its table, for executed keys only.
ResultsTrue ==
  \A k \in Key : cachedResult[k] # "NONE" \/ rows[k] = "confirmed" => ExecutedKey(k)

\* A durable row, and what the reconciliation read of it, names a call for its own instrument,
\* and a repair that is about to mark it as filled was read off an executed order.
RepairsTrue ==
  \A i \in Intent : /\ durable[i].order # NoCall => IntentOfCall(durable[i].order) = i
                    /\ look[i] # NoCall => IntentOfCall(look[i]) = i
                    /\ repair[i] = "FILLED" => ExecutedFor(i)

\* Every commit that is still queued is for an instrument with an executed order.
CommitsTrue ==
  \A n \in 1..Len(walQueue) : walQueue[n].kind = "commit" => ExecutedFor(walQueue[n].id)

\* The properties of the runs, with what makes them inductive.
RecordsInv ==
  /\ NotYetPlaced /\ AnswersTrue
  /\ ResultsTrue /\ CallerTold
  /\ RepairsTrue /\ DurableTruth
  /\ CommitsTrue /\ CommittedIsExecuted

-----------------------------------------------------------------------------
(***************************************************************************)
(* What a step does to the orders at the broker.                           *)
(***************************************************************************)
\* A step of a call touches no other call, and either leaves its order and learns of no
\* execution, or is the broker call, whose answer reports an execution only of an executed
\* order.
LEMMA CallOrders ==
  ASSUME TypeOK, NEW c \in Call, CallStep(c)
  PROVE  /\ \A d \in Call \ {c} : pc'[d] = pc[d] /\ answer'[d] = answer[d] /\ order'[d] = order[d]
         /\ \/ /\ order'[c] = order[c] /\ answer'[c] \in {answer[c], "NONE", "REJECTED"}
               /\ pc'[c] \in {"idle", "admitted", "placing"} => pc[c] \in {"idle", "admitted"}
            \/ /\ pc[c] = "placing" /\ pc'[c] \in {"answered", "raised"}
               /\ answer'[c] \in AnsweredExecuted => order'[c] \in ExecutedView
<1>1. /\ pc \in [Call -> {"idle", "returned", "raised", "crashed"} \cup Executing]
      /\ answer \in [Call -> OrderStatus \cup {"NONE"}]
      /\ order \in [Call -> OrderView]
  BY DEF TypeOK
<1>2. ASSUME NEW where \in {"returned", "raised"}, NEW status, End(c, where, status)
      PROVE  /\ \A d \in Call \ {c} : pc'[d] = pc[d] /\ answer'[d] = answer[d]
             /\ pc'[c] = where /\ answer'[c] = "NONE"
  BY <1>1, <1>2 DEF End
<1>3. CASE AdmitDuplicate(c) \/ AdmitRaises(c) \/ ReturnExecuted(c) \/ ReturnFailed(c) \/ RecordingRaises(c)
  <2>1. order' = order /\ \E where \in {"returned", "raised"}, status \in {result'[c]} : End(c, where, status)
    BY <1>3 DEF AdmitDuplicate, AdmitRaises, ReturnExecuted, ReturnFailed, RecordingRaises, End
  <2> QED
    BY <1>2, <2>1
<1>4. CASE AdmitNew(c)
  BY <1>1, <1>4 DEF AdmitNew
<1>5. CASE GateHalted(c) \/ GateInProgress(c)
  BY <1>1, <1>5 DEF GateHalted, GateInProgress, Blocked
<1>6. CASE GateOpen(c)
  BY <1>1, <1>6 DEF GateOpen
<1>7. ASSUME NEW status \in OrderStatus, NEW view \in OrderView, PlaceOrder(c, status, view)
      PROVE  /\ \A d \in Call \ {c} : pc'[d] = pc[d] /\ answer'[d] = answer[d] /\ order'[d] = order[d]
             /\ pc[c] = "placing" /\ pc'[c] = "answered"
             /\ answer'[c] \in AnsweredExecuted => order'[c] \in ExecutedView
  BY <1>1, <1>7 DEF PlaceOrder, Answers, AnsweredExecuted, ExecutedView
<1>8. ASSUME NEW view \in OrderView, PlaceOrderRaises(c, view)
      PROVE  /\ \A d \in Call \ {c} : pc'[d] = pc[d] /\ answer'[d] = answer[d] /\ order'[d] = order[d]
             /\ pc[c] = "placing" /\ pc'[c] = "raised" /\ answer'[c] = "NONE"
  BY <1>1, <1>2, <1>8 DEF PlaceOrderRaises
<1>9. CASE Confirm(c)
  BY <1>1, <1>9 DEF Confirm
<1>10. ASSUME NEW view \in OrderView, PlaceOrderFails(c, view)
       PROVE  /\ \A d \in Call \ {c} : pc'[d] = pc[d] /\ answer'[d] = answer[d] /\ order'[d] = order[d]
              /\ pc[c] = "placing" /\ pc'[c] = "answered" /\ answer'[c] = "REJECTED"
  BY <1>1, <1>10 DEF PlaceOrderFails
<1> QED
  BY <1>3, <1>4, <1>5, <1>6, <1>7, <1>8, <1>9, <1>10 DEF CallStep, AnsweredExecuted

\* The broker's progress and a crash make no order less executed, and the rest of the system
\* touches neither calls nor orders.
LEMMA OtherOrders ==
  ASSUME TypeOK, Next, ~ \E c \in Call : CallStep(c)
  PROVE  \A c \in Call :
           /\ order[c] \in ExecutedView => order'[c] \in ExecutedView
           /\ order[c] = "none" => order'[c] = "none"
           /\ answer'[c] \in {answer[c], "NONE"}
           /\ pc'[c] \in {pc[c], "crashed"}
<1>1. /\ pc \in [Call -> {"idle", "returned", "raised", "crashed"} \cup Executing]
      /\ order \in [Call -> OrderView]
  BY DEF TypeOK
<1>2. ASSUME NEW c \in Call, NEW view \in OrderView, BrokerProgress(c, view)
      PROVE  /\ UNCHANGED <<pc, answer>>
             /\ \A d \in Call : /\ order[d] \in ExecutedView => order'[d] \in ExecutedView
                                /\ order[d] = "none" => order'[d] = "none"
  BY <1>1, <1>2 DEF BrokerProgress, serviceVars, ExecutedView
<1>3. CASE Crash
  BY <1>1, <1>3 DEF Crash
<1>4. CASE UNCHANGED <<pc, answer, order>>
  BY <1>4
<1> QED
  BY <1>2, <1>3, <1>4 DEF Next, WalWrite, TripHardHalt, ClearHardHalt, ReconcileRead, ReconcileQuery,
                          ReconcileQueryRaises, ReconcileWrite, Expire, serviceVars

\* No order is placed twice by one call, so what was executed stays executed.
LEMMA OrderStep ==
  ASSUME TypeOK, NotYetPlaced, AnswersTrue, Next
  PROVE  /\ NotYetPlaced' /\ AnswersTrue'
         /\ \A c \in Call : order[c] \in ExecutedView => order'[c] \in ExecutedView
<1>1. CASE \E c \in Call : CallStep(c)
  <2>1. PICK c \in Call : CallStep(c)
    BY <1>1
  <2>2. "none" \notin ExecutedView /\ {"NONE", "REJECTED"} \cap AnsweredExecuted = {}
    BY DEF ExecutedView, AnsweredExecuted
  <2> QED
    BY <2>1, <2>2, CallOrders DEF NotYetPlaced, AnswersTrue, Executed, AnsweredExecuted
<1>2. CASE ~ \E c \in Call : CallStep(c)
  BY <1>2, OtherOrders DEF NotYetPlaced, AnswersTrue, Executed
<1> QED
  BY <1>1, <1>2

\* What was executed for a key or an instrument stays executed.
LEMMA ExecutedKeeps ==
  ASSUME TypeOK, NotYetPlaced, AnswersTrue, Next
  PROVE  /\ \A k : ExecutedKey(k) => ExecutedKey(k)'
         /\ \A i : ExecutedFor(i) => ExecutedFor(i)'
BY OrderStep DEF ExecutedKey, ExecutedFor, IntentOfCall

-----------------------------------------------------------------------------
(***************************************************************************)
(* What callers are told.                                                  *)
(***************************************************************************)
HasResult(k) == cachedResult[k] # "NONE" \/ rows[k] = "confirmed"

Told == {"FILLED", "PARTIALLY_FILLED", "STRING"}

\* The manager gets to hold a result by a confirmation only, not by a restart.
LEMMA ResultSources ==
  ASSUME TypeOK, ExecutionAssumption, Next
  PROVE  \A k \in Key : HasResult(k)' => HasResult(k) \/ \E c \in Call : KeyOf[c] = k /\ Executed(c)
<1>1. /\ cachedResult \in [Key -> CachedResults]
      /\ rows \in [Key -> {"none", "in_flight", "confirmed"}]
  BY DEF TypeOK, IdempotencyTypeOK
<1>2. \A c \in Call : KeyOf[c] \in Key
  BY DEF ExecutionAssumption
<1>3. CASE UNCHANGED <<cachedResult, rows>>
  BY <1>3 DEF HasResult
<1>4. ASSUME NEW c \in Call, AdmitNew(c)
      PROVE  \A k \in Key : HasResult(k)' => HasResult(k)
  BY <1>1, <1>2, <1>4 DEF AdmitNew, MarkInFlight, Refused, HasResult
<1>5. ASSUME NEW c \in Call, Confirm(c)
      PROVE  \A k \in Key : HasResult(k)' => HasResult(k) \/ (KeyOf[c] = k /\ Executed(c))
  <2>1. /\ \A k \in Key \ {KeyOf[c]} : rows'[k] = rows[k] /\ cachedResult'[k] = cachedResult[k]
        /\ Executed(c)
    BY <1>1, <1>2, <1>5 DEF Confirm, ConfirmExecution, ConfirmInMemory, Refused
  <2> QED
    BY <2>1 DEF HasResult
<1>7. ASSUME NEW k \in Key, Expire(k)
      PROVE  \A l \in Key : HasResult(l)' => HasResult(l)
  BY <1>1, <1>7 DEF Expire, ExpireConfirmed, ExpireInFlight, HasResult, tableVars
<1>8. ASSUME Crash
      PROVE  \A k \in Key : HasResult(k)' => HasResult(k)
  <2>1. rows' = rows /\ \E loaded \in SUBSET StoredKeys : LoadRows(loaded)
    BY <1>8 DEF Crash, LoadFromPersistence, Refused
  <2> QED
    BY <1>1, <2>1 DEF LoadRows, StoredKeys, HasResult
<1>9. \/ UNCHANGED <<cachedResult, rows>>
      \/ \E c \in Call : AdmitNew(c) \/ Confirm(c)
      \/ \E k \in Key : Expire(k)
      \/ Crash
  BY DEF Next, CallStep, AdmitDuplicate, AdmitRaises, GateHalted, GateInProgress, Blocked, GateOpen,
         PlaceOrder, PlaceOrderFails, PlaceOrderRaises, ReturnExecuted, ReturnFailed, RecordingRaises,
         WalWrite, TripHardHalt, ClearHardHalt, BrokerProgress, ReconcileRead, ReconcileQuery,
         ReconcileQueryRaises, ReconcileWrite, idempotencyVars, tableVars
<1> QED
  BY <1>3, <1>4, <1>5, <1>7, <1>8, <1>9

\* A call is told of an execution by its own answer or by a result the manager holds.
LEMMA ToldSources ==
  ASSUME TypeOK, ExecutionAssumption, OutcomeKept, Next
  PROVE  \A c \in Call :
           result'[c] \in Told => result[c] \in Told \/ Executed(c) \/ HasResult(KeyOf[c])
<1>1. result \in [Call -> OrderStatus \cup {"NONE", "STRING", "EXCEPTION"}]
  BY DEF TypeOK
<1>2. ASSUME NEW c \in Call, NEW where, NEW status, End(c, where, status),
             status \in Told => Executed(c) \/ HasResult(KeyOf[c])
      PROVE  \A d \in Call :
               result'[d] \in Told => result[d] \in Told \/ Executed(d) \/ HasResult(KeyOf[d])
  BY <1>1, <1>2 DEF End
<1>3. ASSUME NEW c \in Call,
             AdmitDuplicate(c) \/ ReturnExecuted(c) \/ ReturnFailed(c)
             \/ AdmitRaises(c) \/ RecordingRaises(c) \/ \E view \in OrderView : PlaceOrderRaises(c, view)
      PROVE  \A d \in Call :
               result'[d] \in Told => result[d] \in Told \/ Executed(d) \/ HasResult(KeyOf[d])
  <2>1. CASE AdmitDuplicate(c)
    <3>1. GetResult(KeyOf[c]) # "NONE" => HasResult(KeyOf[c])
      BY DEF GetResult, HasResult
    <3>2. "REJECTED" \notin Told
      BY DEF Told
    <3> QED
      BY <1>2, <2>1, <3>1, <3>2 DEF AdmitDuplicate
  <2>2. CASE ReturnExecuted(c)
    BY <1>2, <2>2 DEF ReturnExecuted, OutcomeKept
  <2>3. CASE ReturnFailed(c)
    <3>1. answer[c] \in OrderStatus \cup {"NONE"}
      BY DEF TypeOK
    <3>2. answer[c] \notin Told
      BY <2>3, <3>1 DEF ReturnFailed, Executed, Told, OrderStatus
    <3> QED
      BY <1>2, <2>3, <3>2 DEF ReturnFailed
  <2>4. CASE AdmitRaises(c) \/ RecordingRaises(c) \/ \E view \in OrderView : PlaceOrderRaises(c, view)
    <3>1. \E where, status : End(c, where, status) /\ status \in {"REJECTED", "EXCEPTION"}
      BY <2>4 DEF AdmitRaises, RecordingRaises, PlaceOrderRaises
    <3>2. {"REJECTED", "EXCEPTION"} \cap Told = {}
      BY DEF Told
    <3> QED
      BY <1>2, <3>1, <3>2
  <2> QED
    BY <1>3, <2>1, <2>2, <2>3, <2>4
<1>4. CASE UNCHANGED result
  BY <1>4
<1>5. \/ UNCHANGED result
      \/ \E c \in Call : \/ AdmitDuplicate(c) \/ ReturnExecuted(c) \/ ReturnFailed(c)
                         \/ AdmitRaises(c) \/ RecordingRaises(c)
                         \/ \E view \in OrderView : PlaceOrderRaises(c, view)
  BY DEF Next, CallStep, AdmitNew, GateHalted, GateInProgress, Blocked, GateOpen, PlaceOrder,
         PlaceOrderFails, Confirm, WalWrite, TripHardHalt, ClearHardHalt, BrokerProgress, ReconcileRead,
         ReconcileQuery, ReconcileQueryRaises, ReconcileWrite, Expire, Crash, serviceVars
<1> QED
  BY <1>3, <1>4, <1>5

\* Callers are told of an execution only when there was one.
LEMMA ResultsStep ==
  ASSUME ExecutionInv, ExecutionAssumption, RecordsInv, Next
  PROVE  ResultsTrue' /\ CallerTold'
<1>1. \A k : ExecutedKey(k) => ExecutedKey(k)'
  BY ExecutedKeeps DEF ExecutionInv, RecordsInv
<1>2. \A c \in Call : Executed(c) => ExecutedKey(KeyOf[c])
  BY DEF RecordsInv, AnswersTrue, ExecutedKey
<1>3. \A k \in Key : HasResult(k) => ExecutedKey(k)
  BY DEF RecordsInv, ResultsTrue, HasResult
<1>4. ResultsTrue'
  <2>1. \A k \in Key : HasResult(k)' => ExecutedKey(k)'
    BY <1>1, <1>2, <1>3, ResultSources DEF ExecutionInv
  <2> QED
    BY <2>1 DEF ResultsTrue, HasResult
<1>5. CallerTold'
  <2>1. \A c \in Call : result[c] \in Told => ExecutedKey(KeyOf[c])
    BY DEF RecordsInv, CallerTold, ExecutedKey, Told
  <2>2. \A c \in Call : KeyOf[c] \in Key
    BY DEF ExecutionAssumption
  <2>3. \A c \in Call : result'[c] \in Told => ExecutedKey(KeyOf[c])'
    BY <1>1, <1>2, <1>3, <2>1, <2>2, ToldSources DEF ExecutionInv
  <2> QED
    BY <2>3 DEF CallerTold, ExecutedKey, Told
<1> QED
  BY <1>4, <1>5

-----------------------------------------------------------------------------
(***************************************************************************)
(* What the durable rows say.                                              *)
(***************************************************************************)
FilledRow == {"FILLED", "PARTIALLY_FILLED"}

NamesOwn(row, i) == row.order # NoCall => IntentOfCall(row.order) = i

RowTrue(i) ==
  /\ NamesOwn(durable[i], i)
  /\ durable[i].state \in FilledRow => ExecutedFor(i)
  /\ look[i] # NoCall => IntentOfCall(look[i]) = i
  /\ repair[i] = "FILLED" => ExecutedFor(i)

\* The three properties of the rows, one row at a time.
LEMMA RowsTrueParts ==
  /\ RepairsTrue /\ DurableTruth <=> \A i \in Intent : RowTrue(i)
  /\ RepairsTrue' /\ DurableTruth' <=> \A i \in Intent : RowTrue(i)'
BY DEF RepairsTrue, DurableTruth, RowTrue, NamesOwn, FilledRow

\* A write of a true row leaves every row true, also when SQLite refuses it.
LEMMA StoreTrue ==
  ASSUME TypeOK, NEW i \in Intent, NEW row, Store(i, row), NamesOwn(row, i),
         row.state \in FilledRow => ExecutedFor(i), \A j \in Intent : RowTrue(j)
  PROVE  \A j \in Intent : NamesOwn(durable'[j], j) /\ (durable'[j].state \in FilledRow => ExecutedFor(j))
<1>1. durable \in [Intent -> [state : DurableState, order : Call \cup {NoCall}]]
  BY DEF TypeOK
<1>2. \A j \in Intent : durable'[j] = durable[j] \/ (j = i /\ durable'[j] = row)
  BY <1>1 DEF Store
<1> QED
  BY <1>2 DEF RowTrue

\* A call writes the row of its own instrument; a row that says filled comes from an answer
\* that reported an execution.
LEMMA SetDurableRow ==
  ASSUME TypeOK, ExecutionAssumption, NEW c \in Call, NEW state, NEW by \in {c, NoCall},
         SetDurable(c, state, by), state \in FilledRow => ExecutedFor(IntentOfCall(c)),
         \A i \in Intent : RowTrue(i)
  PROVE  \A i \in Intent : NamesOwn(durable'[i], i) /\ (durable'[i].state \in FilledRow => ExecutedFor(i))
<1> DEFINE i == IntentOfCall(c)
           row == [state |-> state, order |-> IF by = NoCall THEN durable[i].order ELSE by]
           new == IF durable[i].state = "NONE" THEN durable[i] ELSE row
<1>1. i \in Intent
  BY DEF IntentOfCall, ExecutionAssumption
<1>2. row.state = state /\ row.order = IF by = NoCall THEN durable[i].order ELSE by
  OBVIOUS
<1>3. NamesOwn(row, i)
  BY <1>1, <1>2 DEF RowTrue, NamesOwn
<1>4. Store(i, new)
  BY DEF SetDurable
<1>5. NamesOwn(new, i) /\ (new.state \in FilledRow => ExecutedFor(i))
  <2> HIDE DEF row
  <2> QED
    BY <1>1, <1>2, <1>3 DEF RowTrue
<1> HIDE DEF new, i
<1> QED
  BY <1>1, <1>4, <1>5, StoreTrue

\* No step makes a row or a pending repair say filled without an executed order.
LEMMA RowsStep ==
  ASSUME ExecutionInv, ExecutionAssumption, RecordsInv, Next
  PROVE  RepairsTrue' /\ DurableTruth'
<1>1. \A i : ExecutedFor(i) => ExecutedFor(i)'
  BY ExecutedKeeps DEF ExecutionInv, RecordsInv
<1>2. \A i \in Intent : RowTrue(i)
  BY RowsTrueParts DEF RecordsInv
<1>3. /\ TypeOK
      /\ durable \in [Intent -> [state : DurableState, order : Call \cup {NoCall}]]
      /\ repair \in [Intent -> Repair] /\ look \in [Intent -> Call \cup {NoCall}]
  BY DEF ExecutionInv, TypeOK
<1>4. \A c \in Call : Executed(c) => ExecutedFor(IntentOfCall(c))
  BY DEF RecordsInv, AnswersTrue, ExecutedFor
<1> DEFINE RowKept(i) == /\ NamesOwn(durable'[i], i)
                         /\ durable'[i].state \in FilledRow => ExecutedFor(i)
                         /\ look'[i] # NoCall => IntentOfCall(look'[i]) = i
                         /\ repair'[i] = "FILLED" => ExecutedFor(i)
<1>5. ASSUME UNCHANGED <<durable, look, repair>>
      PROVE  \A i \in Intent : RowKept(i)
  BY <1>2, <1>5 DEF RowTrue
<1>6. ASSUME NEW c \in Call, AdmitNew(c)
      PROVE  \A i \in Intent : RowKept(i)
  <2> DEFINE row == [state |-> "PENDING", order |-> NoCall]
  <2>1. row.order = NoCall /\ row.state \notin FilledRow
    BY DEF FilledRow
  <2>2. IntentOfCall(c) \in Intent /\ Store(IntentOfCall(c), row)
    BY <1>6 DEF AdmitNew, IntentOfCall, ExecutionAssumption
  <2> HIDE DEF row
  <2>3. NamesOwn(row, IntentOfCall(c))
    BY <2>1 DEF NamesOwn
  <2>4. UNCHANGED reconcileVars
    BY <1>6 DEF AdmitNew
  <2> QED
    BY <1>2, <1>3, <2>1, <2>2, <2>3, <2>4, StoreTrue DEF RowTrue, reconcileVars
<1>7. ASSUME NEW c \in Call, ReturnExecuted(c) \/ ReturnFailed(c)
      PROVE  \A i \in Intent : RowKept(i)
  <2>1. CASE ReturnExecuted(c)
    <3>1. SetDurable(c, answer[c], c) /\ UNCHANGED reconcileVars /\ Executed(c)
      BY <2>1 DEF ReturnExecuted, ExecutionInv, OutcomeKept
    <3> QED
      BY <1>2, <1>3, <1>4, <3>1, SetDurableRow DEF RowTrue, reconcileVars
  <2>2. CASE ReturnFailed(c)
    <3>1. UNCHANGED reconcileVars /\ \E state \in {"REJECTED", "FAILED"} : SetDurable(c, state, NoCall)
      BY <2>2 DEF ReturnFailed
    <3>2. {"REJECTED", "FAILED"} \cap FilledRow = {}
      BY DEF FilledRow
    <3> QED
      BY <1>2, <1>3, <3>1, <3>2, SetDurableRow DEF RowTrue, reconcileVars
  <2> QED
    BY <1>7, <2>1, <2>2
<1>8. ASSUME ReconcileRead
      PROVE  \A i \in Intent : RowKept(i)
  <2>1. durable' = durable /\ repair' = repair /\ \A i \in Intent : look'[i] \in {durable[i].order, NoCall}
    BY <1>8 DEF ReconcileRead
  <2> QED
    BY <1>2, <2>1 DEF RowTrue, NamesOwn
<1>8a. ASSUME NEW i \in Intent, ReconcileQuery(i) \/ ReconcileQueryRaises(i)
       PROVE  \A j \in Intent : RowKept(j)
  <2>1. durable' = durable /\ look[i] # NoCall /\ \A j \in Intent : look'[j] \in {look[j], NoCall}
    BY <1>3, <1>8a DEF ReconcileQuery, ReconcileQueryRaises
  <2>2. look[i] \in Call /\ IntentOfCall(look[i]) = i
    BY <1>2, <1>3, <2>1 DEF RowTrue
  <2>3. RepairFor(order[look[i]]) = "FILLED" => ExecutedFor(i)
    BY <2>2 DEF RepairFor, ExecutedFor, ExecutedView
  <2>4. \A j \in Intent : repair'[j] \in {repair[j]} \/ (j = i /\ repair'[j] = RepairFor(order[look[i]]))
    BY <1>3, <1>8a DEF ReconcileQuery, ReconcileQueryRaises
  <2> QED
    BY <1>2, <2>1, <2>3, <2>4 DEF RowTrue
<1>9. ASSUME NEW i \in Intent, ReconcileWrite(i)
      PROVE  \A j \in Intent : RowKept(j)
  <2> DEFINE row == [durable[i] EXCEPT !.state = repair[i]]
  <2>1. Store(i, row) /\ look' = look
    BY <1>9 DEF ReconcileWrite
  <2>2. row.state = repair[i] /\ row.order = durable[i].order
    BY <1>3
  <2> HIDE DEF row
  <2>3. repair[i] \in FilledRow => repair[i] = "FILLED"
    BY <1>3 DEF FilledRow, Repair
  <2>4. NamesOwn(row, i) /\ (row.state \in FilledRow => ExecutedFor(i))
    BY <1>2, <2>2, <2>3 DEF RowTrue, NamesOwn
  <2>5. \A j \in Intent : repair'[j] \in {repair[j], "NONE"}
    BY <1>3, <1>9 DEF ReconcileWrite
  <2> QED
    BY <1>2, <1>3, <2>1, <2>4, <2>5, StoreTrue DEF RowTrue
<1>10. ASSUME Crash
       PROVE  \A i \in Intent : RowKept(i)
  <2>1. durable' = durable /\ \A i \in Intent : look'[i] = NoCall /\ repair'[i] = "NONE"
    BY <1>10 DEF Crash
  <2> QED
    BY <1>2, <2>1 DEF RowTrue
<1>11. \/ UNCHANGED <<durable, look, repair>>
       \/ \E c \in Call : AdmitNew(c) \/ ReturnExecuted(c) \/ ReturnFailed(c)
       \/ ReconcileRead
       \/ \E i \in Intent : ReconcileQuery(i) \/ ReconcileQueryRaises(i) \/ ReconcileWrite(i)
       \/ Crash
  BY DEF Next, CallStep, AdmitDuplicate, AdmitRaises, GateHalted, GateInProgress, Blocked, GateOpen,
         PlaceOrder, PlaceOrderFails, PlaceOrderRaises, Confirm, RecordingRaises, WalWrite, TripHardHalt,
         ClearHardHalt, BrokerProgress, Expire, reconcileVars
<1>12. \A i \in Intent : RowKept(i)
  BY <1>5, <1>6, <1>7, <1>8, <1>8a, <1>9, <1>10, <1>11
<1>13. \A i \in Intent : RowTrue(i)'
  BY <1>1, <1>12 DEF RowTrue, NamesOwn, IntentOfCall
<1> QED
  BY <1>13, RowsTrueParts

-----------------------------------------------------------------------------
(***************************************************************************)
(* What the journal says.                                                  *)
(***************************************************************************)
CommitTrue(op) == op.kind = "commit" => ExecutedFor(op.id)

\* What is logged is queued behind what is queued already.
LEMMA LogQueues ==
  ASSUME TypeOK, NEW ops \in Seq(JournalOp), Log(ops),
         \A n \in 1..Len(ops) : CommitTrue(ops[n]), CommitsTrue
  PROVE  walDisk' = walDisk /\ \A n \in 1..Len(walQueue') : CommitTrue(walQueue'[n])
<1>1. walQueue \in Seq(JournalOp)
  BY DEF TypeOK
<1>2. \A n \in 1..Len(walQueue) : CommitTrue(walQueue[n])
  BY DEF CommitsTrue, CommitTrue
<1>3. \A n \in 1..Len(walQueue \o ops) : CommitTrue((walQueue \o ops)[n])
  <2>1. ASSUME NEW n \in 1..Len(walQueue \o ops)
        PROVE  \/ n \in 1..Len(walQueue) /\ (walQueue \o ops)[n] = walQueue[n]
               \/ n - Len(walQueue) \in 1..Len(ops) /\ (walQueue \o ops)[n] = ops[n - Len(walQueue)]
    BY <1>1
  <2> QED
    BY <1>2, <2>1
<1> QED
  BY <1>2, <1>3 DEF Log

\* A commit is queued by a confirmation only; every other statement claims nothing.
LEMMA LogTruth ==
  ASSUME ExecutionAssumption, NEW c \in Call, Executed(c) => ExecutedFor(IntentOfCall(c))
  PROVE  LET i == IntentOfCall(c) IN
         /\ <<Op("append", i), Op("fail", i)>> \in Seq(JournalOp)
         /\ <<Op("append", i)>> \in Seq(JournalOp)
         /\ <<Op("fail", i)>> \in Seq(JournalOp)
         /\ <<Op("commit", i)>> \in Seq(JournalOp)
         /\ \A n \in 1..2 : CommitTrue(<<Op("append", i), Op("fail", i)>>[n])
         /\ \A n \in 1..1 : CommitTrue(<<Op("append", i)>>[n])
         /\ \A n \in 1..1 : CommitTrue(<<Op("fail", i)>>[n])
         /\ Executed(c) => \A n \in 1..1 : CommitTrue(<<Op("commit", i)>>[n])
<1> DEFINE i == IntentOfCall(c)
<1>1. i \in Intent
  BY DEF ExecutionAssumption, IntentOfCall
<1> HIDE DEF i
<1>2. \A kind \in {"append", "commit", "fail", "settle"} :
        Op(kind, i) \in JournalOp /\ Op(kind, i).kind = kind /\ Op(kind, i).id = i
  BY <1>1 DEF Op, JournalOp
<1>3. CommitTrue(Op("append", i)) /\ CommitTrue(Op("fail", i))
  BY <1>2 DEF CommitTrue
<1>4. Executed(c) => CommitTrue(Op("commit", i))
  BY <1>2 DEF CommitTrue, i
<1> QED
  BY <1>2, <1>3, <1>4 DEF i

\* A statement makes a row COMMITTED only when it is a commit of that row.
LEMMA EffectTruth ==
  ASSUME NEW disk \in Rows, NEW op \in JournalOp, NEW i \in Intent, Effect(disk, op)[i] = "COMMITTED"
  PROVE  disk[i] = "COMMITTED" \/ (op.kind = "commit" /\ op.id = i)
<1>1. op.kind \in {"append", "commit", "fail", "settle"} /\ op.id \in Intent
  BY DEF JournalOp
<1>2. disk \in [Intent -> IntentStatus \cup {"NONE"}]
  BY DEF Rows
<1>3. CASE op.kind = "append"
  BY <1>1, <1>2, <1>3 DEF Effect
<1>4. CASE op.kind = "commit"
  BY <1>1, <1>2, <1>4 DEF Effect
<1>5. CASE op.kind = "fail"
  BY <1>1, <1>2, <1>5 DEF Effect
<1>6. CASE op.kind = "settle"
  BY <1>1, <1>2, <1>6 DEF Effect
<1> QED
  BY <1>1, <1>3, <1>4, <1>5, <1>6

\* No step queues or writes a commit for an instrument without an executed order.
LEMMA JournalStep ==
  ASSUME ExecutionInv, ExecutionAssumption, RecordsInv, Next
  PROVE  CommitsTrue' /\ CommittedIsExecuted'
<1>1. \A i : ExecutedFor(i) => ExecutedFor(i)'
  BY ExecutedKeeps DEF ExecutionInv, RecordsInv
<1>2. /\ TypeOK /\ walQueue \in Seq(JournalOp) /\ walDisk \in Rows
      /\ CommitsTrue /\ \A i \in Intent : walDisk[i] = "COMMITTED" => ExecutedFor(i)
  BY DEF ExecutionInv, TypeOK, RecordsInv, CommittedIsExecuted
<1>3. \A c \in Call : Executed(c) => ExecutedFor(IntentOfCall(c))
  BY DEF RecordsInv, AnswersTrue, ExecutedFor
<1> DEFINE JournalKept == /\ \A n \in 1..Len(walQueue') : CommitTrue(walQueue'[n])
                          /\ \A i \in Intent : walDisk'[i] = "COMMITTED" => ExecutedFor(i)
<1>4. ASSUME UNCHANGED walVars
      PROVE  JournalKept
  BY <1>2, <1>4 DEF walVars, CommitsTrue, CommitTrue
<1>5. ASSUME NEW c \in Call,
             AdmitDuplicate(c) \/ AdmitNew(c) \/ Confirm(c) \/ ReturnFailed(c)
             \/ Log(<<Op("append", IntentOfCall(c))>>)
      PROVE  JournalKept
  <2>1. \E ops \in Seq(JournalOp) : Log(ops) /\ \A n \in 1..Len(ops) : CommitTrue(ops[n])
    <3>1. CASE AdmitDuplicate(c)
      <4>1. Log(<<Op("append", IntentOfCall(c)), Op("fail", IntentOfCall(c))>>)
        BY <3>1 DEF AdmitDuplicate
      <4>2. Len(<<Op("append", IntentOfCall(c)), Op("fail", IntentOfCall(c))>>) = 2
        OBVIOUS
      <4> QED
        BY <1>3, <4>1, <4>2, LogTruth
    <3>2. CASE AdmitNew(c) \/ Log(<<Op("append", IntentOfCall(c))>>)
      <4>1. Log(<<Op("append", IntentOfCall(c))>>)
        BY <3>2 DEF AdmitNew
      <4>2. Len(<<Op("append", IntentOfCall(c))>>) = 1
        OBVIOUS
      <4> QED
        BY <1>3, <4>1, <4>2, LogTruth
    <3>3. CASE ReturnFailed(c)
      <4>1. Log(<<Op("fail", IntentOfCall(c))>>)
        BY <3>3 DEF ReturnFailed
      <4>2. Len(<<Op("fail", IntentOfCall(c))>>) = 1
        OBVIOUS
      <4> QED
        BY <1>3, <4>1, <4>2, LogTruth
    <3>4. CASE Confirm(c)
      <4>1. Log(<<Op("commit", IntentOfCall(c))>>) /\ Executed(c)
        BY <3>4 DEF Confirm
      <4>2. Len(<<Op("commit", IntentOfCall(c))>>) = 1
        OBVIOUS
      <4> QED
        BY <1>3, <4>1, <4>2, LogTruth
    <3> QED
      BY <1>5, <3>1, <3>2, <3>3, <3>4
  <2> QED
    BY <1>2, <2>1, LogQueues
<1>6. ASSUME WalWrite
      PROVE  JournalKept
  <2>1. /\ walQueue # <<>> /\ walQueue' = Tail(walQueue)
        /\ walDisk' = Effect(walDisk, Head(walQueue))
    BY <1>6 DEF WalWrite
  <2>2. /\ Head(walQueue) = walQueue[1] /\ 1 \in 1..Len(walQueue) /\ walQueue[1] \in JournalOp
        /\ \A n \in 1..Len(Tail(walQueue)) :
             Tail(walQueue)[n] = walQueue[n + 1] /\ n + 1 \in 1..Len(walQueue)
    BY <1>2, <2>1
  <2>3. \A n \in 1..Len(walQueue) : CommitTrue(walQueue[n])
    BY <1>2 DEF CommitsTrue, CommitTrue
  <2>4. \A n \in 1..Len(walQueue') : CommitTrue(walQueue'[n])
    BY <2>1, <2>2, <2>3
  <2>5. \A i \in Intent : walDisk'[i] = "COMMITTED" => ExecutedFor(i)
    BY <1>2, <2>1, <2>2, <2>3, EffectTruth DEF CommitTrue
  <2> QED
    BY <2>4, <2>5
<1>7. ASSUME Crash
      PROVE  JournalKept
  BY <1>2, <1>7 DEF Crash
<1>8. \/ UNCHANGED walVars
      \/ \E c \in Call : \/ AdmitDuplicate(c) \/ AdmitNew(c) \/ Confirm(c) \/ ReturnFailed(c)
                         \/ Log(<<Op("append", IntentOfCall(c))>>)
      \/ WalWrite \/ Crash
  BY DEF Next, CallStep, AdmitRaises, GateHalted, GateInProgress, Blocked, GateOpen, PlaceOrder,
         PlaceOrderFails, PlaceOrderRaises, ReturnExecuted, RecordingRaises, TripHardHalt,
         ClearHardHalt, BrokerProgress, ReconcileRead, ReconcileQuery, ReconcileQueryRaises,
         ReconcileWrite, Expire
<1>9. JournalKept
  BY <1>4, <1>5, <1>6, <1>7, <1>8
<1> QED
  BY <1>1, <1>9 DEF CommitsTrue, CommitTrue, CommittedIsExecuted

-----------------------------------------------------------------------------
(***************************************************************************)
(* The invariant and what follows from it.                                 *)
(***************************************************************************)
\* Nothing is recorded in the initial state.
LEMMA InitRecords ==
  ASSUME Init
  PROVE  RecordsInv
<1>1. NotYetPlaced /\ AnswersTrue
  BY DEF Init, NotYetPlaced, AnswersTrue, Executed
<1>2. ResultsTrue /\ CallerTold
  BY DEF Init, IdempotencyInit, ResultsTrue, CallerTold
<1>3. \A i \in Intent : durable[i].order = NoCall /\ durable[i].state = "NONE" /\ repair[i] = "NONE" /\ look[i] = NoCall
  BY DEF Init
<1>4. RepairsTrue /\ DurableTruth
  BY <1>3 DEF RepairsTrue, DurableTruth
<1>5. walQueue = <<>> /\ \A i \in Intent : walDisk[i] = "NONE"
  BY DEF Init, NoRows
<1>6. CommitsTrue /\ CommittedIsExecuted
  BY <1>5 DEF CommitsTrue, CommittedIsExecuted
<1> QED
  BY <1>1, <1>2, <1>4, <1>6 DEF RecordsInv

\* Every step keeps what is recorded true.
LEMMA NextRecords ==
  ASSUME ExecutionAssumption, ExecutionInv, RecordsInv, [Next]_vars
  PROVE  RecordsInv'
<1>1. CASE Next
  BY <1>1, OrderStep, ResultsStep, RowsStep, JournalStep DEF ExecutionInv, RecordsInv
<1>2. CASE UNCHANGED vars
  BY <1>2
  DEF RecordsInv, NotYetPlaced, AnswersTrue, ResultsTrue, CallerTold, RepairsTrue, DurableTruth,
      CommitsTrue, CommittedIsExecuted, Executed, ExecutedKey, ExecutedFor, IntentOfCall,
      vars, serviceVars, walVars, reconcileVars, idempotencyVars, tableVars
<1> QED
  BY <1>1, <1>2

\* Everything execute_order and the reconciliation record stays true in every reachable state.
THEOREM RecordsInvariant == Spec => []RecordsInv
BY ExecutionAssumption, ExecutionInvariant, InitRecords, NextRecords, PTL DEF Spec

\* A caller that is told of an execution, by its own order, by the cache or by a result loaded
\* after a restart, is told the truth.
THEOREM CallersToldTruth == Spec => []CallerTold
<1>1. RecordsInv => CallerTold
  BY DEF RecordsInv
<1> QED
  BY <1>1, RecordsInvariant, PTL

\* A durable row never says filled without an executed order of its instrument.
THEOREM DurableRowsTrue == Spec => []DurableTruth
<1>1. RecordsInv => DurableTruth
  BY DEF RecordsInv
<1> QED
  BY <1>1, RecordsInvariant, PTL

\* The journal never says COMMITTED without an executed order of its instrument.
THEOREM CommitsExecuted == Spec => []CommittedIsExecuted
<1>1. RecordsInv => CommittedIsExecuted
  BY DEF RecordsInv
<1> QED
  BY <1>1, RecordsInvariant, PTL
=============================================================================
