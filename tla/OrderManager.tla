---------------------------- MODULE OrderManager -----------------------------
(***************************************************************************)
(* OrderManager (core/execution/order_manager.py): execute_intent called   *)
(* by several threads, the updates of order states, and restarts.  Only    *)
(* the duplicate check and the recording of an acknowledged order hold the *)
(* manager's lock; a new order is registered in between, without it.       *)
(*                                                                         *)
(* A call makes one OrderState object, so calls also name objects; two     *)
(* calls with one intent may each make one.  A broker order id is the call *)
(* that placed the order, except that the gateway answers every TWAP order *)
(* with the same id, and that a broker may answer with an empty one.       *)
(*                                                                         *)
(* The database may refuse a write: an OSError is logged and swallowed, an *)
(* SQLite error ends the call.  One thread reports order states.           *)
(***************************************************************************)
EXTENDS Naturals, FiniteSets

CONSTANTS
  Call,       \* invocations of execute_intent
  Intent,     \* intent ids
  IntentOf,   \* the intent of each call
  Twap,       \* calls whose request is a TWAP order
  NoCall,     \* no object, no id
  TwapId,     \* "TWAP_ALGO_ROUTED"
  EmptyId,    \* "", as an order id
  Reported,   \* bound: the order states the broker reports
  MaxRestart, \* bound: restarts of the process
  MaxRefused  \* bound: writes and loads the database refuses

Final == {"FILLED", "REJECTED", "CANCELLED", "FAILED"}
Status == {"NONE", "VALIDATED", "SUBMITTED", "ACKNOWLEDGED", "PARTIAL_FILL", "CANCEL_PENDING"} \cup Final

ASSUME ManagerAssumption ==
  /\ IntentOf \in [Call -> Intent] /\ Twap \subseteq Call
  /\ NoCall \notin Call \cup Intent /\ TwapId \notin Call \cup {NoCall}
  /\ EmptyId \notin Call \cup {NoCall, TwapId}
  /\ Reported \subseteq Status /\ MaxRestart \in Nat /\ MaxRefused \in Nat

VARIABLES
  pc,        \* where each call is
  object,    \* the OrderState each call made: its status and broker_order_id
  orders,    \* _orders: the object of an intent
  event,     \* _intent_events: "none", "unset" or "set"
  idOf,      \* _intent_map
  intentOf,  \* _broker_map
  disk,      \* the table orders: the object whose row an intent has, and the row's status
  working,   \* orders the broker holds
  update,    \* the report of an order state that passed the check and is not yet written
  session,   \* number of the running process
  placedIn,  \* history: the session in which a call reached the broker
  raced,     \* history: intents with two calls between the check and the registration
  refusals,  \* history: number of writes and loads the database refused
  doubtful   \* history: intents whose row was refused, not loaded, or has an empty order id

memoryVars == <<orders, event, idOf, intentOf>>
tableVars == <<disk, refusals, doubtful>>
vars == <<pc, object, memoryVars, tableVars, working, update, session, placedIn, raced>>

BrokerId == Call \cup {TwapId}
\* Mutant: the intent id is taken for the broker's order id.
IdForIntent(c) == IntentOf[c]
\* The order id the gateway answers with.
IdFor(c) == IF c \in Twap THEN TwapId ELSE c

NoReport == [object |-> NoCall, status |-> "NONE"]

TypeOK ==
  /\ pc \in [Call -> {"idle", "waiting", "new", "inserted", "registered", "placing", "refused",
                      "failed", "answered", "returned", "raised", "crashed"}]
  /\ object \in [Call -> [status : Status, id : BrokerId \cup {NoCall, EmptyId}]]
  /\ orders \in [Intent -> Call \cup {NoCall}]
  /\ event \in [Intent -> {"none", "unset", "set"}]
  /\ idOf \in [Intent -> BrokerId \cup {NoCall}]
  /\ intentOf \in [BrokerId -> Intent \cup {NoCall}]
  /\ disk \in [Intent -> [object : Call \cup {NoCall}, status : Status,
                          id : BrokerId \cup {NoCall, EmptyId}]]
  /\ working \subseteq Call
  /\ update \in {NoReport} \cup [object : Call, status : Status]
  /\ session \in Nat /\ placedIn \in [Call -> Nat] /\ raced \subseteq Intent
  /\ refusals \in Nat /\ doubtful \subseteq Intent

SameIntent(c, d) == c # d /\ IntentOf[c] = IntentOf[d]
NoRow == [object |-> NoCall, status |-> "NONE", id |-> NoCall]

Init ==
  /\ pc = [c \in Call |-> "idle"]
  /\ object = [c \in Call |-> [status |-> "NONE", id |-> NoCall]]
  /\ orders = [i \in Intent |-> NoCall] /\ event = [i \in Intent |-> "none"]
  /\ idOf = [i \in Intent |-> NoCall] /\ intentOf = [b \in BrokerId |-> NoCall]
  /\ disk = [i \in Intent |-> NoRow]
  /\ working = {} /\ update = NoReport
  /\ session = 1 /\ placedIn = [c \in Call |-> 0] /\ raced = {}
  /\ refusals = 0 /\ doubtful = {}

\* INSERT OR REPLACE, with broker_order_id UNIQUE, deletes the row of any other intent that
\* has the same broker order id, an empty one included.
Written(c) ==
  LET i == IntentOf[c]
      row == [object |-> c, status |-> object'[c].status, id |-> object'[c].id]
  IN  disk' = [j \in Intent |->
                 IF j = i THEN row
                 ELSE IF row.id # NoCall /\ disk[j].id = row.id THEN NoRow ELSE disk[j]]

\* An intent whose order was acknowledged without an id has a row that others replace.
NoteEmpty(c) == IF object'[c].id = EmptyId THEN {IntentOf[c]} ELSE {}

\* _persist_order writes the row, or the database refuses it.
Persist(c, taken) ==
  IF taken
  THEN Written(c) /\ doubtful' = doubtful \cup NoteEmpty(c) /\ UNCHANGED refusals
  ELSE /\ refusals < MaxRefused /\ refusals' = refusals + 1
       /\ doubtful' = doubtful \cup {IntentOf[c]} /\ UNCHANGED disk

\* Where a call is after _persist_order: an SQLite error ends it, an OSError is swallowed.
Goes(c, taken, next) ==
  \/ pc' = [pc EXCEPT ![c] = next]
  \/ ~taken /\ pc' = [pc EXCEPT ![c] = "raised"]

-----------------------------------------------------------------------------
\* The call returns the state of the order that exists: nothing changes.
Answer(c) == pc' = [pc EXCEPT ![c] = "returned"]

\* Two calls with one intent have passed the check and not yet registered their order.
NoteRace(c) ==
  raced' = IF \E d \in Call : SameIntent(c, d) /\ pc'[c] = "new" /\ pc[d] = "new"
           THEN raced \cup {IntentOf[c]} ELSE raced

\* Mutant: an order without a broker id is no duplicate.
CheckDuplicatePlaced(c) ==
  /\ pc[c] = "idle"
  /\ IF idOf[IntentOf[c]] = NoCall
     THEN pc' = [pc EXCEPT ![c] = "new"]
     ELSE Answer(c)
  /\ NoteRace(c)
  /\ UNCHANGED <<object, memoryVars, tableVars, working, update, session, placedIn>>

\* The duplicate check, under the lock.
CheckDuplicate(c) ==
  LET i == IntentOf[c]
  IN  /\ pc[c] = "idle"
      /\ IF orders[i] = NoCall
         THEN pc' = [pc EXCEPT ![c] = "new"]
         ELSE IF idOf[i] = NoCall /\ event[i] # "none"
         THEN pc' = [pc EXCEPT ![c] = "waiting"]
         ELSE Answer(c)
      /\ NoteRace(c)
      /\ UNCHANGED <<object, memoryVars, tableVars, working, update, session, placedIn>>

\* Mutant: the wait has no timeout.
WakeWhenSet(c) ==
  /\ pc[c] = "waiting" /\ event[IntentOf[c]] = "set"
  /\ Answer(c)
  /\ UNCHANGED <<object, memoryVars, tableVars, working, update, session, placedIn, raced>>

\* event.wait returns, because the event was set or after 20 seconds.
Wake(c) ==
  /\ pc[c] = "waiting"
  /\ Answer(c)
  /\ UNCHANGED <<object, memoryVars, tableVars, working, update, session, placedIn, raced>>

\* Phase 1, without the lock: the object, the event and the empty broker id, the row.
InsertOrder(c) ==
  LET i == IntentOf[c]
  IN  /\ pc[c] = "new"
      /\ object' = [object EXCEPT ![c] = [status |-> "VALIDATED", id |-> NoCall]]
      /\ orders' = [orders EXCEPT ![i] = c]
      /\ pc' = [pc EXCEPT ![c] = "inserted"]
      /\ UNCHANGED <<event, idOf, intentOf, tableVars, working, update, session, placedIn,
                     raced>>

Register(c) ==
  LET i == IntentOf[c]
  IN  /\ pc[c] = "inserted"
      /\ event' = [event EXCEPT ![i] = "unset"]
      /\ idOf' = [idOf EXCEPT ![i] = NoCall]
      /\ pc' = [pc EXCEPT ![c] = "registered"]
      /\ UNCHANGED <<object, orders, intentOf, tableVars, working, update, session,
                     placedIn, raced>>

PersistIntent(c, taken) ==
  /\ pc[c] = "registered"
  /\ UNCHANGED object
  /\ Persist(c, taken)
  /\ Goes(c, taken, "placing")
  /\ UNCHANGED <<memoryVars, working, update, session, placedIn, raced>>

\* Phase 2: the gateway answers with an order id, or FAILED (also for an error it caught, whatever
\* became of the order), or lets an error through, and then the event is never set.
PlaceOrder(c, answer, held) ==
  /\ pc[c] = "placing"
  /\ working' = IF held THEN working \cup {c} ELSE working
  /\ placedIn' = [placedIn EXCEPT ![c] = session]
  /\ pc' = [pc EXCEPT ![c] = answer]
  /\ UNCHANGED <<object, memoryVars, tableVars, update, session, raced>>

SetEvent(i) == event' = [event EXCEPT ![i] = IF @ = "none" THEN "none" ELSE "set"]

\* A FAILED answer is recorded, and then reported to those who wait and to the caller.
RecordFailed(c, taken) ==
  /\ pc[c] = "refused"
  /\ object' = [object EXCEPT ![c].status = "FAILED"]
  /\ Persist(c, taken)
  /\ Goes(c, taken, "failed")
  /\ UNCHANGED <<memoryVars, working, update, session, placedIn, raced>>

ReportFailed(c) ==
  /\ pc[c] = "failed"
  /\ SetEvent(IntentOf[c])
  /\ pc' = [pc EXCEPT ![c] = "returned"]
  /\ UNCHANGED <<object, orders, idOf, intentOf, tableVars, working, update, session, placedIn, raced>>

\* Phase 3: any status but FAILED is an acknowledgement; an empty id enters neither map.
RecordAcknowledged(c, b, taken) ==
  LET i == IntentOf[c]
  IN  /\ pc[c] = "answered"
      /\ object' = [object EXCEPT ![c] = [status |-> "ACKNOWLEDGED", id |-> b]]
      /\ IF b = EmptyId
         THEN UNCHANGED <<intentOf, idOf>>
         ELSE intentOf' = [intentOf EXCEPT ![b] = i] /\ idOf' = [idOf EXCEPT ![i] = b]
      /\ Persist(c, taken)
      /\ Goes(c, taken, "returned")
      /\ IF pc'[c] = "returned"
         THEN SetEvent(i) ELSE UNCHANGED event
      /\ UNCHANGED <<orders, working, update, session, placedIn, raced>>

-----------------------------------------------------------------------------
\* _validate_transition, for the states an order has here.
ValidTransitions(s) ==
  CASE s = "VALIDATED" -> {"SUBMITTED", "ACKNOWLEDGED", "FAILED"}
    [] s = "SUBMITTED" -> {"ACKNOWLEDGED", "REJECTED", "FAILED"}
    [] s \in {"ACKNOWLEDGED", "PARTIAL_FILL"} -> {"PARTIAL_FILL", "FILLED", "CANCEL_PENDING", "FAILED"}
    [] s = "CANCEL_PENDING" -> {"CANCELLED", "FILLED", "FAILED"}
    [] OTHER -> {}

\* update_order_status, before the lock: the broker reports a status of an id, a final one once
\* the order has ended, and the transition is checked.
CheckUpdate(b, status) ==
  LET i == intentOf[b]
      c == orders[i]
  IN  /\ update = NoReport
      /\ intentOf[b] # NoCall
      /\ c # NoCall
      /\ status \in ValidTransitions(object[c].status) \ {object[c].status}
      /\ update' = [object |-> c, status |-> status]
      /\ working' = IF status \in Final THEN {d \in working : IdFor(d) # b} ELSE working
      /\ UNCHANGED <<pc, object, memoryVars, tableVars, session, placedIn, raced>>

\* Under the lock the status is written, whatever the order's status is by now.
WriteUpdate(taken) ==
  /\ update # NoReport
  /\ object' = [object EXCEPT ![update.object].status = update.status]
  /\ Persist(update.object, taken)
  /\ update' = NoReport
  /\ UNCHANGED <<pc, memoryVars, working, session, placedIn, raced>>

\* Mutant: orders without a broker id are left alone.
LoadsAcknowledged(row) == row.id # NoCall /\ row.status \notin Final \cup {"NONE"}
\* The rows _load_orders_from_disk selects.
Loads(row) == row.status \notin Final \cup {"NONE"}

\* The process dies and is started again with the rows it loads, or with none when the
\* database refuses the load.
RestartWith(loaded) ==
  /\ session <= MaxRestart
  /\ session' = session + 1
  /\ pc' = [c \in Call |-> IF pc[c] \in {"idle", "returned", "raised"} THEN pc[c] ELSE "crashed"]
  /\ orders' = [i \in Intent |-> IF i \in loaded THEN disk[i].object ELSE NoCall]
  /\ idOf' = [i \in Intent |->
       IF i \in loaded /\ disk[i].id # EmptyId THEN disk[i].id ELSE NoCall]
  /\ intentOf' = [b \in BrokerId |->
       IF \E i \in loaded : disk[i].id = b THEN CHOOSE i \in loaded : disk[i].id = b ELSE NoCall]
  /\ event' = [i \in Intent |-> "none"]
  /\ object' = [c \in Call |->
       IF \E i \in Intent : orders'[i] = c
       THEN LET row == disk[IntentOf[c]] IN [status |-> row.status, id |-> row.id]
       ELSE object[c]]
  /\ update' = NoReport
  /\ UNCHANGED <<disk, working, placedIn, raced>>

Loadable == {i \in Intent : Loads(disk[i])}

Restart ==
  \/ RestartWith(Loadable) /\ UNCHANGED <<refusals, doubtful>>
  \/ /\ refusals < MaxRefused /\ refusals' = refusals + 1
     /\ doubtful' = doubtful \cup Loadable
     /\ RestartWith({})

CallStep(c) ==
  \/ CheckDuplicate(c) \/ Wake(c)
  \/ InsertOrder(c) \/ Register(c)
  \/ \E held \in BOOLEAN :
       PlaceOrder(c, "refused", held) \/ PlaceOrder(c, "answered", held) \/ PlaceOrder(c, "raised", held)
  \/ \E taken \in BOOLEAN :
       \/ PersistIntent(c, taken) \/ RecordFailed(c, taken)
       \/ \E b \in {IdFor(c), EmptyId} : RecordAcknowledged(c, b, taken)
  \/ ReportFailed(c)

Next ==
  \/ \E c \in Call : CallStep(c)
  \/ \E b \in BrokerId, status \in Reported : CheckUpdate(b, status)
  \/ \E taken \in BOOLEAN : WriteUpdate(taken)
  \/ Restart

Spec == Init /\ [][Next]_vars

\* Of the calls that have started and can go on, one does.
FairSpec == Spec /\ WF_vars(\E c \in Call : pc[c] # "idle" /\ CallStep(c))

-----------------------------------------------------------------------------
\* In one process an intent reaches the broker twice only when two calls were both between
\* the duplicate check and the registration of the order.
OneOrderPerIntent ==
  \A c, d \in Call :
    SameIntent(c, d) /\ placedIn[c] = placedIn[d] /\ placedIn[c] # 0 => IntentOf[c] \in raced

\* Wherever the process dies, the order of an intent that is at the broker is known again after
\* the restart, unless calls raced, orders share an id, the database refused a row or the load,
\* or the manager had itself marked the order FAILED.
RestartKnowsOrders ==
  [][session' # session =>
       \A c \in working \ Twap :
         IntentOf[c] \notin raced \cup doubtful' /\ object[c].status # "FAILED"
           => orders'[IntentOf[c]] = c]_vars

Running(c) == pc[c] \notin {"idle", "returned", "raised", "crashed"}

\* Calls that have started all end, also one that waits for another call which died with an error.
CallersAnswered == (\E c \in Call : Running(c)) ~> (\A c \in Call : ~Running(c))
=============================================================================
