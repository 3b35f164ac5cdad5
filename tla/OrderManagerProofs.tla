------------------------- MODULE OrderManagerProofs --------------------------
(***************************************************************************)
(* In one process an intent reaches the broker twice only when two calls   *)
(* raced between the duplicate check and the registration, and an order at *)
(* the broker is known again after every restart, for any number of calls, *)
(* intents, shared broker ids and restarts.                                *)
(***************************************************************************)
EXTENDS OrderManager, TLAPS

\* A call that passed the duplicate check and has no answer of the broker on record.
Registered == {"inserted", "registered", "placing", "refused", "answered"}
InFlight == {"new"} \cup Registered

\* A call that has sent its order, or may still do so, in this process.
Active(c) == pc[c] \in InFlight \/ placedIn[c] = session

\* Orders are placed in this process or an earlier one, and stay with their call.
Placed ==
  /\ session # 0
  /\ \A c \in Call : placedIn[c] <= session
  /\ \A c \in working : pc[c] \in {"refused", "failed", "answered", "raised", "returned", "crashed"}

\* Memory and table give an intent an object of its own, and an object its own broker id.
Owned ==
  /\ \A i \in Intent : orders[i] # NoCall => IntentOf[orders[i]] = i
  /\ \A i \in Intent : disk[i].object # NoCall =>
       /\ IntentOf[disk[i].object] = i
       /\ disk[i].id \in {NoCall, EmptyId, IdFor(disk[i].object)}
  /\ \A i \in Intent : disk[i].object = NoCall => disk[i] = NoRow
  /\ \A c \in Call : object[c].id \in {NoCall, EmptyId, IdFor(c)}

\* The memory knows an order whose call is past the registration, which a call waits for,
\* which has a broker id, or of which a report is being written.
Known ==
  /\ \A c \in Call : pc[c] \in Registered \cup {"waiting"} \/ placedIn[c] = session
                       => orders[IntentOf[c]] # NoCall
  /\ \A b \in BrokerId : intentOf[b] # NoCall => orders[intentOf[b]] # NoCall
  /\ update # NoReport => orders[IntentOf[update.object]] # NoCall /\ update.status # "NONE"

\* Two active calls with one intent raced.
Races ==
  \A c, d \in Call : SameIntent(c, d) /\ Active(c) /\ Active(d) => IntentOf[c] \in raced

\* What a call that raced with no other has made of its intent so far.
Undisturbed(c) ==
  LET i == IntentOf[c]
  IN  /\ pc[c] = "new" => orders[i] = NoCall
      /\ pc[c] \in Registered => /\ orders[i] = c
                                 /\ object[c] = [status |-> "VALIDATED", id |-> NoCall]
                                 /\ \A b \in BrokerId : intentOf[b] # i
                                 /\ update # NoReport => IntentOf[update.object] # i
      /\ pc[c] \in {"placing", "refused", "answered"} /\ i \notin doubtful =>
           disk[i] = [object |-> c, status |-> "VALIDATED", id |-> NoCall]

Fresh == \A c \in Call : IntentOf[c] \notin raced => Undisturbed(c)

\* An order marked FAILED is no longer reported on, and its row says so.
Marked ==
  /\ update # NoReport /\ IntentOf[update.object] \notin raced => object[update.object].status # "FAILED"
  /\ \A c \in Call :
       /\ object[c].status = "FAILED" /\ disk[IntentOf[c]].object = c
       /\ IntentOf[c] \notin doubtful
       => disk[IntentOf[c]].status = "FAILED"

\* An order at the broker that RestartKnowsOrders speaks of.
Held(c) ==
  c \in working \ Twap /\ IntentOf[c] \notin raced \cup doubtful /\ object[c].status # "FAILED"

\* The intent of a held order belongs to it, in memory, in the table and at the broker.
Kept(c) ==
  LET i == IntentOf[c]
  IN  /\ orders[i] = c /\ disk[i].object = c /\ Loads(disk[i]) /\ disk[i].id \in {NoCall, c}
      /\ \A b \in BrokerId : intentOf[b] = i => b = c
      /\ \A d \in Call : SameIntent(c, d) => pc[d] \notin InFlight
      /\ update # NoReport /\ IntentOf[update.object] = i =>
           update.object = c /\ update.status \notin Final

HeldKept == \A c \in Call : Held(c) => Kept(c)

\* The inductive invariant of the order manager.
ManagerInv ==
  TypeOK /\ Placed /\ Owned /\ Known /\ Races /\ OneOrderPerIntent /\ Fresh /\ Marked /\ HeldKept

-----------------------------------------------------------------------------
(***************************************************************************)
(* Ids, rows and restarts.                                                 *)
(***************************************************************************)
\* Broker ids are no missing or empty ids, and only TWAP orders share one.
LEMMA Ids ==
  /\ NoCall \notin BrokerId /\ EmptyId \notin BrokerId /\ EmptyId # NoCall
  /\ \A c \in Call : IdFor(c) \in BrokerId /\ IntentOf[c] \in Intent /\ c # NoCall
  /\ \A c \in Call \ Twap : IdFor(c) = c /\ \A d \in Call : IdFor(d) = c => d = c
BY ManagerAssumption DEF BrokerId, IdFor

ObjectType == [status : Status, id : BrokerId \cup {NoCall, EmptyId}]
RowType == [object : Call \cup {NoCall}, status : Status, id : BrokerId \cup {NoCall, EmptyId}]

\* What a row that is written leaves in the table.
LEMMA WrittenRows ==
  ASSUME disk \in [Intent -> RowType], object' \in [Call -> ObjectType],
         NEW c \in Call, Written(c)
  PROVE  /\ disk' \in [Intent -> RowType]
         /\ disk'[IntentOf[c]] = [object |-> c, status |-> object'[c].status, id |-> object'[c].id]
         /\ \A j \in Intent \ {IntentOf[c]} :
              /\ disk'[j] \in {disk[j], NoRow}
              /\ disk[j].id = NoCall \/ disk[j].id # object'[c].id => disk'[j] = disk[j]
<1> DEFINE row == [object |-> c, status |-> object'[c].status, id |-> object'[c].id]
<1>1. IntentOf[c] \in Intent
  BY Ids
<1>2. row \in RowType /\ NoRow \in RowType
  BY DEF RowType, ObjectType, NoRow, Status
<1>3. disk' = [j \in Intent |->
                 IF j = IntentOf[c] THEN row
                 ELSE IF row.id # NoCall /\ disk[j].id = row.id THEN NoRow ELSE disk[j]]
  BY DEF Written
<1>4. row.id = object'[c].id
  OBVIOUS
<1> HIDE DEF row
<1>5. disk' \in [Intent -> RowType]
  BY <1>2, <1>3
<1>6. disk'[IntentOf[c]] = row
  BY <1>1, <1>3
<1>7. ASSUME NEW j \in Intent \ {IntentOf[c]}
      PROVE  /\ disk'[j] \in {disk[j], NoRow}
             /\ disk[j].id = NoCall \/ disk[j].id # object'[c].id => disk'[j] = disk[j]
  BY <1>3, <1>4
<1> QED
  BY <1>5, <1>6, <1>7 DEF row

\* _persist_order writes a row or leaves the table, and then the intent is doubtful.
LEMMA PersistFacts ==
  ASSUME TypeOK, object' \in [Call -> ObjectType], NEW c \in Call, NEW taken \in BOOLEAN,
         Persist(c, taken)
  PROVE  /\ disk' \in [Intent -> RowType] /\ refusals' \in Nat
         /\ doubtful \subseteq doubtful' /\ doubtful' \subseteq Intent
         /\ disk' = disk \/ Written(c)
         /\ IntentOf[c] \notin doubtful' => Written(c) /\ object'[c].id # EmptyId
<1>1. disk \in [Intent -> RowType] /\ doubtful \subseteq Intent /\ refusals \in Nat /\ IntentOf[c] \in Intent
  BY Ids DEF TypeOK, RowType
<1>2. CASE taken
  <2>1. Written(c) /\ doubtful' = doubtful \cup NoteEmpty(c) /\ refusals' = refusals
    BY <1>2 DEF Persist
  <2>2. disk' \in [Intent -> RowType]
    BY <1>1, <2>1, WrittenRows
  <2>3. NoteEmpty(c) \subseteq {IntentOf[c]} /\ (IntentOf[c] \notin NoteEmpty(c) => object'[c].id # EmptyId)
    BY DEF NoteEmpty
  <2> QED
    BY <1>1, <2>1, <2>2, <2>3
<1>3. CASE ~taken
  BY <1>1, <1>3 DEF Persist
<1> QED
  BY <1>2, <1>3

\* The duplicate check lets the call pass, makes it wait or answers it.
LEMMA CheckFacts ==
  ASSUME TypeOK, NEW c \in Call, CheckDuplicate(c)
  PROVE  /\ \/ pc' = [pc EXCEPT ![c] = "new"] /\ orders[IntentOf[c]] = NoCall
            \/ pc' = [pc EXCEPT ![c] = "waiting"] /\ orders[IntentOf[c]] # NoCall
            \/ pc' = [pc EXCEPT ![c] = "returned"]
         /\ raced \subseteq raced' /\ raced' \subseteq Intent
<1>1. raced' \in {raced, raced \cup {IntentOf[c]}}
  BY DEF CheckDuplicate, NoteRace
<1>2. raced \subseteq raced' /\ raced' \subseteq Intent
  BY <1>1, Ids DEF TypeOK
<1>3. \/ pc' = [pc EXCEPT ![c] = "new"] /\ orders[IntentOf[c]] = NoCall
      \/ pc' = [pc EXCEPT ![c] = "waiting"] /\ orders[IntentOf[c]] # NoCall
      \/ pc' = [pc EXCEPT ![c] = "returned"]
  BY DEF CheckDuplicate, Answer
<1> QED
  BY <1>2, <1>3

\* Checking a report finds an object of the memory and a status that follows the object's.
LEMMA CheckUpdateFacts ==
  ASSUME TypeOK, Owned, NEW b \in BrokerId, NEW status \in Reported, CheckUpdate(b, status)
  PROVE  \E c \in Call :
           /\ c = orders[intentOf[b]] /\ intentOf[b] = IntentOf[c]
           /\ update' = [object |-> c, status |-> status]
           /\ status \in Status /\ status # "NONE" /\ object[c].status # "FAILED"
<1> DEFINE c == orders[intentOf[b]]
<1>1. /\ intentOf[b] # NoCall /\ c # NoCall /\ status \in ValidTransitions(object[c].status)
      /\ update' = [object |-> c, status |-> status]
  BY DEF CheckUpdate
<1>2. intentOf[b] \in Intent
  BY <1>1 DEF TypeOK
<1>3. c \in Call /\ IntentOf[c] = intentOf[b]
  BY <1>1, <1>2 DEF TypeOK, Owned
<1>4. status # "NONE" /\ object[c].status # "FAILED"
  BY <1>1 DEF ValidTransitions
<1> QED
  BY <1>1, <1>3, <1>4, ManagerAssumption

\* Writing a report changes the status of its object and nothing else of any.
LEMMA WriteUpdateFacts ==
  ASSUME TypeOK, NEW taken \in BOOLEAN, WriteUpdate(taken)
  PROVE  /\ update # NoReport /\ update.object \in Call /\ update.status \in Status
         /\ object' \in [Call -> ObjectType]
         /\ object'[update.object].status = update.status
         /\ \A d \in Call : object'[d].id = object[d].id
         /\ \A d \in Call : d # update.object => object'[d] = object[d]
         /\ update' = NoReport /\ UNCHANGED <<pc, orders, idOf, intentOf, event, working, session, placedIn, raced>>
<1>1. update # NoReport /\ update.object \in Call /\ update.status \in Status
  BY DEF WriteUpdate, TypeOK
<1>2. object' = [object EXCEPT ![update.object].status = update.status] /\ object \in [Call -> ObjectType]
  BY DEF WriteUpdate, TypeOK, ObjectType
<1>3. /\ object' \in [Call -> ObjectType]
      /\ object'[update.object].status = update.status
      /\ \A d \in Call : object'[d].id = object[d].id
      /\ \A d \in Call : d # update.object => object'[d] = object[d]
  BY <1>1, <1>2 DEF ObjectType
<1> QED
  BY <1>1, <1>3 DEF WriteUpdate, memoryVars

\* What a restart loads.
LEMMA RestartFacts ==
  ASSUME TypeOK, Owned, Restart
  PROVE  /\ \A i \in Intent : orders'[i] \in {NoCall, disk[i].object}
         /\ \A i \in Intent : orders'[i] # NoCall => Loads(disk[i])
         /\ \A i \in Intent \ doubtful' : Loads(disk[i]) => orders'[i] = disk[i].object
         /\ \A b \in BrokerId : intentOf'[b] # NoCall =>
              /\ intentOf'[b] \in Intent
              /\ orders'[intentOf'[b]] # NoCall /\ disk[intentOf'[b]].id = b
         /\ \A c \in Call : \/ object'[c] = object[c]
                            \/ /\ disk[IntentOf[c]].object = c /\ Loads(disk[IntentOf[c]])
                               /\ object'[c] = [status |-> disk[IntentOf[c]].status,
                                                id |-> disk[IntentOf[c]].id]
         /\ doubtful \subseteq doubtful' /\ doubtful' \subseteq Intent /\ refusals' \in Nat
         /\ \E loaded \in SUBSET Intent : RestartWith(loaded)
<1>1. PICK loaded \in SUBSET Intent :
        /\ RestartWith(loaded) /\ loaded \subseteq Loadable
        /\ \A i \in Loadable : i \notin doubtful' => i \in loaded
  <2>1. Loadable \in SUBSET Intent /\ {} \in SUBSET Intent
    BY DEF Loadable
  <2> QED
    BY <2>1 DEF Restart
<1>2. \A i \in Intent : orders'[i] = IF i \in loaded THEN disk[i].object ELSE NoCall
  BY <1>1 DEF RestartWith
<1>3. \A i \in loaded : i \in Intent /\ Loads(disk[i])
  BY <1>1 DEF Loadable
<1>4. \A i \in loaded : disk[i].object # NoCall
  BY <1>3 DEF Owned, Loads, NoRow
<1>5. ASSUME NEW b \in BrokerId, intentOf'[b] # NoCall
      PROVE  intentOf'[b] \in loaded /\ disk[intentOf'[b]].id = b
  <2>1. intentOf'[b] = IF \E i \in loaded : disk[i].id = b
                       THEN CHOOSE i \in loaded : disk[i].id = b ELSE NoCall
    BY <1>1 DEF RestartWith
  <2>2. \E i \in loaded : disk[i].id = b
    BY <1>5, <2>1
  <2> QED
    BY <2>1, <2>2
<1>6. ASSUME NEW c \in Call, object'[c] # object[c]
      PROVE  /\ disk[IntentOf[c]].object = c /\ Loads(disk[IntentOf[c]])
             /\ object'[c] = [status |-> disk[IntentOf[c]].status, id |-> disk[IntentOf[c]].id]
  <2>1. object'[c] = IF \E i \in Intent : orders'[i] = c
                     THEN [status |-> disk[IntentOf[c]].status, id |-> disk[IntentOf[c]].id]
                     ELSE object[c]
    BY <1>1 DEF RestartWith
  <2>2. PICK i \in Intent : orders'[i] = c
    BY <1>6, <2>1
  <2>3. disk[i].object = c /\ c # NoCall /\ i \in loaded
    BY <1>2, <2>2, Ids
  <2> QED
    BY <1>3, <1>6, <2>1, <2>2, <2>3 DEF Owned
<1>7. doubtful \subseteq doubtful' /\ doubtful' \subseteq Intent /\ refusals' \in Nat
  BY DEF Restart, TypeOK, Loadable
<1>8. \A i \in Intent : orders'[i] \in {NoCall, disk[i].object}
  BY <1>2
<1>9. \A i \in Intent : orders'[i] # NoCall => Loads(disk[i])
  BY <1>2, <1>3
<1>10. \A i \in Intent \ doubtful' : Loads(disk[i]) => orders'[i] = disk[i].object
  BY <1>1, <1>2 DEF Loadable
<1>11. \A b \in BrokerId : intentOf'[b] # NoCall =>
         /\ intentOf'[b] \in Intent
         /\ orders'[intentOf'[b]] # NoCall /\ disk[intentOf'[b]].id = b
  BY <1>2, <1>3, <1>4, <1>5
<1> QED
  BY <1>1, <1>6, <1>7, <1>8, <1>9, <1>10, <1>11

-----------------------------------------------------------------------------
(***************************************************************************)
(* Every step keeps the types.                                             *)
(***************************************************************************)
\* Types are kept by every step of a call.
LEMMA CallTypes ==
  ASSUME TypeOK, NEW c \in Call, CallStep(c)
  PROVE  TypeOK'
<1>1. /\ object \in [Call -> ObjectType] /\ disk \in [Intent -> RowType]
      /\ IntentOf[c] \in Intent /\ IdFor(c) \in BrokerId
  BY Ids DEF TypeOK, ObjectType, RowType
<1>2. CASE CheckDuplicate(c)
  <2>1. raced' \subseteq Intent /\ pc' \in [Call -> {"idle", "waiting", "new", "inserted", "registered", "placing",
          "refused", "failed", "answered", "returned", "raised", "crashed"}]
    BY <1>2, CheckFacts DEF TypeOK
  <2> QED
    BY <1>2, <2>1 DEF CheckDuplicate, TypeOK, memoryVars, tableVars
<1>3. CASE Wake(c)
  BY <1>3 DEF Wake, Answer, TypeOK, memoryVars, tableVars
<1>4. CASE InsertOrder(c)
  BY <1>1, <1>4 DEF InsertOrder, TypeOK, Status, tableVars
<1>5. CASE Register(c)
  BY <1>1, <1>5 DEF Register, TypeOK, tableVars
<1>6. ASSUME NEW taken \in BOOLEAN, PersistIntent(c, taken)
      PROVE  TypeOK'
  <2>1. object' = object /\ Persist(c, taken) /\ UNCHANGED <<memoryVars, working, update, session, placedIn, raced>>
    BY <1>6 DEF PersistIntent
  <2>2. disk' \in [Intent -> RowType] /\ refusals' \in Nat /\ doubtful' \subseteq Intent
    BY <1>1, <2>1, PersistFacts
  <2>3. pc' \in [Call -> {"idle", "waiting", "new", "inserted", "registered", "placing",
          "refused", "failed", "answered", "returned", "raised", "crashed"}]
    BY <1>6 DEF PersistIntent, Goes, TypeOK
  <2> QED
    BY <2>1, <2>2, <2>3 DEF TypeOK, RowType, memoryVars
<1>7. ASSUME NEW answer \in {"refused", "answered", "raised"}, NEW held \in BOOLEAN,
             PlaceOrder(c, answer, held)
      PROVE  TypeOK'
  BY <1>7 DEF PlaceOrder, TypeOK, memoryVars, tableVars
<1>8. ASSUME NEW taken \in BOOLEAN, RecordFailed(c, taken)
      PROVE  TypeOK'
  <2>1. object' \in [Call -> ObjectType] /\ Persist(c, taken)
        /\ UNCHANGED <<memoryVars, working, update, session, placedIn, raced>>
    BY <1>1, <1>8 DEF RecordFailed, ObjectType, Status, Final
  <2>2. disk' \in [Intent -> RowType] /\ refusals' \in Nat /\ doubtful' \subseteq Intent
    BY <2>1, PersistFacts
  <2>3. pc' \in [Call -> {"idle", "waiting", "new", "inserted", "registered", "placing",
          "refused", "failed", "answered", "returned", "raised", "crashed"}]
    BY <1>8 DEF RecordFailed, Goes, TypeOK
  <2> QED
    BY <2>1, <2>2, <2>3 DEF TypeOK, RowType, ObjectType, memoryVars
<1>9. CASE ReportFailed(c)
  BY <1>1, <1>9 DEF ReportFailed, SetEvent, TypeOK, tableVars
<1>10. ASSUME NEW taken \in BOOLEAN, NEW b \in {IdFor(c), EmptyId}, RecordAcknowledged(c, b, taken)
       PROVE  TypeOK'
  <2>1. object' \in [Call -> ObjectType] /\ Persist(c, taken)
        /\ UNCHANGED <<orders, working, update, session, placedIn, raced>>
    BY <1>1, <1>10 DEF RecordAcknowledged, ObjectType, Status
  <2>2. disk' \in [Intent -> RowType] /\ refusals' \in Nat /\ doubtful' \subseteq Intent
    BY <2>1, PersistFacts
  <2>3. pc' \in [Call -> {"idle", "waiting", "new", "inserted", "registered", "placing",
          "refused", "failed", "answered", "returned", "raised", "crashed"}]
    BY <1>10 DEF RecordAcknowledged, Goes, TypeOK
  <2>4. event' \in [Intent -> {"none", "unset", "set"}]
    BY <1>1, <1>10 DEF RecordAcknowledged, SetEvent, TypeOK
  <2>5. idOf' \in [Intent -> BrokerId \cup {NoCall}] /\ intentOf' \in [BrokerId -> Intent \cup {NoCall}]
    <3>1. CASE b = EmptyId
      BY <1>10, <3>1 DEF RecordAcknowledged, TypeOK
    <3>2. CASE b # EmptyId
      <4>1. b \in BrokerId
        BY <1>1, <3>2
      <4>2. idOf' = [idOf EXCEPT ![IntentOf[c]] = b] /\ intentOf' = [intentOf EXCEPT ![b] = IntentOf[c]]
        BY <1>10, <3>2 DEF RecordAcknowledged
      <4> QED
        BY <1>1, <4>1, <4>2 DEF TypeOK
    <3> QED
      BY <3>1, <3>2
  <2> QED
    BY <2>1, <2>2, <2>3, <2>4, <2>5 DEF TypeOK, RowType, ObjectType
<1> QED
  BY <1>2, <1>3, <1>4, <1>5, <1>6, <1>7, <1>8, <1>9, <1>10 DEF CallStep

\* Types are kept by reports.
LEMMA UpdateTypes ==
  ASSUME TypeOK, Owned
  PROVE  /\ \A b \in BrokerId, status \in Reported : CheckUpdate(b, status) => TypeOK'
         /\ \A taken \in BOOLEAN : WriteUpdate(taken) => TypeOK'
<1>1. ASSUME NEW b \in BrokerId, NEW status \in Reported, CheckUpdate(b, status)
      PROVE  TypeOK'
  <2>1. update' \in [object : Call, status : Status]
    BY <1>1, CheckUpdateFacts
  <2>2. working' \subseteq Call
    BY <1>1 DEF CheckUpdate, TypeOK
  <2> QED
    BY <1>1, <2>1, <2>2 DEF CheckUpdate, TypeOK, memoryVars, tableVars
<1>2. ASSUME NEW taken \in BOOLEAN, WriteUpdate(taken)
      PROVE  TypeOK'
  <2>1. Persist(update.object, taken)
    BY <1>2 DEF WriteUpdate
  <2>2. disk' \in [Intent -> RowType] /\ refusals' \in Nat /\ doubtful' \subseteq Intent
    BY <1>2, <2>1, WriteUpdateFacts, PersistFacts
  <2> QED
    BY <1>2, <2>2, WriteUpdateFacts DEF TypeOK, ObjectType, RowType
<1> QED
  BY <1>1, <1>2

\* Types are kept by restarts.
LEMMA RestartTypes ==
  ASSUME TypeOK, Owned, Restart
  PROVE  TypeOK'
<1>1. disk \in [Intent -> RowType] /\ object \in [Call -> ObjectType]
  BY DEF TypeOK, RowType, ObjectType
<1>2. PICK loaded \in SUBSET Intent : RestartWith(loaded)
  BY RestartFacts
<1>3. orders' \in [Intent -> Call \cup {NoCall}] /\ event' \in [Intent -> {"none", "unset", "set"}]
  BY <1>1, <1>2 DEF RestartWith, RowType
<1>4. idOf' \in [Intent -> BrokerId \cup {NoCall}]
  BY <1>1, <1>2 DEF RestartWith, RowType
<1>5. intentOf' \in [BrokerId -> Intent \cup {NoCall}]
  <2>1. \A b \in BrokerId : intentOf'[b] \in Intent \cup {NoCall}
    BY RestartFacts
  <2> QED
    BY <1>2, <2>1 DEF RestartWith
<1>6. object' \in [Call -> ObjectType]
  <2>1. \A c \in Call : object'[c] \in ObjectType
    <3> SUFFICES ASSUME NEW c \in Call
                 PROVE  object'[c] \in ObjectType
      OBVIOUS
    <3>1. disk[IntentOf[c]] \in RowType
      BY <1>1, Ids
    <3>2. [status |-> disk[IntentOf[c]].status, id |-> disk[IntentOf[c]].id] \in ObjectType
      BY <3>1 DEF RowType, ObjectType
    <3> HIDE DEF ObjectType
    <3> QED
      BY <1>1, <3>2, RestartFacts
  <2> QED
    BY <1>2, <2>1 DEF RestartWith
<1>7. pc' \in [Call -> {"idle", "waiting", "new", "inserted", "registered", "placing",
                        "refused", "failed", "answered", "returned", "raised", "crashed"}]
  BY <1>2 DEF RestartWith, TypeOK
<1>8. refusals' \in Nat /\ doubtful' \subseteq Intent /\ session' \in Nat
  BY <1>2, RestartFacts DEF RestartWith, TypeOK
<1> QED
  BY <1>2, <1>3, <1>4, <1>5, <1>6, <1>7, <1>8 DEF RestartWith, TypeOK, ObjectType

-----------------------------------------------------------------------------
(***************************************************************************)
(* Every step keeps placements, owners and what the memory knows.          *)
(***************************************************************************)
\* A step of a call leaves the others where they are, and reports and the process alone.
LEMMA CallShape ==
  ASSUME TypeOK, NEW c \in Call, CallStep(c)
  PROVE  /\ \A d \in Call : d # c => pc'[d] = pc[d]
         /\ session' = session /\ update' = update
         /\ CheckDuplicate(c) \/ raced' = raced
<1>1. DOMAIN pc = Call
  BY DEF TypeOK
<1>2. CASE CheckDuplicate(c)
  <2>1. \A d \in Call : d # c => pc'[d] = pc[d]
    BY <1>1, <1>2, CheckFacts
  <2> QED
    BY <1>2, <2>1 DEF CheckDuplicate
<1>3. CASE Wake(c) \/ InsertOrder(c) \/ Register(c) \/ ReportFailed(c)
  BY <1>1, <1>3 DEF Wake, Answer, InsertOrder, Register, ReportFailed
<1>4. ASSUME NEW answer \in {"refused", "answered", "raised"}, NEW held \in BOOLEAN,
             PlaceOrder(c, answer, held)
      PROVE  /\ \A d \in Call : d # c => pc'[d] = pc[d]
             /\ session' = session /\ update' = update /\ raced' = raced
  BY <1>1, <1>4 DEF PlaceOrder
<1>5. ASSUME NEW taken \in BOOLEAN,
             PersistIntent(c, taken) \/ RecordFailed(c, taken)
               \/ \E b \in {IdFor(c), EmptyId} : RecordAcknowledged(c, b, taken)
      PROVE  /\ \A d \in Call : d # c => pc'[d] = pc[d]
             /\ session' = session /\ update' = update /\ raced' = raced
  <2>1. \E next : pc' = [pc EXCEPT ![c] = next]
    BY <1>5 DEF PersistIntent, RecordFailed, RecordAcknowledged, Goes
  <2>2. \A d \in Call : d # c => pc'[d] = pc[d]
    BY <1>1, <2>1
  <2> QED
    BY <1>5, <2>2 DEF PersistIntent, RecordFailed, RecordAcknowledged
<1> QED
  BY <1>2, <1>3, <1>4, <1>5 DEF CallStep

\* Doubts stay.
LEMMA DoubtsStay ==
  ASSUME TypeOK, Owned, Next
  PROVE  doubtful \subseteq doubtful'
<1>1. object \in [Call -> ObjectType]
  BY DEF TypeOK, ObjectType
<1>2. ASSUME NEW c \in Call, CallStep(c)
      PROVE  doubtful \subseteq doubtful'
  <2>1. ASSUME NEW taken \in BOOLEAN, PersistIntent(c, taken)
        PROVE  doubtful \subseteq doubtful'
    BY <1>1, <2>1, PersistFacts DEF PersistIntent
  <2>2. ASSUME NEW taken \in BOOLEAN, RecordFailed(c, taken)
        PROVE  doubtful \subseteq doubtful'
    <3>1. object' \in [Call -> ObjectType] /\ Persist(c, taken)
      BY <1>1, <2>2 DEF RecordFailed, ObjectType, Status, Final
    <3> QED
      BY <3>1, PersistFacts
  <2>3. ASSUME NEW taken \in BOOLEAN, NEW b \in {IdFor(c), EmptyId}, RecordAcknowledged(c, b, taken)
        PROVE  doubtful \subseteq doubtful'
    <3>1. object' \in [Call -> ObjectType] /\ Persist(c, taken)
      BY <1>1, <2>3, Ids DEF RecordAcknowledged, ObjectType, Status
    <3> QED
      BY <3>1, PersistFacts
  <2> QED
    BY <1>2, <2>1, <2>2, <2>3 DEF CallStep, CheckDuplicate, Wake, InsertOrder, Register, PlaceOrder,
                                  ReportFailed, tableVars
<1>3. ASSUME NEW b \in BrokerId, NEW status \in Reported, CheckUpdate(b, status)
      PROVE  doubtful \subseteq doubtful'
  BY <1>3 DEF CheckUpdate, tableVars
<1>4. ASSUME NEW taken \in BOOLEAN, WriteUpdate(taken)
      PROVE  doubtful \subseteq doubtful'
  <2>1. Persist(update.object, taken)
    BY <1>4 DEF WriteUpdate
  <2> QED
    BY <1>4, <2>1, WriteUpdateFacts, PersistFacts
<1> QED
  BY <1>2, <1>3, <1>4, RestartFacts DEF Next

\* Orders are placed in the running process, and a call that placed one never starts again.
LEMMA PlacedStep ==
  ASSUME TypeOK, Owned, Placed, Next
  PROVE  Placed'
<1>1. ASSUME NEW c \in Call, CallStep(c)
      PROVE  Placed'
  <2>1. CASE CheckDuplicate(c)
    BY <2>1, CheckFacts DEF CheckDuplicate, Placed, TypeOK
  <2>2. CASE Wake(c) \/ InsertOrder(c) \/ Register(c) \/ ReportFailed(c)
    BY <2>2 DEF Wake, Answer, InsertOrder, Register, ReportFailed, Placed, TypeOK
  <2>3. ASSUME NEW answer \in {"refused", "answered", "raised"}, NEW held \in BOOLEAN,
               PlaceOrder(c, answer, held)
        PROVE  Placed'
    BY <2>3 DEF PlaceOrder, Placed, TypeOK
  <2>4. ASSUME NEW taken \in BOOLEAN, PersistIntent(c, taken)
        PROVE  Placed'
    BY <2>4 DEF PersistIntent, Goes, Placed, TypeOK
  <2>5. ASSUME NEW taken \in BOOLEAN, RecordFailed(c, taken)
        PROVE  Placed'
    BY <2>5 DEF RecordFailed, Goes, Placed, TypeOK
  <2>6. ASSUME NEW taken \in BOOLEAN, NEW b \in {IdFor(c), EmptyId}, RecordAcknowledged(c, b, taken)
        PROVE  Placed'
    BY <2>6 DEF RecordAcknowledged, Goes, Placed, TypeOK
  <2> QED
    BY <1>1, <2>1, <2>2, <2>3, <2>4, <2>5, <2>6 DEF CallStep
<1>2. ASSUME NEW b \in BrokerId, NEW status \in Reported, CheckUpdate(b, status)
      PROVE  Placed'
  BY <1>2 DEF CheckUpdate, Placed
<1>3. ASSUME NEW taken \in BOOLEAN, WriteUpdate(taken)
      PROVE  Placed'
  BY <1>3 DEF WriteUpdate, Placed
<1>4. CASE Restart
  <2>1. PICK loaded \in SUBSET Intent : RestartWith(loaded)
    BY <1>4, RestartFacts
  <2> QED
    BY <2>1 DEF RestartWith, Placed, TypeOK
<1> QED
  BY <1>1, <1>2, <1>3, <1>4 DEF Next

\* A row that is written keeps the table owned.
LEMMA WrittenOwned ==
  ASSUME Owned, disk \in [Intent -> RowType], object' \in [Call -> ObjectType],
         NEW c \in Call, Written(c), object'[c].id \in {NoCall, EmptyId, IdFor(c)}
  PROVE  \A i \in Intent :
           /\ disk'[i].object # NoCall =>
                /\ IntentOf[disk'[i].object] = i
                /\ disk'[i].id \in {NoCall, EmptyId, IdFor(disk'[i].object)}
           /\ disk'[i].object = NoCall => disk'[i] = NoRow
<1> SUFFICES ASSUME NEW i \in Intent
             PROVE  /\ disk'[i].object # NoCall =>
                         /\ IntentOf[disk'[i].object] = i
                         /\ disk'[i].id \in {NoCall, EmptyId, IdFor(disk'[i].object)}
                    /\ disk'[i].object = NoCall => disk'[i] = NoRow
  OBVIOUS
<1>1. CASE i = IntentOf[c]
  <2>1. disk'[i].object = c /\ disk'[i].id = object'[c].id
    <3>1. disk'[i] = [object |-> c, status |-> object'[c].status, id |-> object'[c].id]
      BY <1>1, WrittenRows
    <3> QED
      BY <3>1
  <2> QED
    BY <1>1, <2>1, Ids
<1>2. CASE i # IntentOf[c]
  <2>1. disk'[i] \in {disk[i], NoRow}
    BY <1>2, WrittenRows
  <2>2. NoRow.object = NoCall
    BY DEF NoRow
  <2> QED
    BY <2>1, <2>2 DEF Owned
<1> QED
  BY <1>1, <1>2

\* Objects, memory and table stay with their intents.
LEMMA OwnedStep ==
  ASSUME TypeOK, Owned, Next
  PROVE  Owned'
<1>1. /\ object \in [Call -> ObjectType] /\ disk \in [Intent -> RowType]
      /\ orders \in [Intent -> Call \cup {NoCall}]
  BY DEF TypeOK, ObjectType, RowType
<1>2. ASSUME UNCHANGED <<orders, disk, object>>
      PROVE  Owned'
  BY <1>2 DEF Owned
<1>3. ASSUME NEW c \in Call, NEW taken \in BOOLEAN, UNCHANGED orders, object' \in [Call -> ObjectType],
             Persist(c, taken), \A d \in Call : object'[d].id \in {NoCall, EmptyId, IdFor(d)}
      PROVE  Owned'
  <2>1. disk' = disk \/ Written(c)
    BY <1>3, PersistFacts
  <2> QED
    BY <1>1, <1>3, <2>1, WrittenOwned DEF Owned
<1>4. ASSUME NEW c \in Call, InsertOrder(c)
      PROVE  Owned'
  <2>1. orders' = [orders EXCEPT ![IntentOf[c]] = c] /\ disk' = disk
    BY <1>4 DEF InsertOrder, tableVars
  <2>2. \A d \in Call : object'[d].id \in {NoCall, EmptyId, IdFor(d)}
    BY <1>1, <1>4 DEF InsertOrder, Owned, ObjectType
  <2> QED
    BY <1>1, <2>1, <2>2, Ids DEF Owned
<1>5. ASSUME NEW c \in Call, NEW taken \in BOOLEAN, PersistIntent(c, taken)
      PROVE  Owned'
  BY <1>1, <1>3, <1>5 DEF PersistIntent, memoryVars, Owned
<1>6. ASSUME NEW c \in Call, NEW taken \in BOOLEAN, RecordFailed(c, taken)
      PROVE  Owned'
  <2>1. object' = [object EXCEPT ![c].status = "FAILED"] /\ Persist(c, taken) /\ orders' = orders
    BY <1>6 DEF RecordFailed, memoryVars
  <2>2. object' \in [Call -> ObjectType] /\ \A d \in Call : object'[d].id = object[d].id
    BY <1>1, <2>1 DEF ObjectType, Status, Final
  <2> QED
    BY <1>3, <2>1, <2>2 DEF Owned
<1>7. ASSUME NEW c \in Call, NEW taken \in BOOLEAN, NEW b \in {IdFor(c), EmptyId},
             RecordAcknowledged(c, b, taken)
      PROVE  Owned'
  <2>1. object' = [object EXCEPT ![c] = [status |-> "ACKNOWLEDGED", id |-> b]]
        /\ Persist(c, taken) /\ orders' = orders
    BY <1>7 DEF RecordAcknowledged
  <2>2. object' \in [Call -> ObjectType] /\ object'[c].id = b
        /\ \A d \in Call : d # c => object'[d].id = object[d].id
    BY <1>1, <2>1, Ids DEF ObjectType, Status
  <2> QED
    BY <1>3, <2>1, <2>2 DEF Owned
<1>8. ASSUME NEW taken \in BOOLEAN, WriteUpdate(taken)
      PROVE  Owned'
  <2>1. Persist(update.object, taken)
    BY <1>8 DEF WriteUpdate
  <2> QED
    BY <1>3, <1>8, <2>1, WriteUpdateFacts DEF Owned
<1>9. CASE Restart
  <2>1. \A i \in Intent : orders'[i] # NoCall => IntentOf[orders'[i]] = i
    BY <1>9, RestartFacts DEF Owned
  <2>2. ASSUME NEW c \in Call
        PROVE  object'[c].id \in {NoCall, EmptyId, IdFor(c)}
    <3>1. CASE object'[c] = object[c]
      BY <3>1 DEF Owned
    <3>2. CASE /\ disk[IntentOf[c]].object = c
               /\ object'[c] = [status |-> disk[IntentOf[c]].status, id |-> disk[IntentOf[c]].id]
      <4>1. IntentOf[c] \in Intent /\ c # NoCall
        BY Ids
      <4>2. object'[c].id = disk[IntentOf[c]].id
        BY <3>2
      <4> QED
        BY <3>2, <4>1, <4>2 DEF Owned
    <3> QED
      BY <1>9, <3>1, <3>2, RestartFacts
  <2>3. disk' = disk
    BY <1>9, RestartFacts DEF RestartWith
  <2> QED
    BY <2>1, <2>2, <2>3 DEF Owned
<1>10. ASSUME NEW c \in Call, CallStep(c)
       PROVE  Owned'
  BY <1>2, <1>4, <1>5, <1>6, <1>7, <1>10
     DEF CallStep, CheckDuplicate, Wake, Register, PlaceOrder, ReportFailed, memoryVars, tableVars
<1>11. ASSUME NEW b \in BrokerId, NEW status \in Reported, CheckUpdate(b, status)
       PROVE  Owned'
  BY <1>2, <1>11 DEF CheckUpdate, memoryVars, tableVars
<1> QED
  BY <1>8, <1>9, <1>10, <1>11 DEF Next

\* The memory keeps knowing the orders it must know.
LEMMA KnownStep ==
  ASSUME TypeOK, Placed, Owned, Known, Next
  PROVE  Known'
<1>1. /\ orders \in [Intent -> Call \cup {NoCall}] /\ intentOf \in [BrokerId -> Intent \cup {NoCall}]
      /\ DOMAIN pc = Call /\ DOMAIN placedIn = Call
      /\ update # NoReport => update.object \in Call
  BY DEF TypeOK
<1>2. ASSUME NEW c \in Call, CheckDuplicate(c)
      PROVE  Known'
  BY <1>1, <1>2, CheckFacts DEF CheckDuplicate, memoryVars, Known, Registered
<1>3. ASSUME NEW c \in Call, Wake(c) \/ ReportFailed(c)
      PROVE  Known'
  BY <1>1, <1>3 DEF Wake, Answer, ReportFailed, memoryVars, Known, Registered
<1>4. ASSUME NEW c \in Call, InsertOrder(c)
      PROVE  Known'
  <2>1. /\ orders' = [orders EXCEPT ![IntentOf[c]] = c] /\ intentOf' = intentOf /\ update' = update
        /\ pc' = [pc EXCEPT ![c] = "inserted"] /\ placedIn' = placedIn /\ session' = session
    BY <1>4 DEF InsertOrder
  <2>2. orders'[IntentOf[c]] # NoCall /\ \A i \in Intent : orders[i] # NoCall => orders'[i] # NoCall
    BY <1>1, <2>1, Ids
  <2>3. update # NoReport => orders'[IntentOf[update.object]] # NoCall /\ update.status # "NONE"
    BY <1>1, <2>2, Ids DEF Known
  <2> QED
    BY <1>1, <2>1, <2>2, <2>3, Ids DEF Known
<1>5. ASSUME NEW c \in Call, Register(c)
      PROVE  Known'
  BY <1>1, <1>5 DEF Register, Known, Registered
<1>6. ASSUME NEW c \in Call, NEW answer \in {"refused", "answered", "raised"}, NEW held \in BOOLEAN,
             PlaceOrder(c, answer, held)
      PROVE  Known'
  BY <1>1, <1>6 DEF PlaceOrder, memoryVars, Known, Registered
<1>7. ASSUME NEW c \in Call, NEW taken \in BOOLEAN, PersistIntent(c, taken) \/ RecordFailed(c, taken)
      PROVE  Known'
  BY <1>1, <1>7 DEF PersistIntent, RecordFailed, Goes, memoryVars, Known, Registered
<1>8. ASSUME NEW c \in Call, NEW taken \in BOOLEAN, NEW b \in {IdFor(c), EmptyId},
             RecordAcknowledged(c, b, taken)
      PROVE  Known'
  <2>1. /\ pc[c] = "answered" /\ pc' \in {[pc EXCEPT ![c] = "returned"], [pc EXCEPT ![c] = "raised"]}
        /\ UNCHANGED <<orders, placedIn, session, update>>
    BY <1>8 DEF RecordAcknowledged, Goes
  <2>2. intentOf' \in {intentOf, [intentOf EXCEPT ![b] = IntentOf[c]]}
    BY <1>8 DEF RecordAcknowledged
  <2>3. orders[IntentOf[c]] # NoCall
    BY <2>1 DEF Known, Registered
  <2>4. \A d \in BrokerId : intentOf'[d] # NoCall => orders[intentOf'[d]] # NoCall
    BY <1>1, <2>2, <2>3 DEF Known
  <2> QED
    BY <1>1, <2>1, <2>4 DEF Known, Registered
<1>9. ASSUME NEW b \in BrokerId, NEW status \in Reported, CheckUpdate(b, status)
      PROVE  Known'
  <2>1. update'.status # "NONE" /\ orders[IntentOf[update'.object]] # NoCall
    <3>1. PICK c \in Call : /\ c = orders[intentOf[b]] /\ intentOf[b] = IntentOf[c]
                            /\ update' = [object |-> c, status |-> status] /\ status # "NONE"
      BY <1>9, CheckUpdateFacts
    <3> QED
      BY <3>1, Ids
  <2> QED
    BY <1>9, <2>1 DEF CheckUpdate, memoryVars, Known
<1>10. ASSUME NEW taken \in BOOLEAN, WriteUpdate(taken)
       PROVE  Known'
  BY <1>10, WriteUpdateFacts DEF Known
<1>11. CASE Restart
  <2>1. PICK loaded \in SUBSET Intent : RestartWith(loaded)
    BY <1>11, RestartFacts
  <2>2. \A c \in Call : pc'[c] \in {"idle", "returned", "raised", "crashed"}
    BY <2>1 DEF RestartWith
  <2>3. \A c \in Call : placedIn'[c] # session'
    BY <2>1 DEF RestartWith, Placed, TypeOK
  <2>4. \A b \in BrokerId : intentOf'[b] # NoCall => orders'[intentOf'[b]] # NoCall
    BY <1>11, RestartFacts
  <2>5. update' = NoReport
    BY <2>1 DEF RestartWith
  <2> QED
    BY <2>2, <2>3, <2>4, <2>5 DEF Known, Registered
<1>12. ASSUME NEW c \in Call, CallStep(c)
       PROVE  Known'
  BY <1>2, <1>3, <1>4, <1>5, <1>6, <1>7, <1>8, <1>12 DEF CallStep
<1> QED
  BY <1>9, <1>10, <1>11, <1>12 DEF Next

-----------------------------------------------------------------------------
(***************************************************************************)
(* Every step keeps the races known.                                       *)
(***************************************************************************)
\* Races are not forgotten, and a call becomes active in the duplicate check only.
LEMMA ActiveStep ==
  ASSUME TypeOK, Owned, Placed, Next
  PROVE  /\ raced \subseteq raced'
         /\ \A d \in Call : Active(d)' =>
              \/ Active(d)
              \/ CheckDuplicate(d) /\ pc'[d] = "new" /\ orders[IntentOf[d]] = NoCall
<1> DEFINE Came == \A d \in Call : Active(d)' =>
                     \/ Active(d)
                     \/ CheckDuplicate(d) /\ pc'[d] = "new" /\ orders[IntentOf[d]] = NoCall
<1>1. DOMAIN pc = Call /\ DOMAIN placedIn = Call
  BY DEF TypeOK
<1>2. ASSUME NEW c \in Call, CheckDuplicate(c)
      PROVE  raced \subseteq raced' /\ Came
  <2>1. placedIn' = placedIn /\ session' = session
    BY <1>2 DEF CheckDuplicate
  <2>2. raced \subseteq raced' /\ \A d \in Call : d # c => pc'[d] = pc[d]
    BY <1>1, <1>2, CheckFacts
  <2>3. \/ pc'[c] = "new" /\ orders[IntentOf[c]] = NoCall
        \/ pc'[c] \notin InFlight
    BY <1>1, <1>2, CheckFacts DEF InFlight, Registered
  <2> QED
    BY <1>2, <2>1, <2>2, <2>3 DEF Active
<1>3. ASSUME NEW c \in Call, CallStep(c), ~CheckDuplicate(c)
      PROVE  raced' = raced /\ Came
  <2>1. CASE Wake(c) \/ InsertOrder(c) \/ Register(c) \/ ReportFailed(c)
    BY <1>1, <2>1 DEF Wake, Answer, InsertOrder, Register, ReportFailed, Active, InFlight, Registered
  <2>2. ASSUME NEW answer \in {"refused", "answered", "raised"}, NEW held \in BOOLEAN,
               PlaceOrder(c, answer, held)
        PROVE  raced' = raced /\ Came
    BY <1>1, <2>2 DEF PlaceOrder, Active, InFlight, Registered
  <2>3. ASSUME NEW taken \in BOOLEAN, PersistIntent(c, taken) \/ RecordFailed(c, taken)
        PROVE  raced' = raced /\ Came
    BY <1>1, <2>3 DEF PersistIntent, RecordFailed, Goes, Active, InFlight, Registered
  <2>4. ASSUME NEW taken \in BOOLEAN, NEW b \in {IdFor(c), EmptyId}, RecordAcknowledged(c, b, taken)
        PROVE  raced' = raced /\ Came
    BY <1>1, <2>4 DEF RecordAcknowledged, Goes, Active, InFlight, Registered
  <2> QED
    BY <1>3, <2>1, <2>2, <2>3, <2>4 DEF CallStep
<1>4. ASSUME NEW b \in BrokerId, NEW status \in Reported, CheckUpdate(b, status)
      PROVE  raced' = raced /\ Came
  BY <1>4 DEF CheckUpdate, Active
<1>5. ASSUME NEW taken \in BOOLEAN, WriteUpdate(taken)
      PROVE  raced' = raced /\ Came
  BY <1>5 DEF WriteUpdate, Active
<1>6. ASSUME Restart
      PROVE  raced' = raced /\ Came
  <2>1. PICK loaded \in SUBSET Intent : RestartWith(loaded)
    BY <1>6, RestartFacts
  <2>2. \A c \in Call : pc'[c] \notin InFlight
    BY <2>1 DEF RestartWith, InFlight, Registered
  <2>3. \A c \in Call : placedIn'[c] # session'
    BY <2>1 DEF RestartWith, Placed, TypeOK
  <2> QED
    BY <2>1, <2>2, <2>3 DEF RestartWith, Active
<1> HIDE DEF Came
<1>7. raced \subseteq raced' /\ Came
  BY <1>2, <1>3, <1>4, <1>5, <1>6 DEF Next
<1> QED
  BY <1>7 DEF Came

\* A call that becomes active finds no other of its intent active, or it is a race.
LEMMA NewcomerRaces ==
  ASSUME TypeOK, Known, NEW c \in Call, NEW d \in Call, SameIntent(c, d),
         CheckDuplicate(c), pc'[c] = "new", orders[IntentOf[c]] = NoCall, Active(d)'
  PROVE  IntentOf[c] \in raced'
<1>1. pc'[d] = pc[d] /\ placedIn' = placedIn /\ session' = session
  <2>1. \E x : pc' = [pc EXCEPT ![c] = x]
    BY CheckFacts
  <2>2. DOMAIN pc = Call /\ c # d
    BY DEF TypeOK, SameIntent
  <2>3. pc'[d] = pc[d]
    BY <2>1, <2>2
  <2> QED
    BY <2>3 DEF CheckDuplicate
<1>2. orders[IntentOf[d]] = NoCall
  BY DEF SameIntent
<1>3. pc[d] = "new"
  BY <1>1, <1>2 DEF Known, Active, InFlight
<1> QED
  BY <1>3 DEF CheckDuplicate, NoteRace

\* Active calls of one intent stay known as a race.
LEMMA RacesStep ==
  ASSUME TypeOK, Owned, Placed, Known, Races, Next
  PROVE  Races'
<1> SUFFICES ASSUME NEW c \in Call, NEW d \in Call, SameIntent(c, d), Active(c)', Active(d)'
             PROVE  IntentOf[c] \in raced'
  BY DEF Races, SameIntent
<1>1. SameIntent(d, c) /\ IntentOf[c] = IntentOf[d]
  BY DEF SameIntent
<1>2. CASE Active(c) /\ Active(d)
  BY <1>2, ActiveStep DEF Races
<1>3. CASE ~Active(c)
  BY <1>3, ActiveStep, NewcomerRaces
<1>4. CASE ~Active(d)
  BY <1>1, <1>4, ActiveStep, NewcomerRaces
<1> QED
  BY <1>2, <1>3, <1>4

\* An order is placed where no other of its intent was in this process, or in a race.
LEMMA OneOrderStep ==
  ASSUME TypeOK, Owned, Placed, Known, Races, OneOrderPerIntent, Next
  PROVE  OneOrderPerIntent'
<1> SUFFICES ASSUME NEW x \in Call, NEW y \in Call, SameIntent(x, y),
                    placedIn'[x] = placedIn'[y], placedIn'[x] # 0
             PROVE  IntentOf[x] \in raced'
  BY DEF OneOrderPerIntent, SameIntent
<1>1. raced \subseteq raced'
  BY ActiveStep
<1>2. x # y /\ IntentOf[x] = IntentOf[y] /\ SameIntent(y, x)
  BY DEF SameIntent
<1>3. CASE placedIn' = placedIn
  BY <1>1, <1>3 DEF OneOrderPerIntent
<1>4. ASSUME NEW c \in Call, pc[c] = "placing", placedIn' = [placedIn EXCEPT ![c] = session]
      PROVE  IntentOf[x] \in raced'
  <2>1. DOMAIN placedIn = Call
    BY DEF TypeOK
  <2>2. Active(c)
    BY <1>4 DEF Active, InFlight, Registered
  <2>3. CASE c = x
    <3>1. placedIn[y] = session
      BY <1>2, <1>4, <2>1, <2>3
    <3> QED
      BY <1>1, <2>2, <2>3, <3>1 DEF Races, Active
  <2>4. CASE c = y
    <3>1. placedIn[x] = session
      BY <1>2, <1>4, <2>1, <2>4
    <3> QED
      BY <1>1, <2>2, <2>4, <3>1 DEF Races, Active
  <2>5. CASE c # x /\ c # y
    BY <1>1, <1>4, <2>1, <2>5 DEF OneOrderPerIntent
  <2> QED
    BY <2>3, <2>4, <2>5
<1> QED
  BY <1>3, <1>4 DEF Next, CallStep, CheckDuplicate, Wake, InsertOrder, Register, PersistIntent,
                    PlaceOrder, RecordFailed, ReportFailed, RecordAcknowledged, CheckUpdate, WriteUpdate,
                    Restart, RestartWith

-----------------------------------------------------------------------------
(***************************************************************************)
(* A call that raced with no other keeps its intent to itself.             *)
(***************************************************************************)
\* What a step leaves of a call it is not about.
LEMMA UndisturbedStays ==
  ASSUME NEW x \in Call, Undisturbed(x), pc'[x] = pc[x], update' \in {update, NoReport},
         orders'[IntentOf[x]] = orders[IntentOf[x]], object'[x] = object[x],
         doubtful \subseteq doubtful',
         \A b \in BrokerId : intentOf'[b] = IntentOf[x] => intentOf[b] = IntentOf[x],
         disk[IntentOf[x]].id = NoCall => disk'[IntentOf[x]] = disk[IntentOf[x]]
  PROVE  Undisturbed(x)'
<1>1. pc[x] \in {"placing", "refused", "answered"} /\ IntentOf[x] \notin doubtful
        => disk[IntentOf[x]].id = NoCall
  BY DEF Undisturbed
<1>2. pc[x] \in Registered =>
        /\ orders[IntentOf[x]] = x
        /\ object[x] = [status |-> "VALIDATED", id |-> NoCall]
        /\ \A b \in BrokerId : intentOf[b] # IntentOf[x]
        /\ update # NoReport => IntentOf[update.object] # IntentOf[x]
  BY DEF Undisturbed
<1>3. pc[x] \in Registered => (update' # NoReport => IntentOf[update'.object] # IntentOf[x])
  BY <1>2
<1> QED
  BY <1>1, <1>2, <1>3 DEF Undisturbed

\* A row written for one intent leaves another's, unless they have the same broker id.
LEMMA OtherRow ==
  ASSUME TypeOK, Owned, NEW x \in Call, NEW c \in Call, IntentOf[x] # IntentOf[c],
         NEW taken \in BOOLEAN, Persist(c, taken), object' \in [Call -> ObjectType],
         object'[c].id \in {NoCall, EmptyId, IdFor(c)}
  PROVE  \/ disk'[IntentOf[x]] = disk[IntentOf[x]]
         \/ disk[IntentOf[x]].id \in {EmptyId, IdFor(c)}
<1>1. disk \in [Intent -> RowType] /\ IntentOf[x] \in Intent \ {IntentOf[c]}
  BY Ids DEF TypeOK, RowType
<1>2. CASE disk' = disk
  BY <1>2
<1>3. CASE Written(c)
  <2>1. disk[IntentOf[x]].id = NoCall \/ disk[IntentOf[x]].id # object'[c].id
          => disk'[IntentOf[x]] = disk[IntentOf[x]]
    BY <1>1, <1>3, WrittenRows
  <2> QED
    BY <2>1
<1> QED
  BY <1>2, <1>3, PersistFacts

\* What a step of a call with another intent leaves of this one's.
LEMMA OtherIntent ==
  ASSUME TypeOK, Owned, NEW x \in Call, NEW c \in Call, CallStep(c),
         IntentOf[x] # IntentOf[c]
  PROVE  /\ pc'[x] = pc[x] /\ orders'[IntentOf[x]] = orders[IntentOf[x]]
         /\ object'[x] = object[x] /\ (x \in working' <=> x \in working)
         /\ \A b \in BrokerId : intentOf'[b] = IntentOf[x] => intentOf[b] = IntentOf[x]
         /\ \/ disk'[IntentOf[x]] = disk[IntentOf[x]]
            \/ disk[IntentOf[x]].id \in {EmptyId, IdFor(c)}
<1> DEFINE i == IntentOf[x]
           Left == /\ orders'[i] = orders[i]
                   /\ object'[x] = object[x] /\ (x \in working' <=> x \in working)
                   /\ \A b \in BrokerId : intentOf'[b] = i => intentOf[b] = i
                   /\ disk'[i] = disk[i] \/ disk[i].id \in {EmptyId, IdFor(c)}
<1>1. /\ x # c /\ i \in Intent /\ IntentOf[c] \in Intent /\ i # IntentOf[c] /\ IdFor(c) \in BrokerId
      /\ DOMAIN orders = Intent /\ DOMAIN object = Call /\ DOMAIN intentOf = BrokerId
      /\ object \in [Call -> ObjectType] /\ disk \in [Intent -> RowType]
  BY Ids DEF TypeOK, ObjectType, RowType
<1>2. ASSUME NEW taken \in BOOLEAN, object' \in [Call -> ObjectType], Persist(c, taken),
             object'[c].id \in {NoCall, EmptyId, IdFor(c)}
      PROVE  disk'[i] = disk[i] \/ disk[i].id \in {EmptyId, IdFor(c)}
  BY <1>2, OtherRow
<1> HIDE DEF i
<1>3. ASSUME CheckDuplicate(c) \/ Wake(c) \/ ReportFailed(c)
      PROVE  Left
  BY <1>3 DEF CheckDuplicate, Wake, ReportFailed, memoryVars, tableVars
<1>4. ASSUME InsertOrder(c) \/ Register(c)
      PROVE  Left
  BY <1>1, <1>4 DEF InsertOrder, Register, tableVars
<1>5. ASSUME NEW taken \in BOOLEAN, PersistIntent(c, taken)
      PROVE  Left
  <2>1. UNCHANGED <<object, orders, working, intentOf>> /\ Persist(c, taken)
    BY <1>5 DEF PersistIntent, memoryVars
  <2>2. disk'[i] = disk[i] \/ disk[i].id \in {EmptyId, IdFor(c)}
    BY <1>1, <1>2, <2>1 DEF Owned
  <2> QED
    BY <2>1, <2>2
<1>6. ASSUME NEW answer \in {"refused", "answered", "raised"}, NEW held \in BOOLEAN,
             PlaceOrder(c, answer, held)
      PROVE  Left
  BY <1>1, <1>6 DEF PlaceOrder, memoryVars, tableVars
<1>7. ASSUME NEW taken \in BOOLEAN, RecordFailed(c, taken)
      PROVE  Left
  <2>1. object' \in [Call -> ObjectType] /\ object'[c].id = object[c].id /\ object'[x] = object[x]
        /\ Persist(c, taken) /\ UNCHANGED <<orders, working, intentOf>>
    BY <1>1, <1>7 DEF RecordFailed, ObjectType, Status, Final, memoryVars
  <2>2. disk'[i] = disk[i] \/ disk[i].id \in {EmptyId, IdFor(c)}
    BY <1>2, <2>1 DEF Owned
  <2> QED
    BY <2>1, <2>2
<1>8. ASSUME NEW taken \in BOOLEAN, NEW d \in {IdFor(c), EmptyId}, RecordAcknowledged(c, d, taken)
      PROVE  Left
  <2>1. object' \in [Call -> ObjectType] /\ object'[c].id = d /\ object'[x] = object[x]
        /\ Persist(c, taken) /\ UNCHANGED <<orders, working>>
    BY <1>1, <1>8 DEF RecordAcknowledged, ObjectType, Status
  <2>2. disk'[i] = disk[i] \/ disk[i].id \in {EmptyId, IdFor(c)}
    BY <1>2, <2>1
  <2>3. intentOf' \in {intentOf, [intentOf EXCEPT ![d] = IntentOf[c]]}
    BY <1>8 DEF RecordAcknowledged
  <2>4. \A b \in BrokerId : intentOf'[b] = i => intentOf[b] = i
    BY <1>1, <2>3
  <2> QED
    BY <2>1, <2>2, <2>4
<1>9. pc'[x] = pc[x]
  BY <1>1, CallShape
<1> HIDE DEF Left
<1>10. Left
  BY <1>3, <1>4, <1>5, <1>6, <1>7, <1>8 DEF CallStep
<1> QED
  BY <1>9, <1>10 DEF Left, i

\* A step of the call itself that raced with no other.
LEMMA FreshOwn ==
  ASSUME ManagerInv, NEW c \in Call, IntentOf[c] \notin raced, CallStep(c)
  PROVE  Undisturbed(c)'
<1>1. /\ TypeOK /\ Known /\ Owned /\ Undisturbed(c) /\ IntentOf[c] \in Intent
      /\ DOMAIN pc = Call /\ DOMAIN orders = Intent /\ DOMAIN object = Call
      /\ object \in [Call -> ObjectType] /\ disk \in [Intent -> RowType] /\ c # NoCall
      /\ update' = update
  BY Ids, CallShape DEF ManagerInv, Fresh, TypeOK, ObjectType, RowType
<1>2. CASE CheckDuplicate(c)
  <2>1. \/ pc'[c] = "new" /\ orders[IntentOf[c]] = NoCall
        \/ pc'[c] \in {"waiting", "returned"}
    BY <1>1, <1>2, CheckFacts
  <2> QED
    BY <1>2, <2>1 DEF CheckDuplicate, memoryVars, Undisturbed, Registered
<1>3. CASE Wake(c) \/ ReportFailed(c)
  BY <1>1, <1>3 DEF Wake, Answer, ReportFailed, Undisturbed, Registered
<1>4. CASE InsertOrder(c)
  <2>1. orders[IntentOf[c]] = NoCall
    BY <1>1, <1>4 DEF InsertOrder, Undisturbed
  <2>2. \A b \in BrokerId : intentOf[b] # IntentOf[c]
    BY <1>1, <2>1, ManagerAssumption DEF Known
  <2>3. update # NoReport => IntentOf[update.object] # IntentOf[c]
    BY <1>1, <2>1 DEF Known
  <2> QED
    BY <1>1, <1>4, <2>2, <2>3 DEF InsertOrder, Undisturbed
<1>5. CASE Register(c)
  BY <1>1, <1>5 DEF Register, Undisturbed, Registered
<1>6. ASSUME NEW taken \in BOOLEAN, PersistIntent(c, taken)
      PROVE  Undisturbed(c)'
  <2>1. object' = object /\ Persist(c, taken) /\ pc[c] = "registered" /\ UNCHANGED <<orders, intentOf>>
    BY <1>6 DEF PersistIntent, memoryVars
  <2>2. pc'[c] \in {"placing", "raised"}
    BY <1>1, <1>6 DEF PersistIntent, Goes
  <2>3. object[c] = [status |-> "VALIDATED", id |-> NoCall]
    BY <1>1, <2>1 DEF Undisturbed, Registered
  <2>4. ASSUME IntentOf[c] \notin doubtful'
        PROVE  disk'[IntentOf[c]] = [object |-> c, status |-> "VALIDATED", id |-> NoCall]
    <3>1. Written(c)
      BY <1>1, <2>1, <2>4, PersistFacts
    <3>2. disk'[IntentOf[c]] = [object |-> c, status |-> object'[c].status, id |-> object'[c].id]
      BY <1>1, <2>1, <3>1, WrittenRows
    <3> QED
      BY <2>1, <2>3, <3>2
  <2> QED
    BY <1>1, <2>1, <2>2, <2>4 DEF Undisturbed, Registered
<1>7. ASSUME NEW answer \in {"refused", "answered", "raised"}, NEW held \in BOOLEAN,
             PlaceOrder(c, answer, held)
      PROVE  Undisturbed(c)'
  BY <1>1, <1>7 DEF PlaceOrder, memoryVars, tableVars, Undisturbed, Registered
<1>8. ASSUME NEW taken \in BOOLEAN,
             RecordFailed(c, taken) \/ \E b \in {IdFor(c), EmptyId} : RecordAcknowledged(c, b, taken)
      PROVE  Undisturbed(c)'
  <2>1. pc'[c] \in {"failed", "returned", "raised"}
    BY <1>1, <1>8 DEF RecordFailed, RecordAcknowledged, Goes
  <2> QED
    BY <2>1 DEF Undisturbed, Registered
<1> QED
  BY <1>2, <1>3, <1>4, <1>5, <1>6, <1>7, <1>8 DEF CallStep

\* A call in flight is disturbed by no call with its intent, or they race.
LEMMA FreshOther ==
  ASSUME ManagerInv, NEW x \in Call, NEW c \in Call, SameIntent(x, c),
         IntentOf[x] \notin raced, CallStep(c)
  PROVE  Undisturbed(x)'
<1>1. /\ TypeOK /\ Known /\ Undisturbed(x) /\ x # c /\ pc'[x] = pc[x] /\ update' = update
      /\ SameIntent(c, x) /\ IntentOf[c] = IntentOf[x]
  BY CallShape DEF ManagerInv, Fresh, SameIntent
<1>2. CASE CheckDuplicate(c) \/ Wake(c) \/ ReportFailed(c)
  BY <1>1, <1>2 DEF CheckDuplicate, Wake, ReportFailed, memoryVars, tableVars, Undisturbed
<1>3. CASE ~(CheckDuplicate(c) \/ Wake(c) \/ ReportFailed(c))
  <2>1. pc[c] \in InFlight
    BY <1>1, <1>3 DEF CallStep, InsertOrder, Register, PersistIntent, PlaceOrder, RecordFailed,
                      RecordAcknowledged, InFlight, Registered
  <2>2. pc[x] \notin InFlight
    BY <1>1, <2>1 DEF ManagerInv, Races, Active
  <2> QED
    BY <1>1, <2>2 DEF Undisturbed, InFlight, Registered
<1> QED
  BY <1>2, <1>3

\* Calls that raced with no other stay undisturbed.
LEMMA FreshStep ==
  ASSUME ManagerInv, Next
  PROVE  Fresh'
<1>1. TypeOK /\ Placed /\ Owned /\ Known /\ doubtful \subseteq doubtful'
  BY DoubtsStay DEF ManagerInv
<1> SUFFICES ASSUME NEW x \in Call, IntentOf[x] \notin raced'
             PROVE  Undisturbed(x)'
  BY DEF Fresh
<1>2. IntentOf[x] \notin raced /\ Undisturbed(x)
  <2>1. IntentOf[x] \notin raced
    BY <1>1, ActiveStep
  <2> QED
    BY <2>1 DEF ManagerInv, Fresh
<1>3. ASSUME NEW c \in Call, CallStep(c)
      PROVE  Undisturbed(x)'
  <2>1. CASE c = x
    BY <1>2, <1>3, <2>1, FreshOwn
  <2>2. CASE SameIntent(x, c)
    BY <1>2, <1>3, <2>2, FreshOther
  <2>3. CASE IntentOf[x] # IntentOf[c]
    <3>1. disk[IntentOf[x]].id = NoCall => disk'[IntentOf[x]] = disk[IntentOf[x]]
      BY <1>1, <1>3, <2>3, OtherIntent, Ids
    <3>2. update' = update
      BY <1>1, <1>3, CallShape
    <3> QED
      BY <1>1, <1>2, <1>3, <2>3, <3>1, <3>2, OtherIntent, UndisturbedStays
  <2> QED
    BY <2>1, <2>2, <2>3 DEF SameIntent
<1>4. ASSUME NEW b \in BrokerId, NEW status \in Reported, CheckUpdate(b, status)
      PROVE  Undisturbed(x)'
  <2>1. UNCHANGED <<pc, orders, intentOf, object, disk, doubtful>>
    BY <1>4 DEF CheckUpdate, memoryVars, tableVars
  <2>2. PICK c \in Call : intentOf[b] = IntentOf[c] /\ update' = [object |-> c, status |-> status]
    BY <1>1, <1>4, CheckUpdateFacts
  <2>3. pc[x] \in Registered => IntentOf[update'.object] # IntentOf[x]
    BY <1>2, <2>2 DEF Undisturbed
  <2> QED
    BY <1>2, <2>1, <2>3 DEF Undisturbed
<1>5. ASSUME NEW taken \in BOOLEAN, WriteUpdate(taken)
      PROVE  Undisturbed(x)'
  <2>1. pc' = pc /\ orders' = orders /\ intentOf' = intentOf /\ update' = NoReport
    BY <1>1, <1>5, WriteUpdateFacts
  <2>2. CASE pc[x] \in Registered
    <3>1. update.object \in Call /\ IntentOf[update.object] # IntentOf[x]
      BY <1>1, <1>2, <1>5, <2>2, WriteUpdateFacts DEF Undisturbed
    <3>2. object'[x] = object[x] /\ object' \in [Call -> ObjectType]
          /\ object'[update.object].id \in {NoCall, EmptyId, IdFor(update.object)}
      BY <1>1, <1>5, <3>1, WriteUpdateFacts DEF Owned
    <3>3. disk[IntentOf[x]].id = NoCall => disk'[IntentOf[x]] = disk[IntentOf[x]]
      <4>1. Persist(update.object, taken)
        BY <1>5 DEF WriteUpdate
      <4> QED
        BY <1>1, <3>1, <3>2, <4>1, OtherRow, Ids
    <3> QED
      BY <1>1, <1>2, <2>1, <3>2, <3>3, UndisturbedStays
  <2>3. CASE pc[x] \notin Registered
    BY <1>2, <2>1, <2>3 DEF Undisturbed, Registered
  <2> QED
    BY <2>2, <2>3
<1>6. CASE Restart
  <2>1. pc'[x] \in {"idle", "returned", "raised", "crashed"}
    BY <1>1, <1>6, RestartFacts DEF RestartWith
  <2> QED
    BY <2>1 DEF Undisturbed, Registered
<1> QED
  BY <1>3, <1>4, <1>5, <1>6 DEF Next

-----------------------------------------------------------------------------
(***************************************************************************)
(* An order marked FAILED stays so.                                        *)
(***************************************************************************)
\* A row that was just written agrees with its object.
LEMMA MarkedRows ==
  ASSUME TypeOK, Owned, Marked, NEW c \in Call, NEW taken \in BOOLEAN, Persist(c, taken),
         object' \in [Call -> ObjectType], \A d \in Call : d # c => object'[d] = object[d]
  PROVE  \A d \in Call : object'[d].status = "FAILED" /\ disk'[IntentOf[d]].object = d
                         /\ IntentOf[d] \notin doubtful' => disk'[IntentOf[d]].status = "FAILED"
<1> SUFFICES ASSUME NEW d \in Call, object'[d].status = "FAILED", disk'[IntentOf[d]].object = d,
                    IntentOf[d] \notin doubtful'
             PROVE  disk'[IntentOf[d]].status = "FAILED"
  OBVIOUS
<1>1. disk \in [Intent -> RowType] /\ IntentOf[d] \in Intent /\ d # NoCall /\ IntentOf[d] \notin doubtful
  BY Ids, PersistFacts DEF TypeOK, RowType
<1>2. CASE d = c
  <2>1. Written(c)
    BY <1>2, PersistFacts
  <2>2. disk'[IntentOf[c]] = [object |-> c, status |-> object'[c].status, id |-> object'[c].id]
    BY <1>1, <2>1, WrittenRows
  <2> QED
    BY <1>2, <2>2
<1>3. CASE d # c
  <2>1. disk'[IntentOf[d]] = disk[IntentOf[d]]
    <3>1. CASE disk' = disk
      BY <3>1
    <3>2. CASE Written(c)
      <4>1. IntentOf[d] # IntentOf[c]
        <5>1. disk'[IntentOf[c]] = [object |-> c, status |-> object'[c].status, id |-> object'[c].id]
          BY <1>1, <3>2, WrittenRows
        <5> QED
          BY <1>3, <5>1
      <4>2. disk'[IntentOf[d]] \in {disk[IntentOf[d]], NoRow}
        BY <1>1, <3>2, <4>1, WrittenRows
      <4>3. NoRow.object = NoCall
        BY DEF NoRow
      <4> QED
        BY <1>1, <4>2, <4>3
    <3> QED
      BY <3>1, <3>2, PersistFacts
  <2> QED
    BY <1>1, <1>3, <2>1 DEF Marked
<1> QED
  BY <1>2, <1>3

\* What a step of a call leaves of the object a report is being written to.
LEMMA ReportedObject ==
  ASSUME ManagerInv, NEW c \in Call, CallStep(c), update # NoReport,
         IntentOf[update.object] \notin raced'
  PROVE  object'[update.object].status # "FAILED"
<1>1. /\ TypeOK /\ Owned /\ Placed /\ Known /\ update.object \in Call /\ DOMAIN object = Call
      /\ object \in [Call -> ObjectType]
  BY DEF ManagerInv, TypeOK, ObjectType
<1>2. IntentOf[update.object] \notin raced /\ object[update.object].status # "FAILED"
  <2>1. raced \subseteq raced'
    BY <1>1, ActiveStep DEF Next
  <2> QED
    BY <2>1 DEF ManagerInv, Marked
<1>3. object'[update.object] = object[update.object] \/ object'[update.object].status # "FAILED"
  <2>1. ASSUME NEW taken \in BOOLEAN, RecordFailed(c, taken)
        PROVE  object'[update.object] = object[update.object]
    <3>1. pc[c] = "refused"
      BY <2>1 DEF RecordFailed
    <3>2. c # update.object
      BY <1>2, <3>1 DEF ManagerInv, Fresh, Undisturbed, Registered
    <3> QED
      BY <1>1, <2>1, <3>2 DEF RecordFailed
  <2>2. ASSUME InsertOrder(c)
        PROVE  object'[update.object] = object[update.object] \/ object'[update.object].status # "FAILED"
    BY <1>1, <2>2 DEF InsertOrder, ObjectType
  <2>3. ASSUME NEW taken \in BOOLEAN, NEW b \in {IdFor(c), EmptyId}, RecordAcknowledged(c, b, taken)
        PROVE  object'[update.object] = object[update.object] \/ object'[update.object].status # "FAILED"
    BY <1>1, <2>3 DEF RecordAcknowledged, ObjectType
  <2> QED
    BY <2>1, <2>2, <2>3 DEF CallStep, CheckDuplicate, Wake, Register, PersistIntent, PlaceOrder, ReportFailed
<1> QED
  BY <1>2, <1>3

\* Marks stay with objects and rows.
LEMMA MarkedStep ==
  ASSUME ManagerInv, Next
  PROVE  Marked'
<1> DEFINE Rows == \A d \in Call : object[d].status = "FAILED" /\ disk[IntentOf[d]].object = d
                                   /\ IntentOf[d] \notin doubtful => disk[IntentOf[d]].status = "FAILED"
<1>1. /\ TypeOK /\ Owned /\ Placed /\ Known /\ Marked /\ Rows
      /\ object \in [Call -> ObjectType] /\ doubtful \subseteq doubtful'
  BY DoubtsStay DEF ManagerInv, TypeOK, ObjectType, Marked
<1>2. ASSUME NEW c \in Call, CallStep(c)
      PROVE  Marked'
  <2>1. ASSUME NEW taken \in BOOLEAN, PersistIntent(c, taken)
        PROVE  Rows'
    BY <1>1, <2>1, MarkedRows DEF PersistIntent
  <2>2. ASSUME NEW taken \in BOOLEAN, RecordFailed(c, taken)
        PROVE  Rows'
    <3>1. /\ Persist(c, taken) /\ object' \in [Call -> ObjectType]
          /\ \A d \in Call : d # c => object'[d] = object[d]
      BY <1>1, <2>2 DEF RecordFailed, ObjectType, Status, Final
    <3> QED
      BY <1>1, <3>1, MarkedRows
  <2>3. ASSUME NEW taken \in BOOLEAN, NEW b \in {IdFor(c), EmptyId}, RecordAcknowledged(c, b, taken)
        PROVE  Rows'
    <3>1. /\ Persist(c, taken) /\ object' \in [Call -> ObjectType]
          /\ \A d \in Call : d # c => object'[d] = object[d]
      BY <1>1, <2>3, Ids DEF RecordAcknowledged, ObjectType, Status
    <3> QED
      BY <1>1, <3>1, MarkedRows
  <2>4. ASSUME InsertOrder(c)
        PROVE  Rows'
    <3>1. UNCHANGED <<disk, doubtful>>
      BY <2>4 DEF InsertOrder, tableVars
    <3>2. object'[c].status # "FAILED" /\ \A d \in Call : d # c => object'[d] = object[d]
      BY <1>1, <2>4 DEF InsertOrder, ObjectType
    <3> QED
      BY <1>1, <3>1, <3>2
  <2>5. ASSUME UNCHANGED <<object, disk, doubtful>>
        PROVE  Rows'
    BY <1>1, <2>5
  <2>6. Rows'
    BY <1>2, <2>1, <2>2, <2>3, <2>4, <2>5
       DEF CallStep, CheckDuplicate, Wake, Register, PlaceOrder, ReportFailed, tableVars
  <2>7. update' = update
    BY <1>1, <1>2, CallShape
  <2> QED
    BY <1>2, <2>6, <2>7, ReportedObject DEF Marked
<1>3. ASSUME NEW b \in BrokerId, NEW status \in Reported, CheckUpdate(b, status)
      PROVE  Marked'
  <2>1. PICK c \in Call : update' = [object |-> c, status |-> status] /\ object[c].status # "FAILED"
    BY <1>1, <1>3, CheckUpdateFacts
  <2>2. UNCHANGED <<object, disk, doubtful>>
    BY <1>3 DEF CheckUpdate, tableVars
  <2> QED
    BY <1>1, <2>1, <2>2 DEF Marked
<1>4. ASSUME NEW taken \in BOOLEAN, WriteUpdate(taken)
      PROVE  Marked'
  <2>1. Persist(update.object, taken)
    BY <1>4 DEF WriteUpdate
  <2>2. Rows'
    BY <1>1, <1>4, <2>1, WriteUpdateFacts, MarkedRows
  <2> QED
    BY <1>1, <1>4, <2>2, WriteUpdateFacts DEF Marked
<1>5. CASE Restart
  <2>1. disk' = disk /\ update' = NoReport
    BY <1>1, <1>5, RestartFacts DEF RestartWith
  <2>2. ASSUME NEW d \in Call, object'[d].status = "FAILED", disk'[IntentOf[d]].object = d,
               IntentOf[d] \notin doubtful'
        PROVE  disk'[IntentOf[d]].status = "FAILED"
    <3>1. CASE object'[d] = object[d]
      BY <1>1, <2>1, <2>2, <3>1
    <3>2. CASE object'[d] = [status |-> disk[IntentOf[d]].status, id |-> disk[IntentOf[d]].id]
      BY <2>1, <2>2, <3>2
    <3> QED
      BY <1>1, <1>5, <3>1, <3>2, RestartFacts
  <2> QED
    BY <2>1, <2>2 DEF Marked
<1> QED
  BY <1>2, <1>3, <1>4, <1>5 DEF Next

-----------------------------------------------------------------------------
(***************************************************************************)
(* An order at the broker keeps its intent.                                *)
(***************************************************************************)
\* What a step leaves of a held order it is not about.
LEMMA KeptStays ==
  ASSUME NEW x \in Call, Kept(x), update' \in {update, NoReport},
         orders'[IntentOf[x]] = orders[IntentOf[x]], disk'[IntentOf[x]] = disk[IntentOf[x]],
         \A b \in BrokerId : intentOf'[b] = IntentOf[x] => intentOf[b] = IntentOf[x],
         \A d \in Call : SameIntent(x, d) /\ pc'[d] \in InFlight => pc[d] \in InFlight
  PROVE  Kept(x)'
BY DEF Kept, SameIntent, Loads

\* No other call's broker id is the one in a held order's row.
LEMMA KeptId ==
  ASSUME NEW x \in Call \ Twap, Kept(x), NEW c \in Call, c # x
  PROVE  disk[IntentOf[x]].id \notin {EmptyId, IdFor(c)}
<1>1. disk[IntentOf[x]].id \in {NoCall, x}
  BY DEF Kept
<1>2. x \in BrokerId
  BY DEF BrokerId
<1> QED
  BY <1>1, <1>2, Ids

\* An order that reaches the broker, or is acknowledged, is kept.
LEMMA HeldBegins ==
  ASSUME ManagerInv, NEW x \in Call \ Twap, IntentOf[x] \notin raced, IntentOf[x] \notin doubtful',
         CallStep(x), pc[x] \in {"placing", "answered"}
  PROVE  Kept(x)'
<1>1. /\ TypeOK /\ Undisturbed(x) /\ IntentOf[x] \in Intent /\ x # NoCall
      /\ DOMAIN pc = Call /\ DOMAIN intentOf = BrokerId
      /\ object \in [Call -> ObjectType] /\ disk \in [Intent -> RowType]
  BY Ids DEF ManagerInv, Fresh, TypeOK, ObjectType, RowType
<1>2. \A d \in Call : SameIntent(x, d) => pc[d] \notin InFlight
  <2>1. Active(x)
    BY DEF Active, InFlight, Registered
  <2> QED
    BY <2>1 DEF ManagerInv, Races, Active
<1>3. IntentOf[x] \notin doubtful
  BY DoubtsStay DEF ManagerInv, Next
<1>4. /\ orders[IntentOf[x]] = x /\ \A b \in BrokerId : intentOf[b] # IntentOf[x]
      /\ update # NoReport => IntentOf[update.object] # IntentOf[x]
      /\ disk[IntentOf[x]] = [object |-> x, status |-> "VALIDATED", id |-> NoCall]
  BY <1>1, <1>3 DEF Undisturbed, Registered
<1>5. \A d \in Call : SameIntent(x, d) => pc'[d] = pc[d]
  BY <1>1, CallShape DEF SameIntent
<1>6. update' # NoReport => IntentOf[update'.object] # IntentOf[x]
  BY <1>1, <1>4, CallShape
<1>7. CASE pc[x] = "placing"
  <2>1. UNCHANGED <<orders, intentOf, disk>>
    BY <1>7 DEF CallStep, CheckDuplicate, Wake, InsertOrder, Register, PersistIntent, PlaceOrder,
                RecordFailed, ReportFailed, RecordAcknowledged, memoryVars, tableVars
  <2>2. Loads(disk[IntentOf[x]]) /\ disk[IntentOf[x]].object = x /\ disk[IntentOf[x]].id = NoCall
    BY <1>4 DEF Loads, Final
  <2> QED
    BY <1>2, <1>4, <1>5, <1>6, <2>1, <2>2 DEF Kept, Loads
<1>8. CASE pc[x] = "answered"
  <2>1. PICK taken \in BOOLEAN, b \in {IdFor(x), EmptyId} : RecordAcknowledged(x, b, taken)
    BY <1>8 DEF CallStep, CheckDuplicate, Wake, InsertOrder, Register, PersistIntent, PlaceOrder,
                RecordFailed, ReportFailed
  <2>2. /\ object' = [object EXCEPT ![x] = [status |-> "ACKNOWLEDGED", id |-> b]]
        /\ Persist(x, taken) /\ orders' = orders
    BY <2>1 DEF RecordAcknowledged
  <2>3. /\ object' \in [Call -> ObjectType] /\ object'[x].status = "ACKNOWLEDGED" /\ object'[x].id = b
    BY <1>1, <2>2, Ids DEF ObjectType, Status
  <2>4. Written(x) /\ b # EmptyId
    BY <1>1, <2>2, <2>3, PersistFacts
  <2>5. b = x
    BY <2>4, Ids
  <2>6. disk'[IntentOf[x]] = [object |-> x, status |-> object'[x].status, id |-> object'[x].id]
    BY <1>1, <2>3, <2>4, WrittenRows
  <2>7. Loads(disk'[IntentOf[x]]) /\ disk'[IntentOf[x]].object = x /\ disk'[IntentOf[x]].id = x
    BY <2>3, <2>5, <2>6 DEF Loads, Final
  <2>8. intentOf' = [intentOf EXCEPT ![b] = IntentOf[x]]
    BY <2>1, <2>4 DEF RecordAcknowledged
  <2>9. \A d \in BrokerId : intentOf'[d] = IntentOf[x] => d = x
    BY <1>1, <1>4, <2>5, <2>8
  <2> QED
    BY <1>2, <1>4, <1>5, <1>6, <2>2, <2>7, <2>9 DEF Kept, Loads
<1> QED
  BY <1>7, <1>8

\* A call with the intent of a held order is answered, and does nothing to it.
LEMMA KeptFromCall ==
  ASSUME TypeOK, NEW x \in Call, Kept(x), NEW c \in Call, SameIntent(x, c), CallStep(c)
  PROVE  Kept(x)'
<1>1. /\ DOMAIN pc = Call /\ pc[c] \notin InFlight /\ IntentOf[c] = IntentOf[x]
      /\ orders[IntentOf[x]] = x /\ x # NoCall /\ update' = update
      /\ \A d \in Call : d # c => pc'[d] = pc[d]
  BY Ids, CallShape DEF TypeOK, Kept, SameIntent
<1>2. CheckDuplicate(c) \/ Wake(c) \/ ReportFailed(c)
  BY <1>1 DEF CallStep, InsertOrder, Register, PersistIntent, PlaceOrder, RecordFailed,
              RecordAcknowledged, InFlight, Registered
<1>3. pc'[c] \in {"waiting", "returned"}
  BY <1>1, <1>2, CheckFacts DEF Wake, Answer, ReportFailed
<1>4. \A d \in Call : pc'[d] \in InFlight => pc[d] \in InFlight
  BY <1>1, <1>3 DEF InFlight, Registered
<1>5. UNCHANGED <<orders, intentOf, disk>>
  BY <1>2 DEF CheckDuplicate, Wake, ReportFailed, memoryVars, tableVars
<1> QED
  BY <1>1, <1>4, <1>5, KeptStays

\* A report of the broker about a held order leaves it known, or ends it.
LEMMA KeptFromCheck ==
  ASSUME TypeOK, Owned, NEW x \in Call \ Twap, Kept(x), NEW b \in BrokerId, NEW status \in Reported,
         CheckUpdate(b, status), x \in working'
  PROVE  Kept(x)'
<1>1. UNCHANGED <<pc, orders, intentOf, disk>>
  BY DEF CheckUpdate, memoryVars, tableVars
<1>2. PICK c \in Call : /\ c = orders[intentOf[b]] /\ intentOf[b] = IntentOf[c]
                        /\ update' = [object |-> c, status |-> status]
  BY CheckUpdateFacts
<1>3. IntentOf[c] = IntentOf[x] => c = x /\ status \notin Final
  <2> SUFFICES ASSUME IntentOf[c] = IntentOf[x], status \in Final
               PROVE  FALSE
    BY <1>2 DEF Kept
  <2>1. b = x
    BY <1>2 DEF Kept
  <2>2. working' = {d \in working : IdFor(d) # b}
    BY DEF CheckUpdate
  <2> QED
    BY <2>1, <2>2, Ids
<1> QED
  BY <1>1, <1>2, <1>3 DEF Kept, Loads

\* Writing a report that passed the check keeps a held order in the table.
LEMMA KeptFromWrite ==
  ASSUME TypeOK, Owned, Known, NEW x \in Call \ Twap, Kept(x), NEW taken \in BOOLEAN,
         WriteUpdate(taken), IntentOf[x] \notin doubtful'
  PROVE  Kept(x)'
<1> DEFINE c == update.object
<1>1. /\ UNCHANGED <<pc, orders, intentOf>> /\ update' = NoReport /\ c \in Call /\ Persist(c, taken)
      /\ object' \in [Call -> ObjectType] /\ object'[c].status = update.status
      /\ object'[c].id \in {NoCall, EmptyId, IdFor(c)}
      /\ update.status # "NONE"
  BY WriteUpdateFacts DEF WriteUpdate, Owned, Known
<1>2. IntentOf[x] \in Intent /\ x # NoCall /\ disk \in [Intent -> RowType]
  BY Ids DEF TypeOK, RowType
<1>3. CASE IntentOf[c] # IntentOf[x]
  <2>1. disk'[IntentOf[x]] = disk[IntentOf[x]]
    BY <1>1, <1>3, OtherRow, KeptId
  <2> QED
    BY <1>1, <2>1, KeptStays
<1>4. CASE IntentOf[c] = IntentOf[x]
  <2>1. Written(c) /\ object'[c].id # EmptyId
    BY <1>1, <1>4, PersistFacts
  <2>2. disk'[IntentOf[c]] = [object |-> c, status |-> object'[c].status, id |-> object'[c].id]
    BY <1>1, <1>2, <2>1, WrittenRows
  <2>3. CASE c = x
    <3>1. update.status \notin Final
      BY <1>4, WriteUpdateFacts DEF Kept
    <3>2. disk'[IntentOf[x]].object = x /\ Loads(disk'[IntentOf[x]]) /\ disk'[IntentOf[x]].id \in {NoCall, x}
      BY <1>1, <2>1, <2>2, <2>3, <3>1, Ids DEF Loads
    <3>3. /\ orders[IntentOf[x]] = x /\ \A b \in BrokerId : intentOf[b] = IntentOf[x] => b = x
          /\ \A d \in Call : SameIntent(x, d) => pc[d] \notin InFlight
      BY DEF Kept
    <3> QED
      BY <1>1, <3>2, <3>3 DEF Kept, Loads, SameIntent
  <2>4. c = x
    BY <1>4, WriteUpdateFacts DEF Kept
  <2> QED
    BY <2>3, <2>4
<1> QED
  BY <1>3, <1>4

\* A restart that can read the table loads the row of a held order.
LEMMA KeptFromRestart ==
  ASSUME TypeOK, Owned, NEW x \in Call \ Twap, Kept(x), Restart, IntentOf[x] \notin doubtful'
  PROVE  Kept(x)'
<1>1. PICK loaded \in SUBSET Intent : RestartWith(loaded)
  BY RestartFacts
<1>2. /\ IntentOf[x] \in Intent /\ disk' = disk /\ disk[IntentOf[x]].object = x /\ Loads(disk[IntentOf[x]])
      /\ disk[IntentOf[x]].id \in {NoCall, x} /\ update' = NoReport
  BY <1>1, Ids DEF RestartWith, Kept
<1>3. orders'[IntentOf[x]] = x
  BY <1>2, RestartFacts
<1>4. ASSUME NEW b \in BrokerId, intentOf'[b] = IntentOf[x]
      PROVE  b = x
  <2>1. intentOf'[b] # NoCall
    BY <1>2, <1>4, ManagerAssumption
  <2>2. disk[IntentOf[x]].id = b
    BY <1>4, <2>1, RestartFacts
  <2> QED
    BY <1>2, <2>2, Ids
<1>5. \A d \in Call : pc'[d] \notin InFlight
  BY <1>1 DEF RestartWith, InFlight, Registered
<1> QED
  BY <1>2, <1>3, <1>4, <1>5 DEF Kept, Loads

\* Held orders stay kept.
LEMMA HeldStep ==
  ASSUME ManagerInv, Next
  PROVE  HeldKept'
<1>1. TypeOK /\ Placed /\ Owned /\ Known /\ object \in [Call -> ObjectType]
  BY DEF ManagerInv, TypeOK, ObjectType
<1> SUFFICES ASSUME NEW x \in Call, Held(x)'
             PROVE  Kept(x)'
  BY DEF HeldKept
<1>2. /\ x \in Call \ Twap /\ x \in working' /\ IntentOf[x] \notin raced
      /\ IntentOf[x] \notin doubtful /\ IntentOf[x] \notin doubtful' /\ object'[x].status # "FAILED"
  BY <1>1, ActiveStep, DoubtsStay DEF Held
<1>3. x \in working /\ object[x].status # "FAILED" => Kept(x)
  BY <1>2 DEF ManagerInv, HeldKept, Held
<1>4. ASSUME NEW c \in Call, CallStep(c)
      PROVE  Kept(x)'
  <2>1. CASE c = x
    <3>1. CASE pc[x] \in {"placing", "answered"}
      BY <1>2, <1>4, <2>1, <3>1, HeldBegins
    <3>2. CASE ReportFailed(x)
      <4>1. UNCHANGED <<object, orders, intentOf, disk, working, update>>
            /\ pc' = [pc EXCEPT ![x] = "returned"]
        BY <3>2 DEF ReportFailed, tableVars
      <4>2. Kept(x)
        BY <1>2, <1>3, <4>1
      <4>3. \A d \in Call : SameIntent(x, d) => pc'[d] = pc[d]
        BY <1>1, <1>4, <2>1, CallShape DEF SameIntent
      <4> QED
        BY <4>1, <4>2, <4>3, KeptStays
    <3>3. CASE pc[x] \notin {"placing", "answered"} /\ ~ReportFailed(x)
      <4>1. pc[x] \in {"idle", "waiting", "new", "inserted", "registered"}
            \/ \E taken \in BOOLEAN : RecordFailed(x, taken)
        BY <1>4, <2>1, <3>3 DEF CallStep, CheckDuplicate, Wake, InsertOrder, Register, PersistIntent,
                                PlaceOrder, RecordAcknowledged
      <4>2. working' = working
        BY <1>4, <2>1, <3>3 DEF CallStep, CheckDuplicate, Wake, InsertOrder, Register, PersistIntent,
                                PlaceOrder, RecordFailed, RecordAcknowledged
      <4>3. ~\E taken \in BOOLEAN : RecordFailed(x, taken)
        BY <1>1, <1>2 DEF RecordFailed, ObjectType
      <4> QED
        BY <1>1, <1>2, <4>1, <4>2, <4>3 DEF Placed
    <3> QED
      BY <3>1, <3>2, <3>3
  <2>2. CASE SameIntent(x, c)
    <3>1. object'[x] = object[x] /\ (x \in working' <=> x \in working)
      <4>1. x # c /\ DOMAIN object = Call
        BY <1>1, <2>2 DEF SameIntent, TypeOK
      <4> QED
        BY <1>4, <4>1 DEF CallStep, CheckDuplicate, Wake, InsertOrder, Register, PersistIntent,
                          PlaceOrder, RecordFailed, ReportFailed, RecordAcknowledged
    <3> QED
      BY <1>1, <1>2, <1>3, <1>4, <2>2, <3>1, KeptFromCall
  <2>3. CASE IntentOf[x] # IntentOf[c]
    <3>1. Kept(x)
      BY <1>1, <1>2, <1>3, <1>4, <2>3, OtherIntent
    <3>2. disk'[IntentOf[x]] = disk[IntentOf[x]]
      <4>1. disk[IntentOf[x]].id \notin {EmptyId, IdFor(c)}
        BY <1>2, <2>3, <3>1, KeptId
      <4> QED
        BY <1>1, <1>4, <2>3, <4>1, OtherIntent
    <3>3. (\A d \in Call : SameIntent(x, d) => pc'[d] = pc[d]) /\ update' = update
      BY <1>1, <1>4, <2>3, CallShape DEF SameIntent
    <3> QED
      BY <1>1, <1>4, <2>3, <3>1, <3>2, <3>3, OtherIntent, KeptStays
  <2> QED
    BY <2>1, <2>2, <2>3 DEF SameIntent
<1>5. ASSUME NEW b \in BrokerId, NEW status \in Reported, CheckUpdate(b, status)
      PROVE  Kept(x)'
  <2>1. x \in working /\ object' = object
    BY <1>2, <1>5 DEF CheckUpdate
  <2> QED
    BY <1>1, <1>2, <1>3, <1>5, <2>1, KeptFromCheck
<1>6. ASSUME NEW taken \in BOOLEAN, WriteUpdate(taken)
      PROVE  Kept(x)'
  <2>1. x \in working
    BY <1>1, <1>2, <1>6, WriteUpdateFacts
  <2>2. object[x].status # "FAILED"
    <3>1. CASE x = update.object
      BY <1>1, <1>2, <1>6, <3>1, WriteUpdateFacts DEF ManagerInv, Marked
    <3>2. CASE x # update.object
      BY <1>1, <1>2, <1>6, <3>2, WriteUpdateFacts
    <3> QED
      BY <3>1, <3>2
  <2> QED
    BY <1>1, <1>2, <1>3, <1>6, <2>1, <2>2, KeptFromWrite
<1>7. CASE Restart
  <2>1. x \in working
    BY <1>1, <1>2, <1>7, RestartFacts DEF RestartWith
  <2>2. object[x].status # "FAILED"
    <3>1. CASE object'[x] = object[x]
      BY <1>2, <3>1
    <3>2. CASE disk[IntentOf[x]].object = x /\ Loads(disk[IntentOf[x]])
      BY <1>2, <3>2 DEF ManagerInv, Marked, Loads, Final
    <3> QED
      BY <1>1, <1>7, <3>1, <3>2, RestartFacts
  <2> QED
    BY <1>1, <1>2, <1>3, <1>7, <2>1, <2>2, KeptFromRestart
<1> QED
  BY <1>4, <1>5, <1>6, <1>7 DEF Next

-----------------------------------------------------------------------------
(***************************************************************************)
(* The theorems.                                                           *)
(***************************************************************************)
\* The invariant holds of a manager that has seen no call.
LEMMA InitManager == Init => ManagerInv
<1> SUFFICES ASSUME Init
             PROVE  ManagerInv
  OBVIOUS
<1>1. TypeOK
  BY DEF Init, TypeOK, NoRow, Status
<1>2. Placed /\ Known /\ Races /\ OneOrderPerIntent
  BY Ids DEF Init, Placed, Known, Races, Active, InFlight, Registered, OneOrderPerIntent
<1>3. Owned
  BY ManagerAssumption DEF Init, Owned, NoRow
<1>4. Fresh /\ HeldKept
  BY DEF Init, Fresh, Undisturbed, HeldKept, Held, Registered
<1>5. Marked
  BY DEF Init, Marked
<1> QED
  BY <1>1, <1>2, <1>3, <1>4, <1>5 DEF ManagerInv

\* The invariant is kept by every step.
LEMMA NextManager ==
  ASSUME ManagerInv, [Next]_vars
  PROVE  ManagerInv'
<1>1. CASE Next
  <2>1. TypeOK'
    BY <1>1, CallTypes, UpdateTypes, RestartTypes DEF Next, ManagerInv
  <2>2. Placed' /\ Owned' /\ Known'
    BY <1>1, PlacedStep, OwnedStep, KnownStep DEF ManagerInv
  <2>3. Races' /\ OneOrderPerIntent'
    BY <1>1, RacesStep, OneOrderStep DEF ManagerInv
  <2>4. Fresh' /\ Marked' /\ HeldKept'
    BY <1>1, FreshStep, MarkedStep, HeldStep
  <2> QED
    BY <2>1, <2>2, <2>3, <2>4 DEF ManagerInv
<1>2. CASE UNCHANGED vars
  BY <1>2 DEF vars, memoryVars, tableVars, ManagerInv, TypeOK, Placed, Owned, Known, Races, Active,
              OneOrderPerIntent, SameIntent, Fresh, Undisturbed, Marked, HeldKept, Held, Kept, Loads
<1> QED
  BY <1>1, <1>2

\* The order manager's invariant, for any number of calls, intents, refused writes and restarts.
THEOREM ManagerInvariant == Spec => []ManagerInv
BY InitManager, NextManager, PTL DEF Spec

\* Type correctness: in particular ids, rows and the order of a report stay what they should be.
THEOREM ManagerTypeCorrect == Spec => []TypeOK
<1>1. ManagerInv => TypeOK
  BY DEF ManagerInv
<1> QED
  BY <1>1, ManagerInvariant, PTL

\* In one process an intent reaches the broker twice only through the race between the
\* duplicate check and the registration (execute_intent).
THEOREM DuplicatesOnlyByRace == Spec => []OneOrderPerIntent
<1>1. ManagerInv => OneOrderPerIntent
  BY DEF ManagerInv
<1> QED
  BY <1>1, ManagerInvariant, PTL

\* Wherever the process died, a restart finds every order at the broker whose calls did not race
\* and whose row the database took, under an id of its own, and gives back, unless the manager
\* had marked the order FAILED (_persist_order, _load_orders_from_disk).
THEOREM RestartFindsOrders == Spec => RestartKnowsOrders
<1> DEFINE Finds ==
      session' # session =>
        \A c \in working \ Twap :
          IntentOf[c] \notin raced \cup doubtful' /\ object[c].status # "FAILED"
            => orders'[IntentOf[c]] = c
<1>1. ASSUME ManagerInv, [Next]_vars
      PROVE  [Finds]_vars
  <2> SUFFICES ASSUME session' # session, NEW c \in working \ Twap,
                      IntentOf[c] \notin raced \cup doubtful', object[c].status # "FAILED"
               PROVE  orders'[IntentOf[c]] = c
    OBVIOUS
  <2>1. Restart
    BY <1>1 DEF Next, CallStep, CheckDuplicate, Wake, InsertOrder, Register, PersistIntent, PlaceOrder,
                RecordFailed, ReportFailed, RecordAcknowledged, CheckUpdate, WriteUpdate, vars
  <2>2. TypeOK /\ Owned /\ c \in Call \ Twap
    BY <1>1 DEF ManagerInv, TypeOK
  <2>3. IntentOf[c] \notin doubtful
    BY <2>1, <2>2, RestartFacts
  <2>4. Kept(c)
    BY <1>1, <2>2, <2>3 DEF ManagerInv, HeldKept, Held
  <2>5. Kept(c)'
    BY <2>1, <2>2, <2>4, KeptFromRestart
  <2> QED
    BY <2>5 DEF Kept
<1> QED
  BY <1>1, ManagerInvariant, PTL DEF Spec, RestartKnowsOrders
=============================================================================
