------------------------ MODULE ReconciliationProofs -------------------------
(***************************************************************************)
(* Rounds give up no order that the broker showed them, and the two freeze *)
(* flags agree unless an unfreeze crossed a freeze, for any finite sets of *)
(* orders and symbols and however rounds, trading and the operator         *)
(* interleave.                                                             *)
(***************************************************************************)
EXTENDS Reconciliation, FiniteSetTheorems, TLAPS

\* A row belongs to an order the broker has had: it never forgets one.
RowsBooked == \A o \in Order : row[o] # NoRow => broker[o] # "none"

\* While a round carries a copy of the book, the orders that are not in it are missed.
CopyMisses ==
  round \in {"positions", "rows", "judge"} =>
    \A o \in Order : seen.orders[o] = "none" /\ broker[o] # "none" => o \in missed

\* What a round judged stale is an order of the broker that it had missed.
StaleJudged == \A o \in issues.stale : o \in missed /\ broker[o] # "none"

\* Unless an unfreeze crossed a freeze: the service has a reason when it is frozen, the flag
\* follows it, except between the two steps of an unfreeze, and a round sets the flag only
\* while the service is frozen.
FreezeAgrees ==
  ~crossed =>
    /\ reason = frozen
    /\ operator = "idle" => flag = frozen
    /\ operator = "unfrozen" => ~frozen /\ round # "flag"
    /\ round = "flag" => frozen

\* The inductive invariant of reconciliation.
ReconciliationInv ==
  TypeOK /\ RowsBooked /\ CopyMisses /\ StaleJudged /\ StaleIsMissed /\ FreezeAgrees

-----------------------------------------------------------------------------
(***************************************************************************)
(* Every step keeps the types.                                             *)
(***************************************************************************)
SeenType == [orders : [Order -> View], positions : SUBSET Symbol, rows : [Order -> Row]]

Limit == 2 * Cardinality(Order) + Cardinality(Symbol)

IssuesType ==
  [stale : SUBSET Order, count : 0..Limit, ambiguous : BOOLEAN, unrecorded : BOOLEAN]

\* What a round starts from has the right type.
LEMMA EmptyTypes == NothingSeen \in SeenType /\ NoIssues \in IssuesType /\ NoRow \in Row
<1>1. NoRow \in Row
  BY DEF NoRow, Row, RowStatus
<1>2. NothingSeen \in SeenType
  BY <1>1 DEF NothingSeen, SeenType, View
<1>3. Cardinality(Order) \in Nat /\ Cardinality(Symbol) \in Nat
  BY ReconciliationAssumption, FS_CardinalityType
<1>4. NoIssues \in IssuesType
  BY <1>3 DEF NoIssues, IssuesType, Limit
<1> QED
  BY <1>1, <1>2, <1>4

\* A round counts an order at most twice, as stale and as mismatched or unrecorded, and a
\* symbol once.
LEMMA IssuesBounded ==
  ASSUME TypeOK, NEW stale \in {Stale, {}}
  PROVE  Cardinality(stale) + Cardinality(Orphans) + Cardinality(Mismatches)
           + Cardinality(UnrecordedFills) \in 0..Limit
<1>1. /\ stale \in SUBSET Order /\ Mismatches \in SUBSET Order /\ UnrecordedFills \in SUBSET Order
      /\ Orphans \in SUBSET Symbol /\ Mismatches \cap UnrecordedFills = {}
  BY DEF TypeOK, Stale, Mismatches, UnrecordedFills, Orphans
<1>2. IsFiniteSet(Order) /\ IsFiniteSet(Symbol)
  BY ReconciliationAssumption
<1>3. /\ Cardinality(stale) \in Nat /\ Cardinality(stale) <= Cardinality(Order)
      /\ Cardinality(Orphans) \in Nat /\ Cardinality(Orphans) <= Cardinality(Symbol)
      /\ Cardinality(Order) \in Nat /\ Cardinality(Symbol) \in Nat
  BY <1>1, <1>2, FS_Subset, FS_CardinalityType
<1>4. /\ IsFiniteSet(Mismatches) /\ Cardinality(Mismatches) \in Nat
      /\ IsFiniteSet(UnrecordedFills) /\ Cardinality(UnrecordedFills) \in Nat
  BY <1>1, <1>2, FS_Subset, FS_CardinalityType
<1>5. Cardinality(Mismatches \cup UnrecordedFills) = Cardinality(Mismatches) + Cardinality(UnrecordedFills)
  <2>1. Cardinality(Mismatches \cup UnrecordedFills)
          = Cardinality(Mismatches) + Cardinality(UnrecordedFills)
              - Cardinality(Mismatches \cap UnrecordedFills)
    BY <1>4, FS_Union
  <2>2. Cardinality(Mismatches \cap UnrecordedFills) = 0
    BY <1>1, FS_EmptySet
  <2> QED
    BY <1>4, <2>1, <2>2
<1>6. Cardinality(Mismatches \cup UnrecordedFills) <= Cardinality(Order)
  <2>1. Mismatches \cup UnrecordedFills \in SUBSET Order
    BY <1>1
  <2> QED
    BY <1>2, <2>1, FS_Subset
<1> QED
  BY <1>3, <1>4, <1>5, <1>6 DEF Limit

\* Types are kept by trading, rounds and the operator.
LEMMA TypeStep ==
  ASSUME TypeOK, Next
  PROVE  TypeOK'
<1>1. /\ broker \in [Order -> View] /\ row \in [Order -> Row] /\ seen \in SeenType /\ issues \in IssuesType
  BY DEF TypeOK, SeenType, IssuesType, Limit
<1> DEFINE Data == /\ broker' \in [Order -> View] /\ row' \in [Order -> Row]
                   /\ seen' \in SeenType /\ issues' \in IssuesType
           Control == /\ round' \in {"idle", "positions", "rows", "judge", "repair", "freeze", "report", "flag"}
                      /\ frozen' \in BOOLEAN /\ reason' \in BOOLEAN /\ flag' \in BOOLEAN
                      /\ operator' \in {"idle", "unfrozen"}
                      /\ missed' \subseteq Order /\ crossed' \in BOOLEAN
<1>2. ASSUME NEW o \in Order,
             PlaceOrder(o) \/ RecordOrder(o) \/ RecordFill(o)
               \/ \E view \in {"filled", "cancelled"} : BrokerProgress(o, view)
      PROVE  Data /\ Control
  <2>1. CASE PlaceOrder(o)
    BY <1>1, <2>1 DEF PlaceOrder, TypeOK, freezeVars, View
  <2>2. CASE RecordOrder(o)
    BY <1>1, <2>2 DEF RecordOrder, TypeOK, freezeVars, Row, RowStatus
  <2>3. CASE RecordFill(o)
    <3>1. row'[o] = [row[o] EXCEPT !.status = IF broker[o] = "filled" THEN "FILLED" ELSE "CANCELLED",
                                   !.filled = (broker[o] = "filled")]
          /\ \A p \in Order : p # o => row'[p] = row[p]
      BY <1>1, <2>3 DEF RecordFill
    <3>2. row'[o] \in Row
      <4>1. (broker[o] = "filled") \in BOOLEAN
        OBVIOUS
      <4> QED
        BY <1>1, <3>1, <4>1 DEF Row, RowStatus, TerminalStatus
    <3>3. row' \in [Order -> Row]
      BY <1>1, <2>3, <3>1, <3>2 DEF RecordFill
    <3> QED
      BY <1>1, <2>3, <3>3 DEF RecordFill, TypeOK, freezeVars
  <2>4. ASSUME NEW view \in {"filled", "cancelled"}, BrokerProgress(o, view)
        PROVE  Data /\ Control
    BY <1>1, <2>4 DEF BrokerProgress, TypeOK, freezeVars, View
  <2> QED
    BY <1>2, <2>1, <2>2, <2>3, <2>4
<1>3. ASSUME FetchOrders
      PROVE  Data /\ Control
  BY <1>1, <1>3 DEF FetchOrders, TypeOK, freezeVars, tableVars, SeenType
<1>4. ASSUME FetchOrdersFails
      PROVE  Data /\ Control
  BY <1>1, <1>4 DEF FetchOrdersFails, TypeOK, freezeVars, tableVars
<1>5. ASSUME FetchPositions
      PROVE  Data /\ Control
  <2>1. Positions \in SUBSET Symbol
    BY ReconciliationAssumption DEF Positions
  <2> QED
    BY <1>1, <1>5, <2>1 DEF FetchPositions, TypeOK, freezeVars, tableVars, SeenType
<1>6. ASSUME ReadRows
      PROVE  Data /\ Control
  <2>1. NothingSeen.rows \in [Order -> Row]
    BY EmptyTypes DEF SeenType
  <2> QED
    BY <1>1, <1>6, <2>1 DEF ReadRows, TypeOK, freezeVars, tableVars, SeenType
<1>7. ASSUME Judge
      PROVE  Data /\ Control
  <2>1. PICK stale \in {Stale, {}} :
          issues' = [stale |-> stale,
                     count |-> Cardinality(stale) + Cardinality(Orphans)
                               + Cardinality(Mismatches) + Cardinality(UnrecordedFills),
                     ambiguous |-> Orphans # {} \/ Mismatches # {},
                     unrecorded |-> UnrecordedFills # {}]
    BY <1>7 DEF Judge
  <2>2. stale \in SUBSET Order
    BY DEF Stale
  <2>3. Cardinality(stale) + Cardinality(Orphans) + Cardinality(Mismatches)
          + Cardinality(UnrecordedFills) \in 0..Limit
    BY IssuesBounded
  <2>4. issues' \in IssuesType
    BY <2>1, <2>2, <2>3 DEF IssuesType
  <2>5. UNCHANGED <<broker, row, frozen, reason, flag, operator, missed, crossed>>
        /\ round' = "repair" /\ seen' = NothingSeen
    BY <1>7 DEF Judge, tableVars, freezeVars
  <2> QED
    BY <1>1, <2>4, <2>5, EmptyTypes DEF TypeOK
<1>8. ASSUME Repair
      PROVE  Data /\ Control
  <2>1. PICK marked \in SUBSET issues.stale : Mark(marked, "UNKNOWN_STALE")
    BY <1>8 DEF Repair
  <2>2. row' \in [Order -> Row]
    BY <1>1, <2>1 DEF Mark, Row, RowStatus
  <2> QED
    BY <1>1, <1>8, <2>2 DEF Repair, TypeOK, freezeVars
<1>9. ASSUME Freeze
      PROVE  Data /\ Control
  BY <1>1, <1>9 DEF Freeze, FreezeTrading, TypeOK, freezeVars, tableVars
<1>10. ASSUME Report \/ SetFlag
       PROVE  Data /\ Control
  BY <1>1, <1>10, EmptyTypes DEF Report, SetFlag, EndRound, TypeOK, freezeVars, tableVars
<1>11. ASSUME RoundFails \/ RoundAborts
       PROVE  Data /\ Control
  <2>1. CASE RoundFails
    BY <1>1, <2>1, EmptyTypes DEF RoundFails, FreezeTrading, TypeOK, tableVars
  <2>2. CASE RoundAborts
    BY <1>1, <2>2, EmptyTypes DEF RoundAborts, EndRound, TypeOK, freezeVars, tableVars
  <2> QED
    BY <1>11, <2>1, <2>2
<1>12. ASSUME Unfreeze \/ ClearFlag
       PROVE  Data /\ Control
  BY <1>1, <1>12 DEF Unfreeze, ClearFlag, TypeOK, tableVars
<1> HIDE DEF Data, Control
<1>13. Data /\ Control
  BY <1>2, <1>3, <1>4, <1>5, <1>6, <1>7, <1>8, <1>9, <1>10, <1>11, <1>12 DEF Next
<1> QED
  BY <1>13 DEF Data, Control, TypeOK, SeenType, IssuesType, Limit

-----------------------------------------------------------------------------
(***************************************************************************)
(* Every step keeps the orders the broker showed.                          *)
(***************************************************************************)
Watched == RowsBooked /\ CopyMisses /\ StaleJudged /\ StaleIsMissed

\* Trading gives no order up, and an order placed behind a fetch is missed.
LEMMA TradingWatched ==
  ASSUME TypeOK, Watched, NEW o \in Order,
         PlaceOrder(o) \/ RecordOrder(o) \/ RecordFill(o)
           \/ \E view \in {"filled", "cancelled"} : BrokerProgress(o, view)
  PROVE  Watched'
<1>1. /\ broker \in [Order -> View] /\ row \in [Order -> Row]
      /\ issues.stale \subseteq Order /\ issues' = issues /\ round' = round /\ seen' = seen
  BY DEF TypeOK, PlaceOrder, RecordOrder, RecordFill, BrokerProgress
<1>2. CASE PlaceOrder(o)
  <2>1. /\ row' = row /\ missed \subseteq missed'
        /\ broker' = [broker EXCEPT ![o] = "open"]
        /\ round \in {"positions", "rows", "judge"} => o \in missed'
    BY <1>2 DEF PlaceOrder
  <2>2. row[o] = NoRow
    BY <1>2 DEF PlaceOrder, Watched, RowsBooked
  <2>3. RowsBooked'
    BY <1>1, <2>1 DEF Watched, RowsBooked
  <2>4. CopyMisses'
    BY <1>1, <2>1 DEF Watched, CopyMisses
  <2>5. StaleJudged'
    BY <1>1, <2>1 DEF Watched, StaleJudged
  <2>6. StaleIsMissed'
    BY <1>1, <2>1, <2>2 DEF Watched, StaleIsMissed, NoRow
  <2> QED
    BY <2>3, <2>4, <2>5, <2>6 DEF Watched
<1>3. CASE RecordOrder(o) \/ RecordFill(o)
  <2>1. /\ broker' = broker /\ missed' = missed /\ broker[o] # "none"
        /\ \A p \in Order : p # o => row'[p] = row[p]
        /\ row'[o].status # "UNKNOWN_STALE"
    BY <1>1, <1>3 DEF RecordOrder, RecordFill, Watched, RowsBooked, Row
  <2> QED
    BY <1>1, <2>1 DEF Watched, RowsBooked, CopyMisses, StaleJudged, StaleIsMissed
<1>4. ASSUME NEW view \in {"filled", "cancelled"}, BrokerProgress(o, view)
      PROVE  Watched'
  <2>1. /\ row' = row /\ missed' = missed
        /\ \A p \in Order : broker'[p] # "none" <=> broker[p] # "none"
    BY <1>1, <1>4 DEF BrokerProgress
  <2> QED
    BY <1>1, <2>1 DEF Watched, RowsBooked, CopyMisses, StaleJudged, StaleIsMissed
<1> QED
  BY <1>2, <1>3, <1>4

\* What a round judges stale it missed: its row shows that the broker has had the order.
LEMMA JudgeWatched ==
  ASSUME TypeOK, Watched, Judge
  PROVE  Watched'
<1>1. UNCHANGED <<broker, row, missed>> /\ round = "judge" /\ round' = "repair"
      /\ issues'.stale \in {Stale, {}}
  BY DEF Judge, tableVars
<1>2. \A o \in Stale : o \in missed /\ broker[o] # "none"
  <2> SUFFICES ASSUME NEW o \in Stale
               PROVE  o \in missed /\ broker[o] # "none"
    OBVIOUS
  <2>1. o \in Order /\ row[o].status # "NONE" /\ seen.orders[o] = "none"
    BY DEF Stale, Booked
  <2>2. broker[o] # "none"
    BY <2>1 DEF Watched, RowsBooked, NoRow
  <2> QED
    BY <1>1, <2>1, <2>2 DEF Watched, CopyMisses
<1> QED
  BY <1>1, <1>2 DEF Watched, RowsBooked, CopyMisses, StaleJudged, StaleIsMissed

\* The repair marks missed orders only.
LEMMA RepairWatched ==
  ASSUME TypeOK, Watched, Repair
  PROVE  Watched'
<1>1. PICK marked \in SUBSET issues.stale : Mark(marked, "UNKNOWN_STALE")
  BY DEF Repair
<1>2. UNCHANGED <<broker, missed, issues>> /\ round' = "freeze" /\ row \in [Order -> Row]
  BY DEF Repair, TypeOK
<1>3. \A o \in Order : o \in marked \/ row'[o] = row[o]
  BY <1>1 DEF Mark
<1>4. \A o \in marked : o \in missed /\ broker[o] # "none"
  BY DEF Watched, StaleJudged
<1> QED
  BY <1>1, <1>2, <1>3, <1>4 DEF Watched, RowsBooked, CopyMisses, StaleJudged, StaleIsMissed

\* No other step of a round, and no unfreeze, gives an order up.
LEMMA WatchedStep ==
  ASSUME TypeOK, Watched, Next
  PROVE  Watched'
<1>1. ASSUME NEW o \in Order,
             PlaceOrder(o) \/ RecordOrder(o) \/ RecordFill(o)
               \/ \E view \in {"filled", "cancelled"} : BrokerProgress(o, view)
      PROVE  Watched'
  BY <1>1, TradingWatched
<1>2. CASE FetchOrders
  <2>1. seen'.orders = broker /\ UNCHANGED <<broker, row, issues, missed>>
    BY <1>2 DEF FetchOrders, tableVars, TypeOK
  <2> QED
    BY <2>1 DEF Watched, RowsBooked, CopyMisses, StaleJudged, StaleIsMissed
<1>3. CASE FetchOrdersFails
  <2>1. missed' = Order /\ UNCHANGED <<broker, row, issues>> /\ issues.stale \subseteq Order
    BY <1>3 DEF FetchOrdersFails, tableVars, TypeOK
  <2> QED
    BY <2>1 DEF Watched, RowsBooked, CopyMisses, StaleJudged, StaleIsMissed
<1>4. CASE FetchPositions \/ ReadRows
  <2>1. /\ seen'.orders = seen.orders /\ UNCHANGED <<broker, row, issues, missed>>
        /\ round \in {"positions", "rows"}
    BY <1>4 DEF FetchPositions, ReadRows, tableVars, TypeOK
  <2> QED
    BY <2>1 DEF Watched, RowsBooked, CopyMisses, StaleJudged, StaleIsMissed
<1>5. CASE Judge
  BY <1>5, JudgeWatched
<1>6. CASE Repair
  BY <1>6, RepairWatched
<1>7. CASE Freeze \/ Report \/ SetFlag \/ RoundFails \/ RoundAborts
  <2>1. /\ UNCHANGED <<broker, row, missed>> /\ round' \notin {"positions", "rows", "judge"}
        /\ issues' = issues \/ issues' = NoIssues
    BY <1>7 DEF Freeze, Report, SetFlag, RoundFails, RoundAborts, EndRound, tableVars
  <2>2. issues'.stale \subseteq issues.stale
    BY <2>1 DEF NoIssues
  <2> QED
    BY <2>1, <2>2 DEF Watched, RowsBooked, CopyMisses, StaleJudged, StaleIsMissed
<1>8. CASE Unfreeze \/ ClearFlag
  <2>1. UNCHANGED <<broker, row, missed, round, seen, issues>>
    BY <1>8 DEF Unfreeze, ClearFlag, tableVars
  <2> QED
    BY <2>1 DEF Watched, RowsBooked, CopyMisses, StaleJudged, StaleIsMissed
<1> QED
  BY <1>1, <1>2, <1>3, <1>4, <1>5, <1>6, <1>7, <1>8 DEF Next

\* Rounds and unfreezes keep the two flags together, or are seen to cross.
LEMMA FreezeStep ==
  ASSUME TypeOK, FreezeAgrees, Next
  PROVE  FreezeAgrees'
<1>1. /\ frozen \in BOOLEAN /\ reason \in BOOLEAN /\ flag \in BOOLEAN /\ crossed \in BOOLEAN
      /\ operator \in {"idle", "unfrozen"}
  BY DEF TypeOK
<1>2. ASSUME UNCHANGED <<frozen, reason, flag, operator, crossed>>, round' # "flag"
      PROVE  FreezeAgrees'
  BY <1>2 DEF FreezeAgrees
<1>3. ASSUME NEW o \in Order,
             PlaceOrder(o) \/ RecordOrder(o) \/ RecordFill(o)
               \/ \E view \in {"filled", "cancelled"} : BrokerProgress(o, view)
      PROVE  FreezeAgrees'
  BY <1>3 DEF PlaceOrder, RecordOrder, RecordFill, BrokerProgress, freezeVars, FreezeAgrees
<1>4. CASE FetchOrders \/ FetchOrdersFails \/ FetchPositions \/ ReadRows \/ Judge \/ Repair \/ RoundAborts
  BY <1>2, <1>4 DEF FetchOrders, FetchOrdersFails, FetchPositions, ReadRows, Judge, Repair, RoundAborts,
                    EndRound, freezeVars
<1>5. CASE Freeze
  BY <1>1, <1>5 DEF Freeze, FreezeTrading, freezeVars, FreezeAgrees
<1>6. CASE Report
  <2>1. UNCHANGED <<frozen, reason, flag, operator, crossed>> /\ (round' = "flag" => reason)
    BY <1>6 DEF Report, EndRound, freezeVars
  <2> QED
    BY <1>1, <2>1 DEF FreezeAgrees
<1>7. CASE SetFlag
  BY <1>1, <1>7 DEF SetFlag, EndRound, FreezeAgrees
<1>8. CASE RoundFails
  BY <1>1, <1>8 DEF RoundFails, FreezeTrading, FreezeAgrees
<1>9. CASE Unfreeze
  BY <1>1, <1>9 DEF Unfreeze, FreezeAgrees
<1>10. CASE ClearFlag
  BY <1>1, <1>10 DEF ClearFlag, FreezeAgrees
<1> QED
  BY <1>3, <1>4, <1>5, <1>6, <1>7, <1>8, <1>9, <1>10 DEF Next

-----------------------------------------------------------------------------
(***************************************************************************)
(* The theorems.                                                           *)
(***************************************************************************)
\* The invariant of reconciliation, for any orders, symbols and issue limit.
THEOREM ReconciliationInvariant == Spec => []ReconciliationInv
<1>1. Init => ReconciliationInv
  <2> SUFFICES ASSUME Init
               PROVE  ReconciliationInv
    OBVIOUS
  <2>1. TypeOK
    BY EmptyTypes DEF Init, TypeOK, SeenType, IssuesType, Limit, View
  <2>2. RowsBooked /\ CopyMisses /\ StaleJudged /\ StaleIsMissed /\ FreezeAgrees
    BY DEF Init, RowsBooked, CopyMisses, StaleJudged, StaleIsMissed, FreezeAgrees, NoIssues
  <2> QED
    BY <2>1, <2>2 DEF ReconciliationInv
<1>2. ReconciliationInv /\ [Next]_vars => ReconciliationInv'
  <2> SUFFICES ASSUME ReconciliationInv, [Next]_vars
               PROVE  ReconciliationInv'
    OBVIOUS
  <2>1. CASE Next
    BY <2>1, TypeStep, WatchedStep, FreezeStep DEF ReconciliationInv, Watched
  <2>2. CASE UNCHANGED vars
    BY <2>2 DEF vars, ReconciliationInv, TypeOK, RowsBooked, CopyMisses, StaleJudged, StaleIsMissed,
                FreezeAgrees
  <2> QED
    BY <2>1, <2>2
<1> QED
  BY <1>1, <1>2, PTL DEF Spec

\* Type correctness, with the bound on what one round can count: no order twice as mismatched
\* and unrecorded.
THEOREM RoundTypeCorrect == Spec => []TypeOK
<1>1. ReconciliationInv => TypeOK
  BY DEF ReconciliationInv
<1> QED
  BY <1>1, ReconciliationInvariant, PTL

\* No order that the broker showed to every round is marked UNKNOWN_STALE (_detect_stale_orders).
THEOREM ShownNeverGivenUp == Spec => []StaleIsMissed
<1>1. ReconciliationInv => StaleIsMissed
  BY DEF ReconciliationInv
<1> QED
  BY <1>1, ReconciliationInvariant, PTL

\* The flag the program asks follows the service, unless an unfreeze crossed a freeze.
THEOREM FlagsAgree == Spec => []FlagFollowsService
<1>1. ReconciliationInv => FlagFollowsService
  BY DEF ReconciliationInv, FreezeAgrees, FlagFollowsService
<1> QED
  BY <1>1, ReconciliationInvariant, PTL
=============================================================================
