--------------------------- MODULE Reconciliation ----------------------------
(***************************************************************************)
(* ReconciliationService (core/execution/reconciliation/service.py) and    *)
(* the freeze flag ExecutionService keeps for it: rounds of reconciliation *)
(* against a broker that moves on, while calls record orders and fills     *)
(* and an operator unfreezes trading.                                      *)
(*                                                                         *)
(* A round fetches the broker's orders, then its positions, then reads the *)
(* table, then judges, repairs and freezes, none of it under one lock.     *)
(* An order is for one lot: it is filled or not.  The table's order_id is  *)
(* the client's, never the broker's, so the repair of an unrecorded fill,  *)
(* an UPDATE by the broker's id, changes no row.                           *)
(***************************************************************************)
EXTENDS Naturals, FiniteSets

CONSTANTS Order, Symbol,
          SymbolOf,     \* the symbol of each order
          Unidentified, \* orders recorded without the broker's order id
          IssueLimit    \* more issues than this freeze trading (3 in the code)

ASSUME ReconciliationAssumption ==
  /\ SymbolOf \in [Order -> Symbol] /\ Unidentified \subseteq Order /\ IssueLimit \in Nat
  /\ IsFiniteSet(Order) /\ IsFiniteSet(Symbol)

VARIABLES
  broker,    \* the broker's view of each order
  row,       \* the execution_orders row of each order
  round,     \* where the round is
  seen,      \* the broker orders, positions and rows this round has read
  issues,    \* what this round found
  frozen,    \* _is_frozen of the service
  reason,    \* whether _freeze_reason is set
  flag,      \* _is_reconciliation_frozen of the execution service
  operator,  \* where unfreeze_trading is
  missed,    \* history: orders some round could not see in the broker's book
  crossed    \* history: an unfreeze and a round's freeze have overlapped

vars == <<broker, row, round, seen, issues, frozen, reason, flag, operator, missed, crossed>>

View == {"none", "open", "filled", "cancelled"}
TerminalStatus == {"FILLED", "CANCELLED"}
RowStatus == {"NONE", "OPEN", "UNKNOWN_STALE"} \cup TerminalStatus
Row == [status : RowStatus, filled : BOOLEAN, id : BOOLEAN]
NoRow == [status |-> "NONE", filled |-> FALSE, id |-> FALSE]

NothingSeen ==
  [orders |-> [o \in Order |-> "none"], positions |-> {}, rows |-> [o \in Order |-> NoRow]]
NoIssues == [stale |-> {}, count |-> 0, ambiguous |-> FALSE, unrecorded |-> FALSE]

TypeOK ==
  /\ broker \in [Order -> View] /\ row \in [Order -> Row]
  /\ round \in {"idle", "positions", "rows", "judge", "repair", "freeze", "report", "flag"}
  /\ seen \in [orders : [Order -> View], positions : SUBSET Symbol, rows : [Order -> Row]]
  /\ issues \in [stale : SUBSET Order, count : 0..(2 * Cardinality(Order) + Cardinality(Symbol)),
                 ambiguous : BOOLEAN, unrecorded : BOOLEAN]
  /\ frozen \in BOOLEAN /\ reason \in BOOLEAN /\ flag \in BOOLEAN
  /\ operator \in {"idle", "unfrozen"}
  /\ missed \subseteq Order /\ crossed \in BOOLEAN

Init ==
  /\ broker = [o \in Order |-> "none"] /\ row = [o \in Order |-> NoRow]
  /\ round = "idle" /\ seen = NothingSeen /\ issues = NoIssues
  /\ frozen = FALSE /\ reason = FALSE /\ flag = FALSE
  /\ operator = "idle" /\ missed = {} /\ crossed = FALSE

tableVars == <<broker, row>>
freezeVars == <<frozen, reason, flag>>

-----------------------------------------------------------------------------
(***************************************************************************)
(* Trading.                                                                *)
(***************************************************************************)
\* The broker accepts an order; a round that has already fetched the book misses it.
PlaceOrder(o) ==
  /\ broker[o] = "none"
  /\ broker' = [broker EXCEPT ![o] = "open"]
  /\ missed' = IF round \in {"positions", "rows", "judge"} THEN missed \cup {o} ELSE missed
  /\ UNCHANGED <<row, round, seen, issues, freezeVars, operator, crossed>>

BrokerProgress(o, view) ==
  /\ broker[o] = "open"
  /\ broker' = [broker EXCEPT ![o] = view]
  /\ UNCHANGED <<row, round, seen, issues, freezeVars, operator, missed, crossed>>

\* record_order, with the broker's order id if the caller has it.
RecordOrder(o) ==
  /\ broker[o] # "none" /\ row[o] = NoRow
  /\ row' = [row EXCEPT ![o] = [status |-> "OPEN", filled |-> FALSE, id |-> o \notin Unidentified]]
  /\ UNCHANGED <<broker, round, seen, issues, freezeVars, operator, missed, crossed>>

\* update_order_fill with what the broker says.
RecordFill(o) ==
  /\ row[o] # NoRow /\ broker[o] # "open"
  /\ row' = [row EXCEPT ![o].status = IF broker[o] = "filled" THEN "FILLED" ELSE "CANCELLED",
                        ![o].filled = broker[o] = "filled"]
  /\ UNCHANGED <<broker, round, seen, issues, freezeVars, operator, missed, crossed>>

-----------------------------------------------------------------------------
(***************************************************************************)
(* A round.  A fetch or a read that fails yields an empty list.            *)
(***************************************************************************)
Positions == {SymbolOf[o] : o \in {p \in Order : broker[p] = "filled"}}

\* A broker whose adapter or port has get_order_book; no port of the repository has it yet,
\* the mocks of the tests do.
FetchOrders ==
  /\ round = "idle" /\ round' = "positions"
  /\ seen' = [seen EXCEPT !.orders = broker]
  /\ UNCHANGED <<tableVars, issues, freezeVars, operator, missed, crossed>>

\* The fetch fails, or the broker has no get_order_book.
FetchOrdersFails ==
  /\ round = "idle" /\ round' = "positions"
  /\ missed' = Order
  /\ UNCHANGED <<tableVars, seen, issues, freezeVars, operator, crossed>>

FetchPositions ==
  /\ round = "positions" /\ round' = "rows"
  /\ \E ok \in BOOLEAN : seen' = [seen EXCEPT !.positions = IF ok THEN Positions ELSE {}]
  /\ UNCHANGED <<tableVars, issues, freezeVars, operator, missed, crossed>>

ReadRows ==
  /\ round = "rows" /\ round' = "judge"
  /\ \E ok \in BOOLEAN : seen' = [seen EXCEPT !.rows = IF ok THEN row ELSE NothingSeen.rows]
  /\ UNCHANGED <<tableVars, issues, freezeVars, operator, missed, crossed>>

Known(o) == seen.rows[o].id
Booked(o) == seen.orders[o] # "none"

\* Mutant: an order that is no longer open at the broker counts as not found.
StaleWhenClosed == {o \in Order : /\ row[o].status \notin TerminalStatus \cup {"NONE"} /\ row[o].id
                                  /\ seen.orders[o] # "open"}

\* Pending orders are read again here, after get_all_orders.
Stale == {o \in Order : /\ row[o].status \notin TerminalStatus \cup {"NONE"} /\ row[o].id
                        /\ ~Booked(o)}

Orphans == {s \in seen.positions : ~\E o \in Order : SymbolOf[o] = s /\ seen.rows[o] # NoRow}

Mismatches ==
  {o \in Order : Known(o) /\ Booked(o) /\ seen.rows[o].filled # (seen.orders[o] = "filled")}

UnrecordedFills == {o \in Order : ~Known(o) /\ seen.orders[o] = "filled"}

\* _detect_stale_orders to _detect_unrecorded_fills; the read of the pending orders may fail.
Judge ==
  /\ round = "judge" /\ round' = "repair"
  /\ \E stale \in {Stale, {}} :
       issues' = [stale |-> stale,
                  count |-> Cardinality(stale) + Cardinality(Orphans)
                            + Cardinality(Mismatches) + Cardinality(UnrecordedFills),
                  ambiguous |-> Orphans # {} \/ Mismatches # {},
                  unrecorded |-> UnrecordedFills # {}]
  /\ seen' = NothingSeen
  /\ UNCHANGED <<tableVars, freezeVars, operator, missed, crossed>>

Mark(orders, status) ==
  row' = [o \in Order |-> IF o \in orders THEN [row[o] EXCEPT !.status = status] ELSE row[o]]

\* Mutant: the broker's value of the issue is written as the status.
RepairNotFound ==
  /\ round = "repair" /\ round' = "freeze"
  /\ \E marked \in SUBSET issues.stale : Mark(marked, "NOT_FOUND")
  /\ UNCHANGED <<broker, seen, issues, freezeVars, operator, missed, crossed>>

\* _auto_repair: an order judged stale is marked, whatever its row has become since; a
\* mark SQLite refuses is logged.
Repair ==
  /\ round = "repair" /\ round' = "freeze"
  /\ \E marked \in SUBSET issues.stale : Mark(marked, "UNKNOWN_STALE")
  /\ UNCHANGED <<broker, seen, issues, freezeVars, operator, missed, crossed>>

Ambiguous == issues.count > IssueLimit \/ issues.ambiguous

\* _freeze_trading, which also calls _on_reconciliation_freeze.
FreezeTrading ==
  /\ frozen' = TRUE /\ reason' = TRUE /\ flag' = TRUE
  /\ crossed' = (crossed \/ operator = "unfrozen")

Freeze ==
  /\ round = "freeze" /\ round' = "report"
  /\ IF Ambiguous THEN FreezeTrading ELSE UNCHANGED <<freezeVars, crossed>>
  /\ UNCHANGED <<tableVars, seen, issues, operator, missed>>

EndRound == round' = "idle" /\ issues' = NoIssues

\* The result carries the service's reason when the round is not clean, even one an
\* earlier round has left.
Report ==
  /\ round = "report"
  /\ IF issues.count > 0 /\ reason THEN round' = "flag" /\ UNCHANGED issues ELSE EndRound
  /\ UNCHANGED <<tableVars, seen, freezeVars, operator, missed, crossed>>

\* reconcile_pending_orders sets the flag when the result has a reason.
SetFlag ==
  /\ round = "flag" /\ EndRound
  /\ flag' = TRUE
  /\ UNCHANGED <<tableVars, seen, frozen, reason, operator, missed, crossed>>

\* A quantity in the book that is no number raises in the comparison or, after the stale
\* orders are marked, in the repair of an unrecorded fill: trading is frozen at once.
RoundFails ==
  /\ \/ round = "judge" /\ \E o \in Order : Known(o) /\ Booked(o)
     \/ round = "freeze" /\ issues.unrecorded
  /\ FreezeTrading
  /\ round' = "flag" /\ issues' = NoIssues /\ seen' = NothingSeen
  /\ UNCHANGED <<tableVars, operator, missed>>

\* An error reconcile does not name leaves it with nothing frozen: from the broker's
\* get_positions, from a position that is an object and has no get, from a quantity that
\* is None, in the comparison or in the repair of an unrecorded fill.
RoundAborts ==
  /\ \/ round = "positions"
     \/ round = "judge" /\ (seen.positions # {} \/ \E o \in Order : Known(o) /\ Booked(o))
     \/ round = "freeze" /\ issues.unrecorded
  /\ EndRound /\ seen' = NothingSeen
  /\ UNCHANGED <<tableVars, freezeVars, operator, missed, crossed>>

-----------------------------------------------------------------------------
\* Mutant: the reason of the freeze is kept.
UnfreezeKeepsReason ==
  /\ operator = "idle"
  /\ frozen' = FALSE /\ UNCHANGED reason
  /\ operator' = "unfrozen"
  /\ crossed' = (crossed \/ round = "flag")
  /\ UNCHANGED <<tableVars, round, seen, issues, flag, missed>>

\* unfreeze_trading: the service first, then the flag.
Unfreeze ==
  /\ operator = "idle"
  /\ frozen' = FALSE /\ reason' = FALSE
  /\ operator' = "unfrozen"
  /\ crossed' = (crossed \/ round = "flag")
  /\ UNCHANGED <<tableVars, round, seen, issues, flag, missed>>

ClearFlag ==
  /\ operator = "unfrozen" /\ operator' = "idle"
  /\ flag' = FALSE
  /\ UNCHANGED <<tableVars, round, seen, issues, frozen, reason, missed, crossed>>

Next ==
  \/ \E o \in Order : \/ PlaceOrder(o) \/ RecordOrder(o) \/ RecordFill(o)
                      \/ \E view \in {"filled", "cancelled"} : BrokerProgress(o, view)
  \/ FetchOrders \/ FetchOrdersFails \/ FetchPositions \/ ReadRows
  \/ Judge \/ Repair \/ Freeze \/ Report \/ SetFlag \/ RoundFails \/ RoundAborts
  \/ Unfreeze \/ ClearFlag

Spec == Init /\ [][Next]_vars

-----------------------------------------------------------------------------
(***************************************************************************)
(* An order is marked UNKNOWN_STALE while the broker has it only when a    *)
(* round's fetch failed, or the order was placed behind a fetch: an order  *)
(* the broker showed is never given up (_detect_stale_orders, _auto_repair)*)
(***************************************************************************)
StaleIsMissed ==
  \A o \in Order : row[o].status = "UNKNOWN_STALE" /\ broker[o] # "none" => o \in missed

(***************************************************************************)
(* Between rounds and unfreezes the flag that the rest of the program asks *)
(* (is_trading_frozen) agrees with the service, unless an unfreeze has     *)
(* crossed a freeze: unfreeze_trading clears the two in two steps, and     *)
(* reconcile_pending_orders sets the flag from a reason it read before.    *)
(***************************************************************************)
FlagFollowsService ==
  round = "idle" /\ operator = "idle" /\ ~crossed => flag = frozen
=============================================================================
