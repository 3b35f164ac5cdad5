------------------------------ MODULE Positions ------------------------------
(***************************************************************************)
(* The trading loop (TradingService.run, _execute_cycle) with              *)
(* PositionService: entries, monitoring and exits with their retries,      *)
(* composed with the idempotency manager and with what execute_order       *)
(* answers (OrderExecution models it in detail).                           *)
(*                                                                         *)
(* One process, too short for idempotency entries to expire.  The loop is  *)
(* one thread; the hard halt, the market and the broker change under it.   *)
(*                                                                         *)
(* Quantities are those of the orders.  Which option contract an order     *)
(* names is left out: the adapters turn BUY into a call and SELL into a    *)
(* put at the strike the order carries, so that an exit need not name the  *)
(* contract its entry bought.                                              *)
(***************************************************************************)
EXTENDS IdempotencyManager, Integers, FiniteSetsExt

CONSTANTS
  Name,            \* instruments
  Bar,             \* signal timestamps: the bar a signal was computed from
  Price,           \* integer parts of prices
  PriceOf,         \* the price a signal of a bar would enter at
  Reason,          \* reasons for an exit: SL_HIT, TARGET_HIT, TRAIL_HIT, MAX_AGE
  ExitRetries      \* EXIT_ORDER_RETRIES

ASSUME PositionsAssumption ==
  /\ PriceOf \in [Bar -> Price]
  /\ Price # {}
  /\ ExitRetries \in Nat \ {0}

\* The idempotency keys of entries and of exits.
EntryKey(n, b) == [side |-> "entry", name |-> n, bar |-> b]
ExitKey(n, p, r) == [side |-> "exit", name |-> n, price |-> p, reason |-> r]
EntryKeys == {EntryKey(n, b) : n \in Name, b \in Bar}
ExitKeys == {ExitKey(n, p, r) : n \in Name, p \in Price, r \in Reason}

ASSUME KeyAssumption == Key = EntryKeys \cup ExitKeys

VARIABLES
  phase,      \* where the loop is in its cycle; "ended" when an exception has left run()
  todo,       \* instruments the phase has yet to visit
  job,        \* the key execute_order is working on, or NoJob
  book,       \* _positions
  halted,     \* the hard halt
  marketOpen, \* _market_status() is OPEN
  order,      \* the broker's view of the order placed under a key
  net,        \* history: executed quantity of an instrument's entries less that of its exits
  asked,      \* history: how often the broker was sent the order of a key
  flat,       \* exit keys whose average price is 0 or the entry price
  drift       \* history: what made an instrument's book and its executed orders diverge

loopVars == <<phase, todo, job>>
vars == <<loopVars, book, halted, marketOpen, order, net, asked, flat, drift, idempotencyVars>>

NoJob == [side |-> "none"]
\* Quantities are in half lots: an order is for Lot, and may be filled by half.
Lot == 2
NoPosition == [qty |-> 0, price |-> CHOOSE p \in Price : TRUE, retries |-> 0]
Drift == {"partial", "flat", "unreported", "reused", "given_up"}
\* An order that is cancelled holds what it has filled, like one the broker leaves alone.
OrderView == {"none", "open", "partial", "filled"}

TypeOK ==
  /\ phase \in {"idle", "enter", "monitor", "ended"} /\ todo \subseteq Name
  /\ job \in Key \cup {NoJob}
  /\ book \in [Name -> [qty : {0, Lot}, price : Price, retries : 0..(ExitRetries - 1)]]
  /\ halted \in BOOLEAN /\ marketOpen \in BOOLEAN
  /\ order \in [Key -> OrderView] /\ net \in [Name -> Int]
  /\ asked \in [Key -> Nat] /\ flat \subseteq ExitKeys
  /\ drift \in [Name -> SUBSET Drift]
  /\ IdempotencyTypeOK

Init ==
  /\ phase = "idle" /\ todo = {} /\ job = NoJob
  /\ book = [n \in Name |-> NoPosition]
  /\ halted = FALSE /\ marketOpen \in BOOLEAN
  /\ order = [k \in Key |-> "none"] /\ net = [n \in Name |-> 0]
  /\ asked = [k \in Key |-> 0] /\ flat = {}
  /\ drift = [n \in Name |-> {}]
  /\ IdempotencyInit

Open(n) == book[n].qty > 0

\* The quantity of an order that is filled.
Filled(view) ==
  CASE view = "filled" -> Lot
    [] view = "partial" -> 1
    [] OTHER -> 0

\* An order of an entry or of an exit was executed for a quantity.
Trade(k, qty) ==
  net' = [net EXCEPT ![k.name] = IF k \in EntryKeys THEN @ + qty ELSE @ - qty]

-----------------------------------------------------------------------------
(***************************************************************************)
(* What the callers of execute_order do with its answer.                   *)
(***************************************************************************)
\* FILLED and PARTIALLY_FILLED are treated alike; "FILLED" stands for both.
Executed(status) == status = "FILLED"

\* enter_trade stores a position of the quantity it asked for.
AfterEntry(n, b, status) ==
  book' = IF Executed(status)
          THEN [book EXCEPT ![n] = [qty |-> Lot, price |-> PriceOf[b], retries |-> 0]]
          ELSE book

\* exit_failed: not filled, or at a price that is unknown or the entry price.
ExitFailed(k, status) == ~Executed(status) \/ k \in flat'

\* Mutant: the attempts are not counted.
CleanupUncounted(n, failed) == IF failed THEN book[n] ELSE NoPosition
\* Mutant: a failed exit drops the position.
CleanupAlways(n, failed) == NoPosition
\* Mutant: one attempt more than configured.
CleanupOneMore(n, failed) ==
  IF failed /\ book[n].retries < ExitRetries THEN [book[n] EXCEPT !.retries = @ + 1] ELSE NoPosition
\* Mutant: only failed exits are cleaned up.
CleanupFailedOnly(n, failed) ==
  CASE ~failed -> book[n]
    [] book[n].retries + 1 < ExitRetries -> [book[n] EXCEPT !.retries = @ + 1]
    [] OTHER -> NoPosition

\* _cleanup_position_entry: a failed exit is counted, and the last one drops the position.
CleanupPositionEntry(n, failed) ==
  IF failed /\ book[n].retries + 1 < ExitRetries
  THEN [book[n] EXCEPT !.retries = @ + 1]
  ELSE NoPosition

AfterExit(k, status) ==
  book' = [book EXCEPT ![k.name] = CleanupPositionEntry(k.name, ExitFailed(k, status))]

GivesUp(k, status) ==
  k \in ExitKeys /\ ExitFailed(k, status) /\ book[k.name].retries + 1 = ExitRetries

AfterAnswer(k, status) ==
  IF k \in EntryKeys THEN AfterEntry(k.name, k.bar, status) ELSE AfterExit(k, status)

Note(n, causes) == drift' = [drift EXCEPT ![n] = @ \cup causes]

-----------------------------------------------------------------------------
(***************************************************************************)
(* execute_order as the loop sees it: a remembered key is answered from    *)
(* the cache, or refused while it is in flight; a new one goes on to the   *)
(* hard-halt gate and the broker.                                          *)
(***************************************************************************)
ExecuteOrder(k) ==
  LET status == IF GetResult(k) = "NONE" THEN "REJECTED" ELSE GetResult(k)
  IN  \/ /\ IsDuplicate(k)
         /\ UNCHANGED <<flat, job, idempotencyVars>>
         /\ AfterAnswer(k, status)
         /\ Note(k.name, (IF Executed(status) THEN {"reused"} ELSE {})
                         \cup (IF GivesUp(k, status) THEN {"given_up"} ELSE {}))
      \/ /\ ~IsDuplicate(k)
         /\ MarkInFlight(k)
         /\ job' = k
         /\ UNCHANGED <<book, flat, drift>>

\* The hard halt was tripped before the order reached the gate; the marker stays.
GateHalted ==
  /\ job # NoJob /\ halted
  /\ job' = NoJob
  /\ UNCHANGED flat
  /\ AfterAnswer(job, "REJECTED")
  /\ Note(job.name, IF GivesUp(job, "REJECTED") THEN {"given_up"} ELSE {})
  /\ UNCHANGED <<phase, todo, halted, marketOpen, order, net, asked, idempotencyVars>>

\* The broker's answer and what became of the order; REJECTED also stands for errors.
Answers(status) ==
  CASE status = "FILLED"    -> {"partial", "filled"}
    [] status = "SUBMITTED" -> {"open"}
    [] OTHER                -> OrderView

Causes(k, status, view) ==
  (IF Executed(status) /\ view = "partial" THEN {"partial"} ELSE {})
  \cup (IF Executed(status) /\ k \in flat' THEN {"flat"} ELSE {})
  \cup (IF ~Executed(status) /\ view # "none" THEN {"unreported"} ELSE {})
  \cup (IF GivesUp(k, status) THEN {"given_up"} ELSE {})

PlaceOrder(status, view) ==
  /\ job # NoJob /\ ~halted
  /\ view \in Answers(status)
  /\ job' = NoJob
  /\ order' = [order EXCEPT ![job] = view]
  /\ Trade(job, Filled(view))
  /\ asked' = [asked EXCEPT ![job] = @ + 1]
  /\ flat' \in IF Executed(status) /\ job \in ExitKeys THEN {flat, flat \cup {job}} ELSE {flat}
  /\ IF Executed(status) THEN ConfirmExecution(job, status) ELSE UNCHANGED idempotencyVars
  /\ AfterAnswer(job, status)
  /\ Note(job.name, Causes(job, status, view))
  /\ UNCHANGED <<phase, todo, halted, marketOpen>>

\* A RuntimeError of the broker adapter: no handler names it, neither below the loop nor in
\* run(), so the loop ends there, with neither the position nor the key cleaned up.
PlaceOrderRaises(view) ==
  /\ job # NoJob /\ ~halted
  /\ view \in Answers("RAISES")
  /\ job' = NoJob /\ phase' = "ended" /\ todo' = {}
  /\ order' = [order EXCEPT ![job] = view]
  /\ Trade(job, Filled(view))
  /\ asked' = [asked EXCEPT ![job] = @ + 1]
  /\ Note(job.name, IF view = "none" THEN {} ELSE {"unreported"})
  /\ UNCHANGED <<book, halted, marketOpen, flat, idempotencyVars>>

-----------------------------------------------------------------------------
(***************************************************************************)
(* The trading loop.                                                       *)
(***************************************************************************)
\* A cycle is skipped as a whole, the monitoring of positions too, while the market is closed
\* or the halt is set.
StartCycle ==
  /\ phase = "idle" /\ marketOpen /\ ~halted
  /\ phase' = "enter" /\ todo' = Name
  /\ UNCHANGED <<job, book, halted, marketOpen, order, net, asked, flat, drift, idempotencyVars>>

\* _evaluate_and_enter_trades: the instrument has a position, or no signal passed the gates.
SkipEntry(n) ==
  /\ phase = "enter" /\ job = NoJob /\ n \in todo
  /\ todo' = todo \ {n}
  /\ UNCHANGED <<phase, job, book, halted, marketOpen, order, net, asked, flat, drift,
                 idempotencyVars>>

EnterTrade(n, b) ==
  /\ phase = "enter" /\ job = NoJob /\ n \in todo
  /\ ~Open(n) /\ ~halted
  /\ todo' = todo \ {n}
  /\ ExecuteOrder(EntryKey(n, b))
  /\ UNCHANGED <<phase, halted, marketOpen, order, net, asked>>

StartMonitoring ==
  /\ phase = "enter" /\ job = NoJob /\ todo = {}
  /\ phase' = "monitor" /\ todo' = {n \in Name : Open(n)}
  /\ UNCHANGED <<job, book, halted, marketOpen, order, net, asked, flat, drift, idempotencyVars>>

\* monitor_positions on one position: no condition holds, or one calls exit_position.
KeepPosition(n) ==
  /\ phase = "monitor" /\ job = NoJob /\ n \in todo
  /\ todo' = todo \ {n}
  /\ UNCHANGED <<phase, job, book, halted, marketOpen, order, net, asked, flat, drift,
                 idempotencyVars>>

ExitPosition(n, r) ==
  /\ phase = "monitor" /\ job = NoJob /\ n \in todo
  /\ todo' = todo \ {n}
  /\ ExecuteOrder(ExitKey(n, book[n].price, r))
  /\ UNCHANGED <<phase, halted, marketOpen, order, net, asked>>

\* The quantity check of the end of the cycle changes nothing: the quantity it compares with
\* comes from _LegacyBrokerShim and is always 0.
EndCycle ==
  /\ phase = "monitor" /\ job = NoJob /\ todo = {}
  /\ phase' = "idle"
  /\ UNCHANGED <<todo, job, book, halted, marketOpen, order, net, asked, flat, drift, idempotencyVars>>

\* An error between two orders that run() names, in the data or in a signal: the rest of the
\* cycle is skipped.
CycleError ==
  /\ phase \in {"enter", "monitor"} /\ job = NoJob
  /\ phase' = "idle" /\ todo' = {}
  /\ UNCHANGED <<job, book, halted, marketOpen, order, net, asked, flat, drift, idempotencyVars>>

LoopStep ==
  \/ StartCycle \/ StartMonitoring \/ EndCycle \/ CycleError
  \/ \E n \in Name : SkipEntry(n) \/ KeepPosition(n)
  \/ \E n \in Name, r \in Reason : ExitPosition(n, r)
  \/ \E n \in Name, b \in Bar : EnterTrade(n, b)
  \/ GateHalted
  \/ \E status \in {"FILLED", "SUBMITTED", "REJECTED"}, view \in OrderView :
       PlaceOrder(status, view)
  \/ \E view \in OrderView : PlaceOrderRaises(view)

-----------------------------------------------------------------------------
\* Other threads trip the hard halt; the operator clears it.
HaltChanges ==
  /\ halted' = ~halted
  /\ UNCHANGED <<loopVars, book, marketOpen, order, net, asked, flat, drift, idempotencyVars>>

\* The market opens and closes.
MarketChanges ==
  /\ marketOpen' = ~marketOpen
  /\ UNCHANGED <<loopVars, book, halted, order, net, asked, flat, drift, idempotencyVars>>

\* The broker works on an order.
BrokerProgress(k, view) ==
  /\ \/ order[k] = "open" /\ view \in {"partial", "filled"}
     \/ order[k] = "partial" /\ view = "filled"
  /\ order' = [order EXCEPT ![k] = view]
  /\ Trade(k, Filled(view) - Filled(order[k]))
  /\ UNCHANGED <<loopVars, book, halted, marketOpen, asked, flat, drift, idempotencyVars>>

Next ==
  \/ LoopStep
  \/ HaltChanges \/ MarketChanges
  \/ \E k \in Key, view \in OrderView : BrokerProgress(k, view)

Spec == Init /\ [][Next]_vars

-----------------------------------------------------------------------------
\* Whatever is retried, under a halt, after an error and in the same bar again, the broker
\* is sent the order of an entry, or of an exit for one reason, at most once.
SentOnce == \A k \in Key : asked[k] <= 1

\* Between two orders the book holds of an instrument what its entries executed less what its
\* exits executed, unless one of five things happened: a partial fill, an exit filled at the
\* entry price or at no price, an order alive or filled behind an error, a cached answer
\* reused, or a position given up (enter_trade, exit_position).
BookMatchesOrders == \A n \in Name : drift[n] = {} /\ job = NoJob => net[n] = book[n].qty

\* The exits of an instrument never execute more than its entries did, with no other cause of
\* divergence than positions given up (exit_position, _cleanup_position_entry).
ExitsCovered == \A n \in Name : drift[n] \subseteq {"given_up"} => net[n] >= 0

\* A position whose exit is attempted again and again leaves the book, sold or given up,
\* through halts, errors, closed markets and changing reasons: no sequence of refusals and
\* cached answers makes the loop try for ever (_cleanup_position_entry).
ExitAttemptsEnd ==
  \A n \in Name : []<><<\E r \in Reason : ExitPosition(n, r)>>_vars => []<>(~Open(n))

(***************************************************************************)
(* What a test says of exits, and the code does not do.                    *)
(***************************************************************************)
\* "a failed exit order must be retried ... up to 3 times before the position is given up
\* on": the broker is asked at least that often.
GivenUpAfterRetries ==
  [][\A n \in Name : "given_up" \in drift'[n] \ drift[n] =>
       MapThenSumSet(LAMBDA k : asked'[k], {k \in ExitKeys : k.name = n}) >= ExitRetries]_vars
=============================================================================
