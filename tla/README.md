# TLA+ models of the order path

The repository is an automated trading system for Indian index options and equities
(Python; `core/` holds the logic, `index_app/` the application, `infrastructure/` the
adapters). The part where a mistake costs money is the path of one order: the trading loop
or the position service asks `ExecutionService.execute_order` for an order, the service
decides whether this order was placed before, calls the broker once, and records the outcome
in four places. The models in this directory are about that path and what surrounds it (the
positions it opens and closes, the circuit breaker in front of the broker, reconciliation
behind it): what happens when calls overlap, the process dies, entries expire, a queue fills
or an error is raised half way.

## The system

| Part | State it keeps | Operations | What makes it correct |
|---|---|---|---|
| `core/services/execution_service.py` | nothing of its own but a lock; it drives the parts below | `execute_order`, `modify_order`, `cancel_order`, `verify_order_fill`, `reconcile_pending_orders` | one order per key; a truthful answer |
| `core/execution/idempotency/manager.py` | in-flight set, confirmed cache, SQLite table | `is_duplicate`, `mark_in_flight`, `confirm_execution`, `clear_in_flight`, `get_result`, expiry, loading | a remembered key is never executed twice; confirmed keys that were stored survive a restart |
| `core/execution/deterministic_state_machine.py` | one state machine per key, in memory | `create_or_get`, `try_transition_to`, `record_*` | terminal states are final; no second placement while open |
| `core/execution/durable_state.py` | one row per instrument (`symbol_direction_strike_lot`) | `save_execution`, `update_state`, `reconcile_with_broker` | a row that says executed is right |
| `core/wal/journal.py` | one row per instrument, with a status | `append`, `commit`, `fail`, `settle`, `flush`, `close` | statements take effect in order; what can be lost is known |
| `core/db_utils.py` `AsyncDbWriter` | bounded queue, worker thread, stop event | `submit`, `stop`, `_worker` | drains before it stops, but for two races |
| `core/safety_state.py` | hard-halt event, loss counter | `trip_hard_halt`, `clear_hard_halt` | no order while halted |
| `core/execution/broker_ack_validator.py` | none | `validate_order_result` | |
| `core/execution/order_lifecycle.py` | none; works on the state machines | `run_ack_watchdog`, `run_stale_order_timeout` | submitted orders are followed up |
| `core/execution/reconciliation/service.py` | order table, freeze flag and reason | `reconcile`, `_auto_repair`, `_freeze_trading`, `unfreeze_trading` | the freeze and its flag agree; an order the broker shows is not given up |
| `core/execution/order_manager.py` | orders, events and id maps per intent, SQLite table | `execute_intent`, `update_order_status`, loading | a second path with its own duplicate check |
| `core/position_service.py` | open positions, exit attempts | `enter_trade`, `monitor_positions`, `exit_position`, `_cleanup_position_entry` | the book follows the executed orders; an order is placed once; attempts to exit end |
| `core/services/circuit_breaker_service.py` | per key: state, counters, timestamps, next attempt | `call_with_key`, `reset`, `force_open`, `force_close`, `update_config` | waits longer each time, and recovers |
| `core/operating_mode.py` | mode | gates | |
| `index_app/domains/trading/` | wiring, loop | a cycle enters, monitors and reconciles, unless halted or the market is closed | |

Interaction. `execute_order` holds the service's lock from the journal append to the
in-flight marker and releases it before it consults the state machine and calls the broker.
The trading loop, position threads and web handlers call it concurrently. The journal hands
its SQL to the worker thread. Each cycle of the trading loop calls `reconcile_pending_orders`,
which asks the broker about the durable rows. After a crash a new process reads the
idempotency table; state machines, positions, the halt and queued journal statements are
gone. The broker adapter makes each of its calls through a circuit breaker, one per operation.
`reconcile_pending_orders` also runs a round of the reconciliation service, which may set a
freeze flag in the execution service. `OrderManager` is not wired into the program.

What is hard here, with the line where it bites and the property that watches it, is listed
in `PROJECT.json` under `hazards`.

## Modules

`IdempotencyManager` models `manager.py`. The cache is a sequence in the dict's insertion
order, so that eviction takes the oldest entry. The table has one status per key. A write or a
load that SQLite refuses (`Refused`) is logged and swallowed, as the code does: the key is then
in flight or confirmed in memory only (`unsaved` records the latter). Clock time is abstracted
to two events: a confirmed entry is older than 24 hours (`ExpireConfirmed`), a marker is older
than one hour (`ExpireInFlight`). `LoadFromPersistence` loads confirmed rows only, in any
order, and the results come back as `"STRING"`: `json.dumps(..., default=str)` of an
`OrderResult` reads back as a string. `gen` is a history variable that counts how often the
manager ceased to remember a key.

`ExecutionStateMachine` holds the transition table and the `record_*` operations as operators
from state to state. Quantities are one bit: whether a fill completes the order. The
persistence callback is left out: it updates the durable store under the idempotency key,
where no row has that name, and it swallows its errors.

`WalRows` says what each SQL statement of the journal does to the rows. `SyncJournal` is the
abstract specification: every call takes effect at once. `WalJournal` is the code: threads
inside `submit()` (test of the stop event, then `put_nowait`), a bounded queue, the worker
with the statement in its hand, the synchronous fallback and its error (`FallbackExecute`,
`FallbackRaises`), and statements that SQLite refuses. The worker's `get(timeout)` raising
Empty and its test of the stop event are two steps (`WorkerEmpty`, `WorkerTest`), and `stop()`
is three: the event (`StopSet`), the sentinel (`StopPut`), the join with its timeout and the
closing of the connection, which may be under the worker's hands (`StopJoined`). `late` and
`gap` record the two ways in which a statement can be left behind. The refinement mapping shows
`SyncJournal` the rows as they will be once everything that waits (`Pending`: hand, then queue)
is written: `Replay`, a recursive function along the waiting statements.

`OrderExecution` composes the manager, the machines and the journal rows with the durable
store, the halt and the broker. Its actions, in the order of the code:

| Action | Code |
|---|---|
| `AdmitDuplicate`, `AdmitNew`, `AdmitRaises` | the section under the lock; an error of the journal in it |
| `GateHalted`, `GateInProgress`, `GateOpen` | `_execute_with_retries` before the attempt |
| `PlaceOrder`, `PlaceOrderFails`, `PlaceOrderRaises` | the broker call, its answer and the transitions after it; an error the handler of `_execute_with_retries` names; one nobody names |
| `Confirm`, `ReturnExecuted` | the branch for FILLED and PARTIALLY_FILLED, in two steps because calls, reconciliation and a crash may come between the confirmation and the update of the durable row |
| `ReturnFailed` | every other status |
| `RecordingRaises` | an SQLite error of the journal while the outcome is recorded, which no handler names |
| `WalWrite` | the journal's worker thread |
| `TripHardHalt`, `ClearHardHalt` | `safety_state.py` |
| `BrokerProgress` | the broker, external |
| `ReconcileRead`, `ReconcileQuery`, `ReconcileQueryRaises`, `ReconcileWrite` | `reconcile_with_broker`: the rows are read at once; then, row by row, the broker is asked, or its port raises, and the row is updated |
| `Expire`, `Crash` | `_cleanup`; the end of the process and the next `__init__` |

`order[c]` is what the broker holds for call `c`, and may differ from `answer[c]`, what the
service was told: an error or a refused answer leaves open whether the broker has the order.
`"cancelled"` stands for every end without a fill. The durable store swallows SQLite errors
(`Store`), and its updates find nothing when the row was never inserted. The handler of
`execute_order` that clears the marker (510-532) is left out: in the wired program nothing
inside the `try` raises an error it names, since `_execute_with_retries` and the stores catch
their own and the journal raises `sqlite3.Error` only. `OrderExecution` uses the journal in its
regular mode (a queue with room); what happens at a full queue or a stop is in `WalJournal`.

`Positions` puts the trading loop and `position_service.py` on top of the idempotency manager
(it EXTENDS `IdempotencyManager`, whose keys are here the entry keys, made of instrument and
bar, and the exit keys, made of instrument, entry price and reason). `ExecuteOrder` is
`execute_order` as the loop sees it: a cached answer, a refusal, or a job that passes the halt
gate (`GateHalted`) and meets the broker (`PlaceOrder`, `PlaceOrderRaises`). The loop is one
thread with a phase and the instruments it has yet to visit: `StartCycle` (market open, no
halt), `EnterTrade` or `SkipEntry`, `StartMonitoring`, `ExitPosition` or `KeepPosition`,
`EndCycle`. An error that `run()` names ends the cycle (`CycleError`); the adapter's
`RuntimeError`, which nobody names, ends the loop, in the middle of an entry or an exit
(`PlaceOrderRaises`, phase `"ended"`). Quantities are half lots, so that a partial fill differs
from a fill. `order`, `net`, `asked` and `drift` are the broker's side: what became of each
order, what the entries of an instrument executed less what its exits did, how often a key was
sent, and why the book may differ from the executed orders. `net` counts orders, not contracts:
see the conversion below, under "What else the models and the code showed".

`CircuitBreaker` models one breaker. `call_with_key` holds the service's lock while the
protected function runs, hence `StartCall` and `FinishCall` with only `Tick` and `Turn` in
between; `Reset` (also `force_close`), `ForceOpen` and `UpdateConfig` are the operator's. Time
is relative: ticks until the next attempt, and how many recorded outcomes have each age.
`Powers` is the exponential of the back-off, as a recursive function, so that it can be proved
about.

`OrderManager` models `order_manager.py`: `CheckDuplicate` under the lock, the three writes of
phase 1 without it (`InsertOrder`, `Register`, `PersistIntent`), the gateway (`PlaceOrder`),
the FAILED answer (`RecordFailed`, then `ReportFailed` to those who wait) and phase 3
(`RecordAcknowledged`, with an id or an empty one), `Wake` of a waiting duplicate,
`update_order_status` in its two steps, the check without the lock and the write under it
(`CheckUpdate`, `WriteUpdate`), and `Restart` with what `_load_orders_from_disk` finds.
`Persist` is INSERT OR REPLACE on a table whose broker id is UNIQUE; a row the database refuses
is lost with an error that is swallowed (OSError) or ends the call (`sqlite3.Error`), and
`doubtful` names the intents whose row, or load, was refused or has an empty id.

`Reconciliation` models a round step by step (`FetchOrders`, `FetchPositions`, `ReadRows`,
`Judge`, `Repair`, `Freeze`, `Report`, `SetFlag`, `RoundFails` for the handler that freezes,
and `RoundAborts` for an error that no handler names, after which nothing is frozen), because
orders are placed, filled and recorded between the steps, and `unfreeze_trading` in its two
steps (`Unfreeze`, `ClearFlag`).

`OrderLifecycle` takes the machine operators of `ExecutionStateMachine` apart again: the
recording of a broker answer is one step per locked operation, and the acknowledgement
watchdog and the stale-order timeout run between them.

`MCOrderExecution`, `MCPositions`, `MCCircuitBreaker`, `MCOrderManager` and
`MCReconciliation` give the small instances. The proofs are in `IdempotencyProofs` (lemmas
about the manager, used by the next three), `OrderExecutionProofs`, `OrderTruthProofs`,
`PositionsProofs`, `WalJournalProofs`, `CircuitBreakerProofs`, `OrderManagerProofs` and
`ReconciliationProofs`.

Assumptions of the models, all read off the code:

- duplicate prevention is enabled (its default) and no operating-mode manager is injected;
- the service runs with the wiring of `container.py`, which gives it a journal; the constant
  `WalJournal` also allows a service built without one, as the constructor's default does;
- the marker of a call that is still executing does not expire: an hour is far beyond every
  timeout of a broker call;
- calls for one instrument share a durable row and a journal row, whatever their keys;
- `Positions` is one process, shorter than the hour after which markers expire; positions are
  kept in memory only;
- the gates before an entry (risk, margin, liquidity, mandates) are one choice: a signal
  passes or not. A price is its integer part, all the exit key has of it;
- the breaker has the time-based window, which every configuration of the program selects;
- one thread reports the broker's statuses to `OrderManager` (nothing in the repository calls
  `update_order_status`); two reporters between check and write could undo a final status;
- rows of the reconciliation table carry the client's order id, as `record_order` writes it.

## Runs

| Run | Question | Result |
|---|---|---|
| `order_core` | one order per key while it is remembered, truthful answers and rows, through a crash, evictions and an error | holds, 2,807,452 states |
| `order_journal` | exclusion per key up to the confirmation, the machine's gate, commit only what was executed, what a restart knows again, with errors, refused writes and the journal | holds, 1,975,228 states |
| `wal_async` | the queueing journal refines the synchronous one; writes land | holds, 206,454 states |
| `wal_stop` | full queue, refused statements, stop() step by step during calls: what gets a row, what is left behind | holds, 315,615 states |
| `positions` | no order sent twice under one key; book and executed orders agree but for five named causes; exits are covered by entries; attempts to exit end | holds, 536,816 states |
| `circuit_breaker` | half-open always admits a trial; back-off grows; recovery | holds, 90,208 states |
| `order_manager` | when an intent is placed twice; what a restart finds; every caller answered | holds, 835,221 states |
| `reconciliation` | an order the broker showed is not given up; the flag follows the service | holds, 203,528 states |
| `restart_duplicate` | the marker prevents a duplicate after a restart | violated |
| `breaker_stuck` | the breaker recovers, in the configuration the program ships | violated |
| `exit_retries` | a position is given up only after its exit was tried as often as configured | violated |
| `submitted_forgotten` | the watchdog updates the machine of a submitted order | violated |

The violated ones state what a comment, a test or a document of the repository says;
`findings` in `PROJECT.json` quotes the line and describes the counterexample. Several passing
properties name their exceptions: `BookMatchesOrders` and `ExitsCovered` (the causes in
`Drift`), `StopDrains` and `AppendedIsPersisted` (`late` and `gap`), `RestartKeepsConfirmed`
(`unsaved`, a refused load), `OneOrderPerIntent` (`raced`), `RestartKnowsOrders` (`raced`,
`doubtful`, shared TWAP ids, orders marked FAILED), `StaleIsMissed` (`missed`) and
`FlagFollowsService` (`crossed`). The exceptions are behaviours of the code, and the properties
say there are no others; of `StopDrains` also that each of them does leave a statement behind.

`OneExecutionPerKey` covers a call from its admission up to the confirmation. The durable row
is written after that, and another call, answered from the cache, may run meanwhile.
`DurableTruth` speaks of instruments: it accepts that a repair, read off one order, reaches the
row of the next call for the same instrument.

`breaker_stuck` checks the property `circuit_breaker` also checks, under the configuration of
`container.py`: three successes needed, two trial calls allowed. No half-open request is ever
returned to the count, and time leads out of OPEN only, so the breaker stays half-open.

Each property of a passing run has a mutant: an operator marked "Mutant" beside the
definition it alters, which changes it the way a plausible mistake in the code would
(`mutants` in `PROJECT.json`). With the mutant in place of the definition, TLC finds the
property violated.

Bounds. `order_core` has two calls with one key and a third with another key and the same
instrument: two are needed for every race between retries, the third for the rows that keys
share and for eviction, with a cache of one entry. Eviction is how a key is forgotten there;
`order_journal` trades the third call for an expiry, the journal and a refused write of the
idempotency table; both have one error of the durable store or the journal. One
crash and one expiry are enough for each property, which speaks of two calls on either side
of one such event; a further crash would repeat the first. The journal's queue holds up to
four statements in `wal_async` (two threads with two calls each never fill it, which is what
the refinement is about) and two in `wal_stop` (they do fill it). `c1` and `c2` are
interchangeable in `order_core`, which has no liveness property, so the symmetry is sound there.

`positions` has one instrument, since instruments share nothing but the halt and the phase of
the loop; two bars with one price, so that the exit key of a second position repeats that of
the first; two reasons, so that an exit can change its key between attempts; and two attempts.
Its history needs no bound: keys are finite and each is sent once. The cache holds every key
there, as the code's 1000 entries hold those of a day; `order_core` is about eviction. No write
of the table is refused there, since one process never reads it. `circuit_breaker` stops its
counters where they no longer matter (`CapAssumption` says so of every configuration), has at
most three calls in a tick and two commands of the operator, enough to open, change the
configuration and reset. Its two configurations have a limit on trial calls that is just
reachable, and none. `order_manager` has two calls with one intent and one with another, two
TWAP orders, one restart and one refusal, and a broker that reports FILLED; its inductive
invariant was also checked with reports of PARTIAL_FILL and FAILED. `reconciliation` has two
orders, one with and one without a broker id, and freezes at two issues instead of four; rounds
and unfreezes are unbounded.

Deadlock is checked in `positions`, `circuit_breaker` and `reconciliation`, which run for
ever. In the others everything may be at rest after the bounded number of calls.

Fairness. `wal_async`: the worker is a live thread, and a thread inside `submit()` is never
blocked. `circuit_breaker`: the bot keeps calling, a protected call ends (the adapter sets
time-outs), time passes; nothing is assumed of the dependency, the property has it healthy from
some time on. `order_manager`: of the calls that have started, some call that can go on does;
that a call is made is not assumed. `order_core`, `order_journal`, `wal_stop`, `positions` and
`reconciliation` assume nothing: their properties are safety properties, and `ExitAttemptsEnd`
carries its own hypothesis, that exits of the instrument are attempted again and again. No
fairness of the trading loop would be justified, since it skips cycles while halted or while
the market is closed, and may end. `submitted_forgotten`: the watchdog looks at every machine
in every cycle and a call records its answer, so the counterexample is not a matter of anybody
being slow. Nothing is assumed of the broker anywhere.

## Proofs

TLAPS checks the theorems below for every value of the constants that their modules' `ASSUME`s
allow: any number of calls, keys, intents, threads, instruments, crashes and restarts, any size
of cache and queue. Every safety invariant and every safety action property that a passing run
checks is the statement of a theorem. Hypotheses beyond the modules' assumptions stand in the
theorem itself and are named here.

### The order path

`OrderExecutionProofs` (from `ExecutionAssumption` and `CacheAssumption`):

- `ExecutionInvariant`: `Spec => []ExecutionInv`;
- `TypeCorrect`, `AtMostOneOrder`, `ExclusiveExecution`, `NoReplacement`: the type invariant
  and the three safety properties about duplicate orders;
- `RestartKeeps`: the action property that a restart whose load is not refused forgets no
  confirmed key but those whose row the table refused (`unsaved`).

`OneOrderPerRemembering` is not inductive: it says that two calls at the broker with one key
have different tickets (the value of `gen` at admission), and nothing in it prevents a third
call from being admitted with the ticket of an earlier one. The strengthening has four parts.
`MarkerHeld`: an executing call's key is in flight, which gives exclusion per key.
`TicketsCurrent`: a call whose ticket is the current `gen` still has its key remembered, so no
admission can draw the same ticket; this is where confirming must remember the key in the same
step in which it removes the marker. `GatesCurrent`: a call let through in this process left a
state machine, which gives `NoReplaceWhileMachineOpen`. `ConfirmedStored`: every cached key has
a confirmed row, unless that row was refused, and no key is cached twice, which the restart and
the deletion from the cache need. `TicketsDistinct` then gives the property itself.

The proof treats the manager's operations one by one (in `IdempotencyProofs`,
`MarkInFlightKeeps` and the others show that each keeps the manager's invariant and counts
what it forgets), then the steps of `Next`, grouped by how they move a call (`StepKinds`) or a
machine (`MachineKinds`).

`OrderTruthProofs` proves what the service tells and records: `CallersToldTruth`
(`CallerTold`), `DurableRowsTrue` (`DurableTruth`) and `CommitsExecuted`
(`CommittedIsExecuted`), from `RecordsInvariant`. None of the three is inductive, because each
record is written from something that was read, cached or queued earlier. `RecordsInv` adds
those intermediate copies: an answer that reports an execution belongs to an executed order
(`AnswersTrue`); a result in the cache or a confirmed row of the table belongs to a key with an
executed order (`ResultsTrue`), which is how a caller is told the truth after a restart; a
durable row, and a row the reconciliation has read, names a call of its own instrument, and a
repair between `ReconcileQuery` and `ReconcileWrite` was read off an executed order
(`RepairsTrue`); every commit still in the
journal's queue is for an executed order (`CommitsTrue`). All of this is stable because an
executed order stays executed: `BrokerProgress` never takes a fill back.

### Positions

`PositionsProofs`, on top of `IdempotencyProofs`: `LoopTypeCorrect`, `BookAgrees`
(`BookMatchesOrders`) and `ExitsAlwaysCovered` (`ExitsCovered`), from `BookInvariant`. The
invariant says more than the two properties: the executed orders cover the book as long as
positions were at most given up, also while an order is under way (`NetCovers`); an order that
is alive or filled in part is recorded as a cause of divergence, so that its later fill is
covered (`AliveIsDrift`); and the loop enters only what is not in the book and exits only what
is, including the instruments it has yet to visit in this cycle (`JobFits`).

`OrdersSentOnce` (`SentOnce`) has the hypothesis `Cardinality(Key) <= CacheSize`: the cache has
room for every key. Without it an evicted key is forgotten and may be sent again, which
`OneOrderPerRemembering` accounts for. The code's cache holds 1000 entries, more than a day's
keys. The invariant says that a key that was sent is remembered, in flight or cached, and that
the key being worked on is in flight and unsent; that no confirmation evicts needs the
cardinality of a sequence without repetitions.

### The journal

`WalJournalProofs`: `JournalTypeCorrect`, `AppendsPersist` (`AppendedIsPersisted`) and
`StopLosesOnlyRaces` (`StopDrains`), from `WalInvariant`. Its parts: a thread inside a call
holds a statement; an appended intent is on disk or its append is still waiting, as long as the
writer met no error (`AppendsLand`); the sentinel is put by `stop()` only, stands behind every
statement that is not late, and a worker that left, or is about to, leaves an empty queue
unless something came late or in the gap (`SentinelLast`); and what came late or in the gap is
still there, behind the sentinel a running worker has yet to meet (`RacesLeave`), which gives
the other direction of `StopDrains`.

`JournalRefines` is the refinement:
`Spec /\ []Undisturbed /\ [][NeverFull]_vars => ImplementsSyncJournal`. The hypotheses are
the ones under which the claim is true of the code: SQLite refuses no statement and the writer
is not stopped (`Undisturbed`), and `put_nowait` finds room (`NeverFull`); otherwise the
fallback overtakes the queue. They are hypotheses about the behaviour and not about the
constants, so the theorem speaks of every queue size. Each step maps to one step of
`SyncJournal` (`SubmitPut`) or to a stutter (all others, in particular the worker taking and
writing a statement). The stutters need facts about `Replay` on a sequence of any length: equal
sequences have equal replays, the last statement is applied last, and the first one may be
applied beforehand. They are proved by the least-number principle: were one of them false,
there would be a least length at which it fails.

### The circuit breaker

`CircuitBreakerProofs` proves four things of the breaker.

`NeverWedged` (`HalfOpenAdmits`): a half-open breaker lets the next trial call
through, for every set of configurations in which each limit on trial calls is no lower than
each success threshold (`LimitsReachable`, a hypothesis of the theorem and not an assumption
of the module: the program's own configuration violates it, which is what `breaker_stuck`
shows). The threshold of every configuration counts, because `update_config` may install
another one while trials are being counted. `HalfOpenAdmits` is not inductive. The
strengthening `TrialsCounted` says that each counted request is also a counted success, and
that the successes are below the threshold of some configuration, the one under which the
last of them was counted, or the breaker would have closed. Only `_on_success` and the entry
into HALF_OPEN move the two counters.

`BreakerTypeCorrect` and `OpenHasDeadline` (`OpenHasAttempt`) are proved together: an open
breaker has a next attempt, which lies within the cap.

`WaitsGrow` (`BackoffGrows`): no wait is shorter than the one before it, until the breaker
closes. Its hypothesis `SameBackoff` says that all configurations have one timeout and one
base: `update_config` may otherwise shorten the wait. The invariant
`LastCounted` ties the last delay to the counted openings. That the powers exist, satisfy their
recurrence and grow is proved by the least-number principle, and with `CapAssumption` that
stopping the counter of openings at its bound loses nothing.

### The order manager

`OrderManagerProofs`: `ManagerTypeCorrect`, `DuplicatesOnlyByRace` (`OneOrderPerIntent`) and
the action property `RestartFindsOrders` (`RestartKnowsOrders`), from `ManagerInvariant`. Two
lines of argument. For duplicates: two calls with one intent that have sent their order, or may
still do so, in one process, have raced (`Races`), since a call past the registration is known
in memory (`Known`) and a later one is turned away. For restarts: a call that raced with no
other finds its intent untouched between its steps (`Fresh`), so once the broker has its order,
memory and table name it, the row is one that `_load_orders_from_disk` loads, and no call with
the same intent is under way (`HeldKept`), unless the row was refused or the manager marked the
order FAILED; `Marked` says that the row of an order marked FAILED says so too. `Owned` keeps
the table's UNIQUE broker ids from deleting such a row: a row bears the id of its own order,
and only TWAP orders and orders acknowledged with an empty id share one.

### Reconciliation

`ReconciliationProofs`: `RoundTypeCorrect` (with the bound on what one round can count, from
the cardinalities of its sets of issues), `ShownNeverGivenUp` (`StaleIsMissed`) and `FlagsAgree`
(`FlagFollowsService`), from `ReconciliationInvariant`. A row is given up two steps after the
book was read, so the invariant follows the copy: while a round carries one, the orders that
are not in it are missed (`CopyMisses`), and what was judged stale is an order of the broker
that was missed (`StaleJudged`); a row exists only for an order the broker has had
(`RowsBooked`). `FreezeAgrees` describes the two flags between the steps of a freeze and of an
unfreeze.

### Only model-checked

Liveness is out of the prover's reach: `WritesLand`, `ExitAttemptsEnd`, `RecoversWhenHealthy`
and `CallersAnswered` stay with TLC. The four violated properties are refuted by TLC's
counterexamples. Each inductive invariant was also checked by TLC on the run's instance before
it was proved.

## What else the models and the code showed

Found while modelling, and not the subject of a run:

- The journal. A statement whose `submit()` tested the stop event before `stop()` set it can be
  queued behind the sentinel and is lost (`db_utils.py:134`). So can one that is put between
  the worker's Empty and its test of the stop event, although the event is set after it
  (`db_utils.py:250`): "writes submitted just before stop() are never lost due to a race", says
  the comment at 241. When the join times out, `stop()` closes the connection under the worker
  (`db_utils.py:177`), whose further statements are counted as errors. At a full queue the
  synchronous fallback overtakes statements that are still queued (`journal.py:194`, against
  the comment at 156). `append` only queues the entry, so the broker can be called before it is
  on disk (`execution_service.py:400`, against `journal.py:3`). A duplicate request rewrites
  the journal row of the order it duplicates.
- The order path. After a rejection the in-flight marker stays for its hour
  (`execution_service.py:486`, against the comment at 441). A duplicate is answered with a
  string, not an `OrderResult`, once its key was loaded from the table
  (`execution_service.py:410`). A confirmation that SQLite refuses is only logged
  (`idempotency/manager.py:173`), and the next process does not know the key. A PENDING answer
  makes the machine FAILED, after which an order that is alive can be placed again
  (`execution_service.py:1088`). Any positive filled quantity counts as a complete fill
  (`execution_service.py:1174`).
- Durable rows. With the program's `BrokerAdapter`, `get_order_status` takes `.status` of a
  string (`broker_adapters.py:255`); the AttributeError is not among the errors
  `reconcile_with_broker` names (`durable_state.py:335`), so the pass ends at the first row
  with an order id and nothing is repaired. The model has this and a port that answers.
- Positions. A halt, or a closed market, skips the whole cycle, so stops and targets are not
  watched either; a `RuntimeError` of the adapter ends the loop (`trading/service.py:163`). A
  position that is given up stays in the account. The live quantity check, which should halt
  trading on a mismatch (`trading/reconciliation.py:45`), never does: `_broker` is
  `_LegacyBrokerShim`, whose quantity is 0 (`index_trader.py:496`).
- Contracts. `BrokerAdapter.place_order` turns BUY into a CE contract and SELL into a PE
  contract at the order's strike (`broker_adapters.py:129-147`); a PUT is entered with SELL
  (`position_service.py:524`), and an exit carries the current price as its strike
  (`position_service.py:734`). The exit of a CALL is thus an order for another contract than
  its entry. `Positions` counts what was executed for an instrument's entries and exits, and
  says nothing about which contract the account holds.
- The breaker. Calls of one service are serialised by the lock, so the limit on half-open
  requests never limits concurrency: it does nothing or, below the success threshold, it wedges
  the breaker.
- The order manager. Any gateway status but FAILED, REJECTED included, is recorded as
  ACKNOWLEDGED; TWAP orders share one broker id, and the UNIQUE column then deletes the row of
  the other intent. The row of a failed order says FAILED before anybody is told; a process
  that dies in between forgets an order the broker may hold.
- Reconciliation. No port of the repository has `get_order_book`, so the program's rounds see
  an empty book (`FetchOrdersFails`); the mocks of the tests do (`FetchOrders`). Positions that
  are dataclasses have no `get` (`reconciliation/service.py:413`), and a quantity of None is no
  number (448): both abort the round with nothing frozen. `record_order` has no caller: in the
  program the table is empty and every broker position is an orphan. `execute_order` does not
  read the freeze flag; only the health monitor does. UNKNOWN_STALE is not terminal, so such a
  row is judged stale again; the repair of an unrecorded fill updates no row. An unfreeze that
  crosses a freeze leaves flag and service disagreeing, either way round.
- The lifecycle. A machine is SUBMITTED only while a FILLED answer is being recorded, so the
  watchdog can only ever race with that recording, and then counts the fill twice. The
  stale-order timeout has no caller; it would mark VALIDATED machines failed without a cancel.

## Plan

Done: the journal, the idempotency manager, the order path, positions and the trading loop,
the circuit breaker, the order manager, reconciliation, the order lifecycle; a theorem for
every safety property the passing runs check, and the refinement of the synchronous journal.
Next, in this order:

1. an abstract specification of exactly-once placement, implemented by `OrderExecution`
   between restarts, with its proof;
2. the contracts of `BrokerAdapter.place_order` as part of `Positions`;
3. `OperatingMode` and the rest of `safety_state.py`; rate limiting; broker failover.

## Not modelled

Signals, strategies, market data, risk arithmetic, backtesting and machine learning are
numeric code without a state machine to check. Reporting, dashboards, governance and
certification tools, notifications and event logging do not change what happens to an order.
The archive of unrelated modules is not part of the system. Most of the repository's lines are
of these kinds, which is why the models cover the order path rather than the bulk of the code.
Operating mode, rate limiting and failover have small state machines and are candidates above.
`PROJECT.json` lists the parts
one by one. Within the modelled parts: log texts, audit trails, trade records (best effort in
the code), commissions and prices are left out.
