--------------------------- MODULE CircuitBreaker ----------------------------
(***************************************************************************)
(* One breaker of CircuitBreakerService                                    *)
(* (core/services/circuit_breaker_service.py), as the broker adapter uses  *)
(* it: broker.place_order, broker.exit_order and the other keys each have  *)
(* one, and share nothing but the lock.                                    *)
(*                                                                         *)
(* call_with_key holds the service's lock while the protected function     *)
(* runs, so a call is a StartCall and a FinishCall between which only time *)
(* and the dependency move.  Time is counted in ticks and kept relative:   *)
(* what is left until next_attempt_time, and the age of each timestamp.    *)
(* Only the time-based sliding window, the one every configuration of the  *)
(* program uses, is modelled.                                              *)
(***************************************************************************)
EXTENDS Integers, Functions

CONSTANTS
  Config,      \* configurations update_config may install
  MaxDelay,    \* the 8 hours at which the back-off is capped, in ticks
  MaxWindow,   \* the longest sliding window, in ticks
  MaxOpens,    \* bound: _consecutive_open_count stays there once the cap is reached
  MaxCount,    \* bound: counters that are compared with a threshold stay there
  MaxCalls,    \* bound: calls that end in one tick
  MaxOps       \* bound: commands of the operator

\* failures, successes and maxRequests are failure_threshold, success_threshold
\* and half_open_max_requests (0: no limit); ratePct is failure_rate_threshold.
ConfigType ==
  [failures : Nat \ {0}, successes : Nat \ {0}, timeout : Nat, base : Nat \ {0},
   window : Nat, ratePct : Nat, maxRequests : Nat]

\* The powers of the base by which the delay grows.
Powers(base) == LET power[n \in 0..MaxOpens] == IF n = 0 THEN 1 ELSE base * power[n - 1] IN power

ASSUME ConfigAssumption == Config \subseteq ConfigType /\ Config # {}
ASSUME BoundAssumption ==
  /\ MaxDelay \in Nat /\ MaxWindow \in Nat /\ MaxCalls \in Nat /\ MaxOps \in Nat
  /\ MaxOpens \in Nat \ {0} /\ MaxCount \in Nat
\* Nothing is lost by stopping the counters: the delay has reached its cap, the counts
\* their thresholds, and no window looks further back than MaxWindow.
ASSUME CapAssumption ==
  \A c \in Config :
    /\ c.timeout * Powers(c.base)[MaxOpens - 1] >= MaxDelay
    /\ c.failures <= MaxCount /\ c.successes <= MaxCount /\ c.window <= MaxWindow

VARIABLES
  config,       \* breaker.config
  state,        \* breaker.state
  failureCount, \* failure_count
  successCount, \* success_count
  nextAttempt,  \* ticks until next_attempt_time, NoAttempt for None
  opens,        \* _consecutive_open_count
  requests,     \* _half_open_requests
  failuresAt,   \* failure_timestamps: how many are of each age
  successesAt,  \* success_timestamps
  calling,      \* a thread is inside the protected function, holding the lock
  down,         \* the dependency fails
  lastDelay,    \* history: the delay of the last opening since the breaker was closed
  ops           \* commands of the operator so far

countVars == <<failureCount, successCount, opens, requests>>
windowVars == <<failuresAt, successesAt>>
vars == <<config, state, countVars, nextAttempt, windowVars, calling, down, lastDelay, ops>>

NoAttempt == -1
Age == 0..MaxWindow
Smaller(a, b) == IF a <= b THEN a ELSE b

\* The breaker's fields have the types the code gives them, and delays stay below the cap.
TypeOK ==
  /\ config \in Config
  /\ state \in {"CLOSED", "OPEN", "HALF_OPEN"}
  /\ failureCount \in 0..MaxCount /\ successCount \in 0..MaxCount /\ requests \in Nat
  /\ opens \in 0..MaxOpens
  /\ nextAttempt \in {NoAttempt} \cup 0..MaxDelay
  /\ failuresAt \in [Age -> Nat] /\ successesAt \in [Age -> Nat]
  /\ calling \in BOOLEAN /\ down \in BOOLEAN
  /\ lastDelay \in 0..MaxDelay /\ ops \in 0..MaxOps

NothingRecorded == [a \in Age |-> 0]

Init ==
  /\ config \in Config
  /\ state = "CLOSED"
  /\ failureCount = 0 /\ successCount = 0 /\ opens = 0 /\ requests = 0
  /\ nextAttempt = NoAttempt
  /\ failuresAt = NothingRecorded /\ successesAt = NothingRecorded
  /\ calling = FALSE /\ down = FALSE
  /\ lastDelay = 0 /\ ops = 0

-----------------------------------------------------------------------------
Uncapped(n) == config.timeout * Powers(config.base)[n - 1]
\* Mutant: the cap is forgotten.
DelayUncapped(n) == Uncapped(n)
\* Mutant: past the cap the delay starts again.
DelayRestarts(n) == IF Uncapped(n) > MaxDelay THEN config.timeout ELSE Uncapped(n)

\* _compute_timeout: the delay grows with the counter, up to the cap.
Delay(n) == Smaller(Uncapped(n), MaxDelay)

\* state = OPEN and next_attempt_time = now + _compute_timeout.
ToOpen ==
  /\ state' = "OPEN"
  /\ opens' = Smaller(opens + 1, MaxOpens)
  /\ nextAttempt' = Delay(opens')
  /\ lastDelay' = Delay(opens')

\* What is recorded now, and no older than the window, is kept.
Recorded(times) ==
  [a \in Age |-> IF a > config.window THEN 0 ELSE IF a = 0 THEN times[0] + 1 ELSE times[a]]

\* _calculate_failure_rate and _should_trip_breaker, with the counts after the failure.
InWindow(times) == SumFunctionOnSet(times, 0..config.window)
ShouldTrip(count, failed, succeeded) ==
  \/ count >= config.failures
  \/ /\ config.window > 0
     /\ 100 * InWindow(failed) > config.ratePct * (InWindow(failed) + InWindow(succeeded))

\* Mutant: one success more than the threshold asks for.
ClosesAtMore(count) == count > config.successes
\* A half-open breaker closes at this many successes.
ClosesAt(count) == count >= config.successes

\* _on_success
OnSuccess ==
  LET count == Smaller(successCount + 1, MaxCount) IN
  /\ successCount' = count
  /\ successesAt' = Recorded(successesAt)
  /\ requests' = IF state = "HALF_OPEN" THEN requests + 1 ELSE requests
  /\ IF state = "HALF_OPEN" /\ ClosesAt(count)
     THEN /\ state' = "CLOSED" /\ failureCount' = 0 /\ nextAttempt' = NoAttempt
          /\ opens' = 0 /\ lastDelay' = 0
     ELSE /\ failureCount' = IF state = "CLOSED" THEN 0 ELSE failureCount
          /\ UNCHANGED <<state, nextAttempt, opens, lastDelay>>
  /\ UNCHANGED failuresAt

\* _on_failure: a half-open breaker opens again at once.
OnFailure ==
  LET count == Smaller(failureCount + 1, MaxCount) IN
  /\ failureCount' = count
  /\ failuresAt' = Recorded(failuresAt)
  /\ IF state = "HALF_OPEN" \/ ShouldTrip(count, failuresAt', successesAt)
     THEN ToOpen
     ELSE UNCHANGED <<state, opens, nextAttempt, lastDelay>>
  /\ UNCHANGED <<successCount, requests, successesAt>>

-----------------------------------------------------------------------------
\* Mutant: the comparison with the current time is turned round.
AttemptDueEarly == nextAttempt > 0
\* next_attempt_time is set and not in the future.
AttemptDue == nextAttempt = 0
\* A half-open breaker has room for another call.
Admits == config.maxRequests = 0 \/ requests < config.maxRequests

\* call_with_key up to the protected function, when _should_attempt_call lets it pass;
\* a refused call changes nothing.  One whose delay is over makes the breaker half-open.
StartCall ==
  /\ ~calling
  /\ failuresAt[0] + successesAt[0] < MaxCalls
  /\ \/ state = "CLOSED" /\ UNCHANGED <<state, successCount, requests>>
     \/ state = "HALF_OPEN" /\ Admits /\ UNCHANGED <<state, successCount, requests>>
     \/ /\ state = "OPEN" /\ AttemptDue
        /\ state' = "HALF_OPEN" /\ successCount' = 0 /\ requests' = 0
  /\ calling' = TRUE
  /\ UNCHANGED <<config, failureCount, opens, nextAttempt, windowVars, down, lastDelay, ops>>

\* The protected function returns, or raises: every exception counts as a failure.
FinishCall ==
  /\ calling
  /\ IF down THEN OnFailure ELSE OnSuccess
  /\ calling' = FALSE
  /\ UNCHANGED <<config, down, ops>>

\* Mutant: the consecutive openings survive a reset.
ResetKeepsOpens ==
  /\ ~calling /\ ops < MaxOps
  /\ state' = "CLOSED"
  /\ failureCount' = 0 /\ successCount' = 0 /\ requests' = 0
  /\ nextAttempt' = NoAttempt
  /\ failuresAt' = NothingRecorded /\ successesAt' = NothingRecorded
  /\ lastDelay' = 0 /\ ops' = ops + 1
  /\ UNCHANGED <<config, calling, down, opens>>

\* reset and force_close, which differ in what they log.
Reset ==
  /\ ~calling /\ ops < MaxOps
  /\ state' = "CLOSED"
  /\ failureCount' = 0 /\ successCount' = 0 /\ opens' = 0 /\ requests' = 0
  /\ nextAttempt' = NoAttempt
  /\ failuresAt' = NothingRecorded /\ successesAt' = NothingRecorded
  /\ lastDelay' = 0 /\ ops' = ops + 1
  /\ UNCHANGED <<config, calling, down>>

ForceOpen ==
  /\ ~calling /\ ops < MaxOps
  /\ ToOpen
  /\ ops' = ops + 1
  /\ UNCHANGED <<config, failureCount, successCount, requests, windowVars, calling, down>>

UpdateConfig ==
  /\ ~calling /\ ops < MaxOps
  /\ \E c \in Config \ {config} : config' = c
  /\ ops' = ops + 1
  /\ UNCHANGED <<state, countVars, nextAttempt, windowVars, calling, down, lastDelay>>

-----------------------------------------------------------------------------
\* Time passes, also while a call is under way.  Timestamps no window reaches are dropped.
Older(times) == [a \in Age |-> IF a = 0 THEN 0 ELSE times[a - 1]]
Tick ==
  /\ nextAttempt' = IF nextAttempt > 0 THEN nextAttempt - 1 ELSE nextAttempt
  /\ failuresAt' = Older(failuresAt) /\ successesAt' = Older(successesAt)
  /\ UNCHANGED <<config, state, countVars, calling, down, lastDelay, ops>>

\* The dependency fails or comes back.
Turn ==
  /\ down' = ~down
  /\ UNCHANGED <<config, state, countVars, nextAttempt, windowVars, calling, lastDelay, ops>>

Next ==
  \/ StartCall \/ FinishCall \/ Tick \/ Turn
  \/ Reset \/ ForceOpen \/ UpdateConfig

Spec == Init /\ [][Next]_vars

\* The bot keeps calling, the protected function has a time-out of its own, time passes.
FairSpec == Spec /\ WF_vars(StartCall) /\ WF_vars(FinishCall) /\ WF_vars(Tick)

-----------------------------------------------------------------------------
\* A half-open breaker that no call is testing lets the next call through: nothing else
\* can move it out of HALF_OPEN, the time least of all.
HalfOpenAdmits == state = "HALF_OPEN" /\ ~calling => Admits

\* What is known about a breaker agrees with its state: only an open breaker waits for
\* an attempt time and has its openings counted, and a closed one starts from nothing.
OpenHasAttempt ==
  /\ (state = "OPEN") => nextAttempt # NoAttempt /\ opens > 0
  /\ (state = "CLOSED") => nextAttempt = NoAttempt /\ opens = 0

\* Until the breaker closes, no wait is shorter than the one before it.
BackoffGrows == [][lastDelay' < lastDelay => state' = "CLOSED"]_vars

\* A dependency that came back for good is served again: the breaker closes and, from
\* then on, stays closed (ADR-006: "must automatically recover when dependencies return").
RecoversWhenHealthy == <>[](~down) => <>[](state = "CLOSED")
=============================================================================
