-------------------------- MODULE MCCircuitBreaker ---------------------------
(***************************************************************************)
(* Configurations of the circuit breaker.  One tick stands for ten         *)
(* seconds, the sliding window the program ships with.                     *)
(***************************************************************************)
EXTENDS CircuitBreaker

Configured(failures, successes, maxRequests, window) ==
  [failures |-> failures, successes |-> successes, timeout |-> 1, base |-> 2,
   window |-> window, ratePct |-> 50, maxRequests |-> maxRequests]

\* The defaults of CircuitBreakerConfig set no limit; the other one has the smallest
\* limit under which its success threshold can be reached.
SoundConfigs == {Configured(2, 1, 0, 2), Configured(3, 2, 2, 1)}

\* What _configure_circuit_breaker gives the broker's breakers.
ShippedConfigs == {Configured(3, 3, 2, 1)}
=============================================================================
