--------------------------- MODULE MCOrderExecution ---------------------------
(***************************************************************************)
(* Small instances of OrderExecution: c1 and c2 are the same order placed  *)
(* twice, c3 is another order for the same instrument (its key differs,    *)
(* its intent does not).                                                   *)
(***************************************************************************)
EXTENDS OrderExecution, TLC

CONSTANTS c1, c2, c3, k1, k2, i1

MCKeyOf == [c \in Call |-> IF c = c3 THEN k2 ELSE k1]
MCIntentOf == [k \in Key |-> i1]

\* c1 and c2 are interchangeable.
Retries == Permutations({c1, c2})
===============================================================================
