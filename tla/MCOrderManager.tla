--------------------------- MODULE MCOrderManager -----------------------------
(***************************************************************************)
(* Three calls: c1 and c2 with one intent, c3 with another; c2 and c3 are  *)
(* TWAP orders, which share their broker id.                               *)
(***************************************************************************)
EXTENDS OrderManager

CONSTANTS c1, c2, c3, i1, i2

MCIntentOf == [c \in Call |-> IF c = c3 THEN i2 ELSE i1]
===============================================================================
