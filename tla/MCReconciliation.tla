--------------------------- MODULE MCReconciliation ---------------------------
(***************************************************************************)
(* Two orders for different symbols, the second recorded without the      *)
(* broker's id; two issues are too many.                                  *)
(***************************************************************************)
EXTENDS Reconciliation

CONSTANTS o1, o2, s1, s2

MCSymbolOf == [o \in Order |-> IF o = o1 THEN s1 ELSE s2]
===============================================================================
