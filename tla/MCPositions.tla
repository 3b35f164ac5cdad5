----------------------------- MODULE MCPositions ------------------------------
(***************************************************************************)
(* One instrument, two bars whose signals enter at the same price, two     *)
(* reasons to exit: a key can come back in the same bar, and the exit of a *)
(* second position can have the key of the first one's.                    *)
(***************************************************************************)
EXTENDS Positions

CONSTANTS b1, b2, p1, nifty

MCPriceOf == [b \in Bar |-> p1]
MCKey == EntryKeys \cup ExitKeys
===============================================================================
