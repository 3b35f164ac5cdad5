----------------------------- MODULE SyncJournal -----------------------------
(***************************************************************************)
(* What the journal promises its callers: every append, commit, fail and   *)
(* settle takes effect at once, one after the other, and nothing else ever *)
(* changes a row.  WalJournal, which queues the writes for a background    *)
(* thread, is shown to implement this module.                              *)
(***************************************************************************)
EXTENDS WalRows

VARIABLE rows

Init == rows = NoRows

Write(op) == rows' = Effect(rows, op)

Next == \E op \in JournalOp : Write(op)

Spec == Init /\ [][Next]_rows
=============================================================================
