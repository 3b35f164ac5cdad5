------------------------------- MODULE WalRows -------------------------------
(***************************************************************************)
(* The rows of the write-ahead intent journal (core/wal/journal.py) and    *)
(* what each SQL statement of the journal does to them.  A row is its      *)
(* status column; an intent without a row has status "NONE".  Shared by    *)
(* SyncJournal, WalJournal and OrderExecution.                             *)
(***************************************************************************)
CONSTANT Intent      \* intent identifiers, the primary key of the table

IntentStatus == {"PENDING", "COMMITTED", "SETTLED", "FAILED"}

NoRows == [i \in Intent |-> "NONE"]

Rows == [Intent -> IntentStatus \cup {"NONE"}]

JournalOp == [kind : {"append", "commit", "fail", "settle"}, id : Intent]

Op(kind, i) == [kind |-> kind, id |-> i]

(***************************************************************************)
(* append is INSERT OR REPLACE: it overwrites whatever row is there.       *)
(* commit and fail are UPDATEs without a status guard: they hit nothing    *)
(* when the row does not exist.  settle updates a COMMITTED row only.      *)
(***************************************************************************)
Effect(rows, op) ==
  CASE op.kind = "append" -> [rows EXCEPT ![op.id] = "PENDING"]
    [] op.kind = "commit" -> [rows EXCEPT ![op.id] = IF @ = "NONE" THEN @ ELSE "COMMITTED"]
    [] op.kind = "fail"   -> [rows EXCEPT ![op.id] = IF @ = "NONE" THEN @ ELSE "FAILED"]
    [] op.kind = "settle" -> [rows EXCEPT ![op.id] = IF @ = "COMMITTED" THEN "SETTLED" ELSE @]
=============================================================================
