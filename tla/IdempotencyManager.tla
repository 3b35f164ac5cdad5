------------------------- MODULE IdempotencyManager --------------------------
(***************************************************************************)
(* core/execution/idempotency/manager.py: which idempotency keys the       *)
(* execution service remembers.  In memory a key is in flight, or in the   *)
(* confirmed cache with a result; the cache evicts its oldest entry.  The  *)
(* SQLite table holds one row per key.  Timestamps are abstracted to the   *)
(* events "the confirmed entry is older than 24 hours" and "the in-flight  *)
(* marker is older than 1 hour"; a row too old to be loaded is no row.     *)
(* SQLite may refuse any statement: the error is logged, the operation     *)
(* goes on in memory, and memory and table disagree from there on.         *)
(***************************************************************************)
EXTENDS Naturals, Sequences, FiniteSets

CONSTANTS Key,        \* idempotency keys
          CacheSize,  \* entries the confirmed cache holds
          MaxRefused  \* bound: statements SQLite refuses

ASSUME CacheAssumption == CacheSize \in Nat \ {0} /\ IsFiniteSet(Key) /\ MaxRefused \in Nat

VARIABLES
  inFlight,      \* _in_flight: keys being executed
  cache,         \* _cache: confirmed keys, in the dict's insertion order
  cachedResult,  \* _cache: the result stored with a key
  rows,          \* the table idempotency_keys: the status of each row
  refusals,      \* statements SQLite refused so far
  unsaved,       \* history: keys whose last confirmation SQLite refused to store
  gen            \* history: how often the manager ceased to remember a key

tableVars == <<rows, refusals, unsaved>>
idempotencyVars == <<inFlight, cache, cachedResult, tableVars, gen>>

Confirmed == {cache[n] : n \in 1..Len(cache)}
Remembered == inFlight \cup Confirmed

\* The confirmed keys are stored, but for those SQLite refused, and none is twice in the cache.
ConfirmedStored ==
  /\ \A k \in Confirmed \ unsaved : rows[k] = "confirmed"
  /\ \A m, n \in 1..Len(cache) : cache[m] = cache[n] => m = n

\* "STRING": json.dumps(result, default=str) read back is a string.
CachedResults == {"NONE", "FILLED", "PARTIALLY_FILLED", "STRING"}

IdempotencyTypeOK ==
  /\ inFlight \in SUBSET Key
  /\ cache \in Seq(Key)
  /\ cachedResult \in [Key -> CachedResults]
  /\ rows \in [Key -> {"none", "in_flight", "confirmed"}]
  /\ refusals \in Nat /\ unsaved \in SUBSET Key
  /\ gen \in [Key -> Nat]

IdempotencyInit ==
  /\ inFlight = {} /\ cache = <<>>
  /\ cachedResult = [k \in Key |-> "NONE"]
  /\ rows = [k \in Key |-> "none"]
  /\ refusals = 0 /\ unsaved = {}
  /\ gen = [k \in Key |-> 0]

CountForgotten ==
  gen' = [k \in Key |-> IF k \in Remembered /\ k \notin Remembered' THEN gen[k] + 1 ELSE gen[k]]

\* SQLite refuses the statement; the table is left as it is.
Refused ==
  /\ refusals < MaxRefused
  /\ refusals' = refusals + 1
  /\ UNCHANGED rows

-----------------------------------------------------------------------------
\* Mutant: keys being executed are not looked at.
IsDuplicateConfirmedOnly(k) == k \in Confirmed

IsDuplicate(k) == k \in Remembered

\* Mutant: the newest entry of the cache is returned, whatever its key.
GetResultNewest(k) == IF cache # <<>> THEN cachedResult[cache[Len(cache)]] ELSE "NONE"

\* get_result: the cached result, or None when the key is only in flight.
GetResult(k) == IF k \in Confirmed THEN cachedResult[k] ELSE "NONE"

\* Mutant: the row is written and the set in memory is not.
MarkInFlightRowOnly(k) ==
  /\ rows' = [rows EXCEPT ![k] = "in_flight"]
  /\ UNCHANGED <<inFlight, cache, cachedResult, refusals, unsaved, gen>>

MarkInFlight(k) ==
  /\ inFlight' = inFlight \cup {k}
  /\ \/ rows' = [rows EXCEPT ![k] = "in_flight"] /\ UNCHANGED refusals
     \/ Refused
  /\ UNCHANGED <<cache, cachedResult, unsaved, gen>>

\* A key confirmed again keeps its place; the oldest entry goes when the cache is too large.
ConfirmedCache(k) ==
  LET kept == IF k \in Confirmed THEN cache ELSE Append(cache, k)
  IN  IF Len(kept) > CacheSize THEN Tail(kept) ELSE kept

\* What confirm_execution does in memory.
ConfirmInMemory(k, result) ==
  /\ inFlight' = inFlight \ {k}
  /\ cache' = ConfirmedCache(k)
  /\ cachedResult' = [cachedResult EXCEPT ![k] = result]
  /\ CountForgotten

\* Mutant: INSERT OR IGNORE for INSERT OR REPLACE, so the in-flight row of the key stays.
ConfirmExecutionOrIgnore(k, result) ==
  /\ ConfirmInMemory(k, result)
  /\ \/ /\ rows' = [rows EXCEPT ![k] = IF @ = "none" THEN "confirmed" ELSE @]
        /\ unsaved' = unsaved \ {k} /\ UNCHANGED refusals
     \/ Refused /\ unsaved' = unsaved \cup {k}

ConfirmExecution(k, result) ==
  /\ ConfirmInMemory(k, result)
  /\ \/ /\ rows' = [rows EXCEPT ![k] = "confirmed"]
        /\ unsaved' = unsaved \ {k} /\ UNCHANGED refusals
     \/ Refused /\ unsaved' = unsaved \cup {k}

\* del _cache[k]: the entries behind k move up.
CacheWithout(k) ==
  IF k \in Confirmed
  THEN LET n == CHOOSE n \in 1..Len(cache) : cache[n] = k
       IN  [m \in 1..(Len(cache) - 1) |-> IF m < n THEN cache[m] ELSE cache[m + 1]]
  ELSE cache

\* _cleanup: a confirmed entry expires, and its row will no longer be loaded.
ExpireConfirmed(k) ==
  /\ k \in Confirmed \/ rows[k] = "confirmed"
  /\ cache' = CacheWithout(k)
  /\ rows' = [rows EXCEPT ![k] = IF @ = "confirmed" THEN "none" ELSE @]
  /\ UNCHANGED <<inFlight, cachedResult, refusals, unsaved>>
  /\ CountForgotten

\* _cleanup: an in-flight marker is stale.
ExpireInFlight(k) ==
  /\ k \in inFlight
  /\ inFlight' = inFlight \ {k}
  /\ UNCHANGED <<cache, cachedResult, tableVars>>
  /\ CountForgotten

(***************************************************************************)
(* __init__ of a new process: memory is empty and _load_from_persistence   *)
(* fills the cache with the confirmed rows, in the order SQLite returns    *)
(* them; a load that SQLite refuses leaves the cache with those it had     *)
(* returned by then.  Rows left in flight are not loaded.                  *)
(***************************************************************************)
LoadRows(loaded) ==
  /\ inFlight' = {}
  /\ \E listing \in [1..Cardinality(loaded) -> loaded] :
       /\ {listing[n] : n \in DOMAIN listing} = loaded
       /\ \A m, n \in DOMAIN listing : listing[m] = listing[n] => m = n
       /\ cache' = listing
  /\ cachedResult' = [k \in Key |-> IF k \in loaded THEN "STRING" ELSE "NONE"]
  /\ CountForgotten

StoredKeys == {k \in Key : rows[k] = "confirmed"}

LoadFromPersistence ==
  /\ \/ LoadRows(StoredKeys) /\ UNCHANGED <<rows, refusals>>
     \/ Refused /\ \E loaded \in SUBSET StoredKeys : LoadRows(loaded)
  /\ UNCHANGED unsaved
=============================================================================
