-------------------------- MODULE IdempotencyProofs --------------------------
(***************************************************************************)
(* What the operations of the idempotency manager keep true, for any set   *)
(* of keys and any size of the cache.  Used by the proofs about            *)
(* execute_order and about the trading loop.                               *)
(***************************************************************************)
EXTENDS IdempotencyManager, FiniteSetTheorems, TLAPS

-----------------------------------------------------------------------------
(***************************************************************************)
(* The confirmed cache.                                                    *)
(***************************************************************************)
Distinct(s) == \A m, n \in 1..Len(s) : s[m] = s[n] => m = n
Entries(s) == {s[n] : n \in 1..Len(s)}

\* Confirming a key adds only that key to the cache and keeps its entries distinct.
LEMMA ConfirmedCacheFacts ==
  ASSUME CacheAssumption, cache \in Seq(Key), NEW k \in Key, Distinct(cache)
  PROVE  /\ ConfirmedCache(k) \in Seq(Key)
         /\ Entries(ConfirmedCache(k)) \subseteq Entries(cache) \cup {k}
         /\ Distinct(ConfirmedCache(k))
<1> DEFINE kept == IF k \in Confirmed THEN cache ELSE Append(cache, k)
<1>1. /\ kept \in Seq(Key)
      /\ Entries(kept) \subseteq Entries(cache) \cup {k}
      /\ Distinct(kept)
  <2>1. CASE k \in Confirmed
    BY <2>1 DEF Entries
  <2>2. CASE k \notin Confirmed
    <3>1. /\ kept \in Seq(Key) /\ Len(kept) = Len(cache) + 1 /\ kept[Len(cache) + 1] = k
          /\ \A n \in 1..Len(cache) : kept[n] = cache[n]
      BY <2>2
    <3>2. \A n \in 1..Len(cache) : cache[n] # k
      BY <2>2 DEF Confirmed
    <3> HIDE DEF kept
    <3>3. \A n \in 1..Len(kept) : n \in 1..Len(cache) \/ n = Len(cache) + 1
      BY <3>1
    <3>4. Entries(kept) \subseteq Entries(cache) \cup {k}
      BY <3>1, <3>3 DEF Entries
    <3>5. Distinct(kept)
      BY <3>1, <3>2, <3>3 DEF Distinct
    <3>6. QED
      BY <3>1, <3>4, <3>5
  <2>3. QED
    BY <2>1, <2>2
<1>2. ConfirmedCache(k) = IF Len(kept) > CacheSize THEN Tail(kept) ELSE kept
  BY DEF ConfirmedCache
<1> HIDE DEF kept
<1>3. CASE Len(kept) > CacheSize
  <2>1. /\ Tail(kept) \in Seq(Key) /\ Len(Tail(kept)) = Len(kept) - 1
        /\ \A n \in 1..Len(Tail(kept)) : Tail(kept)[n] = kept[n + 1] /\ n + 1 \in 1..Len(kept)
    BY <1>1, <1>3 DEF CacheAssumption
  <2> DEFINE t == Tail(kept)
  <2> HIDE DEF t
  <2>2. Entries(t) \subseteq Entries(kept)
    BY <2>1 DEF Entries, t
  <2>3. Distinct(t)
    BY <1>1, <2>1 DEF Distinct, t
  <2>4. QED
    BY <1>1, <1>2, <1>3, <2>1, <2>2, <2>3 DEF t
<1>4. CASE ~(Len(kept) > CacheSize)
  BY <1>1, <1>2, <1>4
<1>5. QED
  BY <1>3, <1>4

\* Deleting a key removes that key and no other from a cache with distinct entries.
LEMMA CacheWithoutFacts ==
  ASSUME cache \in Seq(Key), NEW k \in Key, Distinct(cache)
  PROVE  /\ CacheWithout(k) \in Seq(Key)
         /\ Entries(CacheWithout(k)) \subseteq Entries(cache) \ {k}
         /\ Distinct(CacheWithout(k))
<1>1. CASE k \notin Confirmed
  BY <1>1 DEF CacheWithout, Entries, Confirmed
<1>2. CASE k \in Confirmed
  <2> DEFINE n == CHOOSE n \in 1..Len(cache) : cache[n] = k
             t == [m \in 1..(Len(cache) - 1) |-> IF m < n THEN cache[m] ELSE cache[m + 1]]
  <2>1. n \in 1..Len(cache) /\ cache[n] = k
    BY <1>2 DEF Confirmed
  <2>2. CacheWithout(k) = t
    BY <1>2 DEF CacheWithout
  <2> HIDE DEF n
  <2>3. t \in Seq(Key) /\ Len(t) = Len(cache) - 1
    BY <2>1
  <2>4. \A m \in 1..Len(t) : t[m] = IF m < n THEN cache[m] ELSE cache[m + 1]
    BY <2>3
  <2> HIDE DEF t
  <2>5. \A m \in 1..Len(t) : /\ m \in 1..Len(cache) /\ m + 1 \in 1..Len(cache)
                             /\ t[m] # k
                             /\ \E j \in 1..Len(cache) : t[m] = cache[j]
    BY <2>1, <2>3, <2>4 DEF Distinct
  <2>6. Entries(t) \subseteq Entries(cache) \ {k}
    BY <2>5 DEF Entries
  <2>7. Distinct(t)
    BY <2>1, <2>3, <2>4, <2>5 DEF Distinct
  <2>8. QED
    BY <2>2, <2>3, <2>6, <2>7
<1>3. QED
  BY <1>1, <1>2

-----------------------------------------------------------------------------
(***************************************************************************)
(* The operations of the idempotency manager.  Each keeps IdempotencyInv,  *)
(* and each counts in gen every key it makes the manager forget.           *)
(***************************************************************************)
IdempotencyInv == IdempotencyTypeOK /\ ConfirmedStored

Counted ==
  \A k \in Key : /\ gen[k] <= gen'[k]
                 /\ k \in Remembered /\ gen'[k] = gen[k] => k \in Remembered'

\* ConfirmedStored, spelled out: every entry of the cache that SQLite did not refuse has a
\* confirmed row, and no key is in the cache twice.
LEMMA ConfirmedStoredMeaning ==
  ConfirmedStored <=> /\ \A k \in Entries(cache) : k \notin unsaved => rows[k] = "confirmed"
                      /\ Distinct(cache)
BY DEF ConfirmedStored, Confirmed, Entries, Distinct

\* The same in the next state.
LEMMA ConfirmedStoredMeaningNext ==
  ConfirmedStored' <=> /\ \A k \in Entries(cache') : k \notin unsaved' => rows'[k] = "confirmed"
                       /\ Distinct(cache')
BY DEF ConfirmedStored, Confirmed, Entries, Distinct

\* The confirmed keys are the entries of the cache, before a step and after it.
LEMMA ConfirmedIsEntries == Confirmed = Entries(cache) /\ Confirmed' = Entries(cache')
BY DEF Confirmed, Entries

\* CountForgotten is Counted, whatever happens to the remembered keys.
LEMMA CountForgottenCounts ==
  ASSUME gen \in [Key -> Nat], CountForgotten
  PROVE  gen' \in [Key -> Nat] /\ Counted
BY DEF CountForgotten, Counted

\* A step that leaves the manager alone forgets nothing.
LEMMA UnchangedCounts ==
  ASSUME IdempotencyInv, UNCHANGED idempotencyVars
  PROVE  IdempotencyInv' /\ Counted
<1>1. Remembered' = Remembered /\ gen' = gen
  BY DEF idempotencyVars, Remembered, Confirmed
<1>2. Counted
  BY <1>1 DEF Counted, IdempotencyInv, IdempotencyTypeOK
<1>3. IdempotencyInv'
  BY DEF IdempotencyInv, IdempotencyTypeOK, ConfirmedStored, Confirmed, idempotencyVars, tableVars
<1>4. QED
  BY <1>2, <1>3

\* mark_in_flight keeps the manager's invariant and forgets no key.
LEMMA MarkInFlightKeeps ==
  ASSUME IdempotencyInv, NEW k \in Key, ~IsDuplicate(k), MarkInFlight(k)
  PROVE  IdempotencyInv' /\ Counted /\ k \in Remembered'
<1>1. k \notin Entries(cache)
  BY ConfirmedIsEntries DEF IsDuplicate, Remembered
<1>2. cache' = cache /\ gen' = gen /\ inFlight' = inFlight \cup {k} /\ unsaved' = unsaved
  BY DEF MarkInFlight
<1>3. IdempotencyTypeOK'
  <2>1. rows' \in [Key -> {"none", "in_flight", "confirmed"}] /\ refusals' \in Nat
    BY DEF IdempotencyInv, IdempotencyTypeOK, MarkInFlight, Refused
  <2>2. inFlight' \in SUBSET Key /\ UNCHANGED <<cache, cachedResult, unsaved, gen>>
    BY DEF IdempotencyInv, IdempotencyTypeOK, MarkInFlight
  <2> QED
    BY <2>1, <2>2 DEF IdempotencyInv, IdempotencyTypeOK
<1>4. \A j \in Entries(cache') : j \notin unsaved' => rows'[j] = "confirmed"
  <2>1. \A j \in Key \ {k} : rows'[j] = rows[j]
    BY DEF IdempotencyInv, IdempotencyTypeOK, MarkInFlight, Refused
  <2>2. Entries(cache) \subseteq Key
    BY DEF Entries, IdempotencyInv, IdempotencyTypeOK
  <2> QED
    BY <1>1, <1>2, <2>1, <2>2, ConfirmedStoredMeaning DEF IdempotencyInv
<1>5. ConfirmedStored'
  BY <1>2, <1>4, ConfirmedStoredMeaning, ConfirmedStoredMeaningNext DEF IdempotencyInv
<1>6. Counted /\ k \in Remembered'
  BY <1>2, ConfirmedIsEntries DEF Counted, Remembered, IdempotencyInv, IdempotencyTypeOK
<1>7. QED
  BY <1>3, <1>5, <1>6 DEF IdempotencyInv

\* confirm_execution keeps the manager's invariant; it counts the entry it may evict.
LEMMA ConfirmExecutionKeeps ==
  ASSUME CacheAssumption, IdempotencyInv, NEW k \in Key,
         NEW res \in CachedResults, ConfirmExecution(k, res)
  PROVE  IdempotencyInv' /\ Counted
<1>1. Distinct(cache) /\ \A j \in Entries(cache) : j \notin unsaved => rows[j] = "confirmed"
  BY ConfirmedStoredMeaning DEF IdempotencyInv
<1>2. /\ cache' \in Seq(Key)
      /\ Entries(cache') \subseteq Entries(cache) \cup {k}
      /\ Distinct(cache')
  BY <1>1, ConfirmedCacheFacts DEF ConfirmExecution, ConfirmInMemory, IdempotencyInv, IdempotencyTypeOK
<1>3. \A j \in Entries(cache') : j \notin unsaved' => rows'[j] = "confirmed"
  <2>1. /\ rows \in [Key -> {"none", "in_flight", "confirmed"}]
        /\ \/ rows' = [rows EXCEPT ![k] = "confirmed"] /\ unsaved' = unsaved \ {k}
           \/ rows' = rows /\ unsaved' = unsaved \cup {k}
    BY DEF ConfirmExecution, Refused, IdempotencyInv, IdempotencyTypeOK
  <2>2. Entries(cache') \subseteq Key
    BY <1>2 DEF Entries
  <2>3. QED
    BY <1>1, <1>2, <2>1, <2>2
<1>4. gen' \in [Key -> Nat] /\ Counted
  BY CountForgottenCounts DEF ConfirmExecution, ConfirmInMemory, IdempotencyInv, IdempotencyTypeOK
<1>5. IdempotencyTypeOK'
  <2>1. /\ inFlight' \in SUBSET Key /\ cachedResult' \in [Key -> CachedResults]
    BY DEF ConfirmExecution, ConfirmInMemory, IdempotencyInv, IdempotencyTypeOK
  <2>2. /\ rows' \in [Key -> {"none", "in_flight", "confirmed"}]
        /\ refusals' \in Nat /\ unsaved' \in SUBSET Key
    BY DEF ConfirmExecution, Refused, IdempotencyInv, IdempotencyTypeOK
  <2> QED
    BY <1>2, <1>4, <2>1, <2>2 DEF IdempotencyTypeOK
<1>6. QED
  BY <1>2, <1>3, <1>4, <1>5, ConfirmedStoredMeaningNext DEF IdempotencyInv

\* The expiry of a confirmed entry (_cleanup) keeps the manager's invariant.
LEMMA ExpireConfirmedKeeps ==
  ASSUME IdempotencyInv, NEW k \in Key, ExpireConfirmed(k)
  PROVE  IdempotencyInv' /\ Counted
<1>1. Distinct(cache) /\ \A j \in Entries(cache) : j \notin unsaved => rows[j] = "confirmed"
  BY ConfirmedStoredMeaning DEF IdempotencyInv
<1>2. /\ cache' \in Seq(Key)
      /\ Entries(cache') \subseteq Entries(cache) \ {k}
      /\ Distinct(cache')
  BY <1>1, CacheWithoutFacts DEF ExpireConfirmed, IdempotencyInv, IdempotencyTypeOK
<1>3. gen' \in [Key -> Nat] /\ Counted
  BY CountForgottenCounts DEF ExpireConfirmed, IdempotencyInv, IdempotencyTypeOK
<1>4. IdempotencyTypeOK'
  BY <1>2, <1>3 DEF ExpireConfirmed, IdempotencyInv, IdempotencyTypeOK
<1>5. \A j \in Entries(cache') : j \notin unsaved' => rows'[j] = "confirmed"
  <2>1. unsaved' = unsaved /\ \A j \in Key \ {k} : rows'[j] = rows[j]
    BY DEF ExpireConfirmed, IdempotencyInv, IdempotencyTypeOK
  <2>2. Entries(cache') \subseteq Key
    BY <1>2 DEF Entries
  <2>3. QED
    BY <1>1, <1>2, <2>1, <2>2
<1>6. QED
  BY <1>2, <1>3, <1>4, <1>5, ConfirmedStoredMeaningNext DEF IdempotencyInv

\* The expiry of an in-flight marker (_cleanup) keeps the manager's invariant.
LEMMA ExpireInFlightKeeps ==
  ASSUME IdempotencyInv, NEW k \in Key, ExpireInFlight(k)
  PROVE  IdempotencyInv' /\ Counted
<1>1. gen' \in [Key -> Nat] /\ Counted
  BY CountForgottenCounts DEF ExpireInFlight, IdempotencyInv, IdempotencyTypeOK
<1>2. IdempotencyTypeOK'
  BY <1>1 DEF ExpireInFlight, IdempotencyInv, IdempotencyTypeOK, tableVars
<1>3. cache' = cache /\ rows' = rows /\ unsaved' = unsaved
  BY DEF ExpireInFlight, tableVars
<1>4. QED
  BY <1>1, <1>2, <1>3, ConfirmedStoredMeaning, ConfirmedStoredMeaningNext DEF IdempotencyInv

\* Loading a set of stored keys leaves exactly these in the cache, each once.
LEMMA LoadRowsFacts ==
  ASSUME CacheAssumption, IdempotencyTypeOK, NEW loaded \in SUBSET StoredKeys, LoadRows(loaded)
  PROVE  /\ cache' \in Seq(Key) /\ Entries(cache') = loaded /\ Distinct(cache')
         /\ inFlight' = {} /\ cachedResult' \in [Key -> CachedResults]
         /\ gen' \in [Key -> Nat] /\ Counted
<1>1. loaded \subseteq Key
  BY DEF StoredKeys
<1>2. Cardinality(loaded) \in Nat
  BY <1>1, FS_Subset, FS_CardinalityType DEF CacheAssumption
<1>3. PICK listing \in [1..Cardinality(loaded) -> loaded] :
        /\ {listing[n] : n \in DOMAIN listing} = loaded
        /\ \A m, n \in DOMAIN listing : listing[m] = listing[n] => m = n
        /\ cache' = listing
  BY DEF LoadRows
<1>4. cache' \in Seq(Key) /\ Len(cache') = Cardinality(loaded)
  <2>1. ASSUME NEW N \in Nat, NEW S, NEW f \in [1..N -> S], S \subseteq Key
        PROVE  f \in Seq(Key) /\ Len(f) = N
    BY <2>1
  <2>2. QED
    BY <1>1, <1>2, <1>3, <2>1
<1>5. DOMAIN cache' = 1..Len(cache')
  BY <1>3, <1>4
<1>6. Entries(cache') = loaded /\ Distinct(cache')
  BY <1>3, <1>5 DEF Entries, Distinct
<1>7. gen' \in [Key -> Nat] /\ Counted
  BY CountForgottenCounts DEF LoadRows, IdempotencyTypeOK
<1>8. inFlight' = {} /\ cachedResult' \in [Key -> CachedResults]
  BY DEF LoadRows, CachedResults
<1> QED
  BY <1>4, <1>6, <1>7, <1>8

\* A restart forgets what was in flight; unless SQLite refuses the load, it forgets no
\* confirmed key that SQLite stored.
LEMMA LoadFromPersistenceKeeps ==
  ASSUME CacheAssumption, IdempotencyInv, LoadFromPersistence
  PROVE  /\ IdempotencyInv' /\ Counted
         /\ refusals' = refusals => Confirmed \ unsaved \subseteq Confirmed'
<1>1. /\ IdempotencyTypeOK /\ refusals \in Nat /\ Entries(cache) \subseteq Key
      /\ \A j \in Entries(cache) : j \notin unsaved => rows[j] = "confirmed"
  BY ConfirmedStoredMeaning DEF IdempotencyInv, IdempotencyTypeOK, Entries
<1>2. PICK loaded \in SUBSET StoredKeys : LoadRows(loaded) /\ (refusals' = refusals => loaded = StoredKeys)
  <2>1. CASE LoadRows(StoredKeys)
    BY <2>1
  <2>2. CASE Refused /\ \E loaded \in SUBSET StoredKeys : LoadRows(loaded)
    BY <1>1, <2>2 DEF Refused
  <2> QED
    BY <2>1, <2>2 DEF LoadFromPersistence
<1>3. rows' = rows /\ unsaved' = unsaved /\ refusals' \in Nat
  BY <1>1 DEF LoadFromPersistence, Refused
<1>4. /\ cache' \in Seq(Key) /\ Entries(cache') = loaded /\ Distinct(cache')
      /\ inFlight' = {} /\ cachedResult' \in [Key -> CachedResults]
      /\ gen' \in [Key -> Nat] /\ Counted
  BY <1>1, <1>2, LoadRowsFacts
<1>5. IdempotencyTypeOK'
  BY <1>1, <1>3, <1>4 DEF IdempotencyTypeOK
<1>6. ConfirmedStored'
  BY <1>3, <1>4, ConfirmedStoredMeaningNext DEF StoredKeys
<1>7. refusals' = refusals => Confirmed \ unsaved \subseteq Confirmed'
  BY <1>1, <1>2, <1>4, ConfirmedIsEntries DEF StoredKeys
<1> QED
  BY <1>4, <1>5, <1>6, <1>7 DEF IdempotencyInv

-----------------------------------------------------------------------------
(***************************************************************************)
(* A cache with room for every key evicts none.                            *)
(***************************************************************************)
\* A sequence without repetitions is no longer than there are keys.
LEMMA DistinctLength ==
  ASSUME IsFiniteSet(Key), NEW s \in Seq(Key), Distinct(s)
  PROVE  Len(s) <= Cardinality(Key)
<1>1. Len(s) \in Nat /\ Cardinality(Key) \in Nat
  BY FS_CardinalityType
<1>2. IsFiniteSet(1..Len(s)) /\ Cardinality(1..Len(s)) = Len(s)
  <2>1. 1 \in Int /\ Len(s) \in Int
    BY <1>1
  <2>2. /\ IsFiniteSet(1..Len(s))
        /\ Cardinality(1..Len(s)) = IF 1 > Len(s) THEN 0 ELSE Len(s) - 1 + 1
    BY <2>1, FS_Interval
  <2> QED
    BY <1>1, <2>2
<1>3. s \in [1..Len(s) -> Key]
  OBVIOUS
<1>4. ~(Cardinality(Key) < Cardinality(1..Len(s)))
  BY <1>2, <1>3, FS_PigeonHole DEF Distinct
<1> QED
  BY <1>1, <1>2, <1>4

\* With room for every key, confirm_execution forgets none.
LEMMA ConfirmForgetsNone ==
  ASSUME CacheAssumption, IdempotencyInv, Cardinality(Key) <= CacheSize,
         NEW k \in Key, NEW res, ConfirmExecution(k, res)
  PROVE  Remembered \cup {k} \subseteq Remembered' /\ inFlight' = inFlight \ {k}
<1> DEFINE kept == IF k \in Confirmed THEN cache ELSE Append(cache, k)
<1>1. cache \in Seq(Key) /\ Distinct(cache)
  BY ConfirmedStoredMeaning DEF IdempotencyInv, IdempotencyTypeOK
<1>2. kept \in Seq(Key) /\ Distinct(kept) /\ Entries(cache) \cup {k} \subseteq Entries(kept)
  <2>1. CASE k \in Confirmed
    BY <1>1, <2>1 DEF Entries, Confirmed
  <2>2. CASE k \notin Confirmed
    <3>1. /\ kept \in Seq(Key) /\ Len(kept) = Len(cache) + 1 /\ kept[Len(cache) + 1] = k
          /\ \A n \in 1..Len(cache) : kept[n] = cache[n]
      BY <1>1, <2>2
    <3>2. \A n \in 1..Len(cache) : cache[n] # k
      BY <2>2 DEF Confirmed
    <3> HIDE DEF kept
    <3>3. \A n \in 1..Len(kept) : n \in 1..Len(cache) \/ n = Len(cache) + 1
      BY <1>1, <3>1
    <3>4. Distinct(kept)
      BY <1>1, <3>1, <3>2, <3>3 DEF Distinct
    <3>5. 1..Len(cache) \subseteq 1..Len(kept) /\ Len(cache) + 1 \in 1..Len(kept)
      BY <1>1, <3>1
    <3>6. Entries(cache) \cup {k} \subseteq Entries(kept)
      BY <3>1, <3>5 DEF Entries
    <3> QED
      BY <3>1, <3>4, <3>6
  <2> QED
    BY <2>1, <2>2
<1>3. ConfirmedCache(k) = IF Len(kept) > CacheSize THEN Tail(kept) ELSE kept
  BY DEF ConfirmedCache
<1> HIDE DEF kept
<1>4. Len(kept) <= CacheSize
  <2>1. Len(kept) \in Nat /\ Cardinality(Key) \in Nat /\ CacheSize \in Nat
    BY <1>2, FS_CardinalityType DEF CacheAssumption
  <2> QED
    BY <1>2, <2>1, DistinctLength DEF CacheAssumption
<1>5. cache' = kept /\ inFlight' = inFlight \ {k}
  <2>1. ~(Len(kept) > CacheSize)
    BY <1>2, <1>4 DEF CacheAssumption
  <2> QED
    BY <1>3, <2>1 DEF ConfirmExecution, ConfirmInMemory
<1> QED
  BY <1>2, <1>5, ConfirmedIsEntries DEF Remembered
=============================================================================
