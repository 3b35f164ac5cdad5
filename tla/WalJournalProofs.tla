-------------------------- MODULE WalJournalProofs ---------------------------
(***************************************************************************)
(* The queueing journal loses nothing it accepted but in the cases its     *)
(* properties name, drains when it is stopped, and implements the          *)
(* synchronous journal, for any number of threads, intents and calls and   *)
(* any size of the queue.                                                  *)
(***************************************************************************)
EXTENDS WalJournal, WellFoundedInduction, TLAPS

\* A thread inside a journal call holds a statement.
CallHolds == \A t \in Thread : call[t].pc # "idle" => call[t].op \in JournalOp

AppendWaits(i) == \E n \in 1..Len(Pending) : Pending[n] = Op("append", i)

\* An intent that was appended is on disk or its append waits, until SQLite refuses one.
AppendsLand ==
  errors = 0 => \A i \in Intent : journal[i] # "NONE" => disk[i] # "NONE" \/ AppendWaits(i)

\* The sentinel is queued by stop() only, and behind every statement that is not late; a thread
\* that found the queue empty still finds no statement there, unless one came in the gap.
SentinelLast ==
  /\ worker # "running" => hand = <<>>
  /\ worker = "exited" => stopEvent
  /\ (\E n \in 1..Len(queue) : queue[n] = Sentinel) => closing \in {"joining", "closed"}
  /\ ~late => \A n \in 1..Len(queue) : queue[n] = Sentinel => n = Len(queue)
  /\ ~late /\ ~gap /\ worker # "running" => \A n \in 1..Len(queue) : queue[n] = Sentinel

\* A statement waits in a queue; one waits behind a sentinel.
HasOp(q) == \E n \in 1..Len(q) : q[n] # Sentinel
HasLateOp(q) == \E m, n \in 1..Len(q) : m < n /\ q[m] = Sentinel /\ q[n] # Sentinel

\* What came behind the sentinel or in the gap is still in the queue, and a running thread has
\* yet to meet the sentinel before it.
RacesLeave ==
  /\ gap => worker # "running" /\ HasOp(queue)
  /\ late => stopEvent
  /\ late /\ worker # "running" => HasOp(queue)
  /\ late /\ worker = "running" => HasLateOp(queue)

\* The inductive invariant of the journal.
WalInv == TypeOK /\ CallHolds /\ AppendsLand /\ SentinelLast /\ RacesLeave

-----------------------------------------------------------------------------
(***************************************************************************)
(* Statements and rows.                                                    *)
(***************************************************************************)
\* A statement keeps the rows well formed; only an append makes a row, and none removes one.
LEMMA EffectRows ==
  ASSUME NEW rows \in Rows, NEW op \in JournalOp
  PROVE  /\ Effect(rows, op) \in Rows
         /\ \A i \in Intent : Effect(rows, op)[i] # "NONE" <=> rows[i] # "NONE" \/ op = Op("append", i)
<1>1. /\ op.kind \in {"append", "commit", "fail", "settle"} /\ op.id \in Intent
      /\ op = [kind |-> op.kind, id |-> op.id]
  BY DEF JournalOp
<1>2. rows \in [Intent -> IntentStatus \cup {"NONE"}]
  BY DEF Rows
<1>3. \A i \in Intent : op = Op("append", i) <=> op.kind = "append" /\ op.id = i
  <2>1. \A i \in Intent : op = Op("append", i) => op.kind = "append" /\ op.id = i
    BY DEF Op
  <2>2. \A i \in Intent : op.kind = "append" /\ op.id = i => op = Op("append", i)
    BY <1>1 DEF Op
  <2> QED
    BY <2>1, <2>2
<1>4. CASE op.kind = "append"
  BY <1>1, <1>2, <1>3, <1>4 DEF Effect, Rows, IntentStatus
<1>5. CASE op.kind = "commit"
  BY <1>1, <1>2, <1>3, <1>5 DEF Effect, Rows, IntentStatus
<1>6. CASE op.kind = "fail"
  BY <1>1, <1>2, <1>3, <1>6 DEF Effect, Rows, IntentStatus
<1>7. CASE op.kind = "settle"
  BY <1>1, <1>2, <1>3, <1>7 DEF Effect, Rows, IntentStatus
<1> QED
  BY <1>1, <1>4, <1>5, <1>6, <1>7

Entry == JournalOp \cup {Sentinel}

Holds(s, x) == \E n \in 1..Len(s) : s[n] = x

\* What a concatenation holds.
LEMMA HoldsConcat ==
  ASSUME NEW s \in Seq(Entry), NEW t \in Seq(Entry), NEW x
  PROVE  Holds(s \o t, x) <=> Holds(s, x) \/ Holds(t, x)
<1>1. /\ s \o t \in Seq(Entry) /\ Len(s \o t) = Len(s) + Len(t)
      /\ \A n \in 1..Len(s) : (s \o t)[n] = s[n] /\ n \in 1..Len(s \o t)
      /\ \A n \in 1..Len(t) : (s \o t)[Len(s) + n] = t[n] /\ Len(s) + n \in 1..Len(s \o t)
  OBVIOUS
<1>2. \A n \in 1..Len(s \o t) :
        \/ n \in 1..Len(s) /\ (s \o t)[n] = s[n]
        \/ n - Len(s) \in 1..Len(t) /\ (s \o t)[n] = t[n - Len(s)]
  OBVIOUS
<1> DEFINE c == s \o t
<1>3. /\ \A n \in 1..Len(s) : c[n] = s[n] /\ n \in 1..Len(c)
      /\ \A n \in 1..Len(t) : c[Len(s) + n] = t[n] /\ Len(s) + n \in 1..Len(c)
      /\ \A n \in 1..Len(c) : \/ n \in 1..Len(s) /\ c[n] = s[n]
                              \/ n - Len(s) \in 1..Len(t) /\ c[n] = t[n - Len(s)]
  BY <1>1, <1>2
<1> HIDE DEF c
<1>4. Holds(c, x) <=> Holds(s, x) \/ Holds(t, x)
  BY <1>3 DEF Holds
<1> QED
  BY <1>4 DEF c

\* What a queue holds after an entry was added at its end.
LEMMA HoldsAppend ==
  ASSUME NEW s \in Seq(Entry), NEW x, NEW q \in Seq(Entry),
         Len(q) = Len(s) + 1, \A n \in 1..Len(s) : q[n] = s[n]
  PROVE  Holds(q, x) <=> Holds(s, x) \/ x = q[Len(s) + 1]
<1>1. /\ \A n \in 1..Len(q) : n \in 1..Len(s) \/ n = Len(s) + 1
      /\ 1..Len(s) \subseteq 1..Len(q) /\ Len(s) + 1 \in 1..Len(q)
  OBVIOUS
<1> QED
  BY <1>1 DEF Holds

\* What a queue holds before and after its head was taken off.
LEMMA HoldsTail ==
  ASSUME NEW s \in Seq(Entry), s # <<>>, NEW x
  PROVE  Holds(s, x) <=> Holds(Tail(s), x) \/ x = Head(s)
<1>1. /\ 1 \in 1..Len(s) /\ Head(s) = s[1]
      /\ \A n \in 1..Len(Tail(s)) : Tail(s)[n] = s[n + 1] /\ n + 1 \in 1..Len(s)
      /\ \A n \in 1..Len(s) : n = 1 \/ (n - 1 \in 1..Len(Tail(s)) /\ Tail(s)[n - 1] = s[n])
  OBVIOUS
<1> QED
  BY <1>1 DEF Holds

\* What waits is in the writer's hand or in the queue, before a step and after it.
LEMMA WaitsWhere ==
  ASSUME TypeOK, TypeOK'
  PROVE  \A i \in Intent :
               /\ AppendWaits(i) <=> Holds(hand, Op("append", i)) \/ Holds(queue, Op("append", i))
               /\ AppendWaits(i)' <=> Holds(hand', Op("append", i)) \/ Holds(queue', Op("append", i))
<1>1. /\ hand \in Seq(Entry) /\ queue \in Seq(Entry)
      /\ hand' \in Seq(Entry) /\ queue' \in Seq(Entry)
  BY DEF TypeOK, Entry
<1>2. \A i : /\ Holds(hand \o queue, Op("append", i))
                <=> Holds(hand, Op("append", i)) \/ Holds(queue, Op("append", i))
             /\ Holds(hand' \o queue', Op("append", i))
                <=> Holds(hand', Op("append", i)) \/ Holds(queue', Op("append", i))
  BY <1>1, HoldsConcat
<1> QED
  BY <1>2 DEF AppendWaits, Pending, Holds, Op

-----------------------------------------------------------------------------
(***************************************************************************)
(* The steps.                                                              *)
(***************************************************************************)
CallRecord == [pc : {"idle", "submit", "put", "fallback"}, op : JournalOp \cup {Sentinel}]

\* A step of a call changes that call only.
LEMMA CallType ==
  ASSUME WalAssumption, call \in [Thread -> CallRecord], NEW t \in Thread
  PROVE  /\ NoCall \in CallRecord /\ NoCall.pc = "idle"
         /\ \A pc \in {"submit", "put", "fallback"} :
              /\ [call[t] EXCEPT !.pc = pc] \in CallRecord
              /\ [call[t] EXCEPT !.pc = pc].op = call[t].op
         /\ \A op \in JournalOp :
              [pc |-> "submit", op |-> op] \in CallRecord /\ [pc |-> "submit", op |-> op].op = op
<1>1. call[t] \in CallRecord
  OBVIOUS
<1> QED
  BY <1>1 DEF CallRecord, NoCall

\* A statement in a call stays a statement.
LEMMA CallStep ==
  ASSUME WalAssumption, TypeOK, CallHolds, Next
  PROVE  call' \in [Thread -> CallRecord] /\ CallHolds'
<1>1. call \in [Thread -> CallRecord]
  BY DEF TypeOK, CallRecord
<1>2. ASSUME NEW t \in Thread, NEW c \in CallRecord, call' = [call EXCEPT ![t] = c],
             c.pc # "idle" => c.op \in JournalOp
      PROVE  call' \in [Thread -> CallRecord] /\ CallHolds'
  BY <1>1, <1>2 DEF CallHolds
<1>3. ASSUME NEW t \in Thread, NEW op \in JournalOp, Begin(t, op)
      PROVE  call' \in [Thread -> CallRecord] /\ CallHolds'
  BY <1>1, <1>2, <1>3, CallType DEF Begin
<1>4. ASSUME NEW t \in Thread, SubmitCheck(t) \/ SubmitFull(t)
      PROVE  call' \in [Thread -> CallRecord] /\ CallHolds'
  <2>1. call[t].op \in JournalOp
    BY <1>4 DEF CallHolds, SubmitCheck, SubmitFull
  <2>2. \E pc \in {"put", "fallback"} : call' = [call EXCEPT ![t] = [call[t] EXCEPT !.pc = pc]]
    BY <1>1, <1>4 DEF SubmitCheck, SubmitFull
  <2>3. PICK pc \in {"put", "fallback"} : call' = [call EXCEPT ![t] = [call[t] EXCEPT !.pc = pc]]
    BY <2>2
  <2>4. [call[t] EXCEPT !.pc = pc] \in CallRecord /\ [call[t] EXCEPT !.pc = pc].op \in JournalOp
    BY <1>1, <2>1, CallType
  <2> QED
    BY <1>2, <2>3, <2>4
<1>5. ASSUME NEW t \in Thread, SubmitPut(t) \/ FallbackExecute(t) \/ FallbackRaises(t)
      PROVE  call' \in [Thread -> CallRecord] /\ CallHolds'
  <2>1. call' = [call EXCEPT ![t] = NoCall]
    BY <1>5 DEF SubmitPut, FallbackExecute, FallbackRaises
  <2> QED
    BY <1>1, <1>2, <2>1, CallType
<1>6. CASE call' = call
  BY <1>1, <1>6 DEF CallHolds
<1> QED
  BY <1>3, <1>4, <1>5, <1>6
     DEF Next, WorkerTake, WorkerWrite, WorkerError, WorkerEmpty, WorkerTest, StopSet, StopPut, StopJoined

\* Type correctness of a step: the queue keeps its bound, and the hand holds one statement.
LEMMA TypeStep ==
  ASSUME WalAssumption, TypeOK, CallHolds, Next
  PROVE  TypeOK'
<1>1. /\ queue \in Seq(JournalOp \cup {Sentinel}) /\ Len(queue) <= QueueSize
      /\ hand \in Seq(JournalOp) /\ Len(hand) <= 1
      /\ disk \in Rows /\ journal \in Rows /\ errors \in Nat
      /\ calls \in [Thread -> 0..MaxCalls] /\ MaxCalls \in Nat /\ MaxErrors \in Nat
      /\ QueueSize \in Nat
  BY DEF TypeOK, WalAssumption
<1>2. call' \in [Thread -> CallRecord]
  BY CallStep
<1>3. queue' \in Seq(JournalOp \cup {Sentinel}) /\ Len(queue') <= QueueSize
  <2>1. ASSUME NEW t \in Thread, SubmitPut(t)
        PROVE  queue' \in Seq(JournalOp \cup {Sentinel}) /\ Len(queue') <= QueueSize
    <3>1. call[t].op \in JournalOp /\ Len(queue) < QueueSize /\ queue' = Append(queue, call[t].op)
      BY <2>1 DEF SubmitPut, CallHolds
    <3> QED
      BY <1>1, <3>1
  <2>2. CASE StopPut
    BY <1>1, <2>2 DEF StopPut
  <2>3. CASE WorkerTake
    BY <1>1, <2>3 DEF WorkerTake
  <2>4. CASE queue' = queue
    BY <1>1, <2>4
  <2> QED
    BY <2>1, <2>2, <2>3, <2>4
    DEF Next, Begin, SubmitCheck, SubmitFull, FallbackExecute, FallbackRaises, WorkerWrite,
        WorkerError, WorkerEmpty, WorkerTest, StopSet, StopJoined
<1>4. hand' \in Seq(JournalOp) /\ Len(hand') <= 1
  <2>1. CASE WorkerTake
    <3>1. Head(queue) \in JournalOp \cup {Sentinel}
      BY <1>1, <2>1 DEF WorkerTake
    <3>2. CASE Head(queue) \in JournalOp
      <4>1. <<Head(queue)>> \in Seq(JournalOp) /\ Len(<<Head(queue)>>) = 1
        BY <3>2
      <4>2. hand' = <<Head(queue)>>
        BY <2>1, <3>2 DEF WorkerTake, WalAssumption
      <4> QED
        BY <4>1, <4>2
    <3>3. CASE Head(queue) = Sentinel
      BY <1>1, <2>1, <3>3 DEF WorkerTake
    <3> QED
      BY <3>1, <3>2, <3>3
  <2>2. CASE hand' = <<>>
    BY <2>2
  <2>3. CASE hand' = hand
    BY <1>1, <2>3
  <2> QED
    BY <2>1, <2>2, <2>3
    DEF Next, Begin, SubmitCheck, SubmitPut, SubmitFull, FallbackExecute, FallbackRaises, Accept,
        WorkerWrite, WorkerError, WorkerEmpty, WorkerTest, StopSet, StopPut, StopJoined
<1>5. disk' \in Rows /\ journal' \in Rows
  <2>1. ASSUME NEW t \in Thread, SubmitPut(t) \/ FallbackExecute(t)
        PROVE  disk' \in Rows /\ journal' \in Rows
    <3>1. call[t].op \in JournalOp
      BY <2>1 DEF SubmitPut, FallbackExecute, CallHolds
    <3> QED
      BY <1>1, <2>1, <3>1, EffectRows DEF SubmitPut, FallbackExecute, Accept
  <2>2. CASE WorkerWrite
    <3>1. Head(hand) \in JournalOp
      BY <1>1, <2>2 DEF WorkerWrite
    <3> QED
      BY <1>1, <2>2, <3>1, EffectRows DEF WorkerWrite
  <2>3. CASE UNCHANGED <<disk, journal>>
    BY <1>1, <2>3
  <2> QED
    BY <2>1, <2>2, <2>3
    DEF Next, Begin, SubmitCheck, SubmitFull, FallbackRaises, WorkerTake, WorkerError, WorkerEmpty,
        WorkerTest, StopSet, StopPut, StopJoined
<1>6. late' \in BOOLEAN /\ gap' \in BOOLEAN
  <2>1. /\ late' \in {late, late \/ Behind}
        /\ gap' \in {gap, gap \/ worker = "timedout", gap /\ stopEvent}
    BY DEF Next, Begin, SubmitCheck, SubmitPut, SubmitFull, FallbackExecute, FallbackRaises, Accept,
           WorkerTake, WorkerWrite, WorkerError, WorkerEmpty, WorkerTest, StopSet, StopPut, StopJoined
  <2> QED
    BY <2>1 DEF TypeOK
<1>7. /\ worker' \in {"running", "timedout", "exited"}
      /\ closing' \in {"no", "event", "joining", "closed"}
  BY DEF TypeOK, Next, Begin, SubmitCheck, SubmitPut, SubmitFull, FallbackExecute, FallbackRaises,
         Accept, WorkerTake, WorkerWrite, WorkerError, WorkerEmpty, WorkerTest, StopSet, StopPut, StopJoined
<1>8. errors' \in Nat /\ calls' \in [Thread -> 0..MaxCalls]
  BY <1>1 DEF Next, Begin, SubmitCheck, SubmitPut, SubmitFull, FallbackExecute, FallbackRaises, Accept,
              WorkerTake, WorkerWrite, WorkerError, WorkerEmpty, WorkerTest, StopSet, StopPut, StopJoined
<1> QED
  BY <1>2, <1>3, <1>4, <1>5, <1>6, <1>7, <1>8 DEF TypeOK, CallRecord

\* Whatever path an append takes, its row is on disk or the statement waits.
LEMMA AppendsStep ==
  ASSUME WalAssumption, TypeOK, TypeOK', CallHolds, AppendsLand, Next
  PROVE  AppendsLand'
<1>1. /\ queue \in Seq(Entry) /\ hand \in Seq(Entry) /\ hand \in Seq(JournalOp) /\ Len(hand) <= 1
      /\ disk \in Rows /\ journal \in Rows /\ errors \in Nat
      /\ JournalOp \subseteq Entry /\ Sentinel \in Entry
  BY DEF TypeOK, Entry
<1>2. errors' = 0 => errors = 0
  BY <1>1 DEF Next, Begin, SubmitCheck, SubmitPut, SubmitFull, FallbackExecute, FallbackRaises, Accept,
              WorkerTake, WorkerWrite, WorkerError, WorkerEmpty, WorkerTest, StopSet, StopPut, StopJoined
<1>3. SUFFICES ASSUME errors' = 0, NEW i \in Intent, journal'[i] # "NONE"
               PROVE  disk'[i] # "NONE" \/ Holds(hand', Op("append", i)) \/ Holds(queue', Op("append", i))
  BY WaitsWhere DEF AppendsLand
<1> DEFINE a == Op("append", i)
           Kept == disk'[i] # "NONE" \/ Holds(hand', a) \/ Holds(queue', a)
<1>4. journal[i] # "NONE" => disk[i] # "NONE" \/ Holds(hand, a) \/ Holds(queue, a)
  BY <1>2, <1>3, WaitsWhere DEF AppendsLand
<1>5. a # Sentinel /\ a \in JournalOp /\ a \in Entry
  BY DEF WalAssumption, Op, JournalOp, Entry
<1> HIDE DEF a
<1>6. ASSUME NEW t \in Thread, SubmitPut(t)
      PROVE  Kept
  <2>1. /\ call[t].op \in JournalOp /\ queue' = Append(queue, call[t].op)
        /\ journal' = Effect(journal, call[t].op) /\ hand' = hand /\ disk' = disk
    BY <1>6 DEF SubmitPut, Accept, CallHolds
  <2>2. journal'[i] # "NONE" => journal[i] # "NONE" \/ call[t].op = a
    BY <1>1, <2>1, EffectRows DEF a
  <2>3. /\ queue' \in Seq(Entry) /\ Len(queue') = Len(queue) + 1
        /\ queue'[Len(queue) + 1] = call[t].op
        /\ \A n \in 1..Len(queue) : queue'[n] = queue[n]
    BY <1>1, <2>1
  <2>4. Holds(queue', a) <=> Holds(queue, a) \/ a = call[t].op
    BY <1>1, <2>3, HoldsAppend
  <2> QED
    BY <1>3, <1>4, <2>1, <2>2, <2>3, <2>4
<1>7. ASSUME NEW t \in Thread, FallbackExecute(t)
      PROVE  Kept
  <2>1. /\ call[t].op \in JournalOp /\ queue' = queue /\ hand' = hand
        /\ journal' = Effect(journal, call[t].op) /\ disk' = Effect(disk, call[t].op)
    BY <1>7 DEF FallbackExecute, Accept, CallHolds
  <2>2. /\ journal'[i] # "NONE" => journal[i] # "NONE" \/ call[t].op = a
        /\ disk[i] # "NONE" \/ call[t].op = a => disk'[i] # "NONE"
    BY <1>1, <2>1, EffectRows DEF a
  <2> QED
    BY <1>3, <1>4, <2>1, <2>2
<1>8. ASSUME WorkerTake
      PROVE  Kept
  <2>1. /\ queue # <<>> /\ queue' = Tail(queue) /\ hand = <<>> /\ disk' = disk /\ journal' = journal
        /\ Head(queue) # Sentinel => hand' = <<Head(queue)>>
    BY <1>8 DEF WorkerTake
  <2>2. Head(queue) \in Entry
    BY <1>1, <2>1
  <2>3. Holds(queue, a) <=> Holds(queue', a) \/ a = Head(queue)
    BY <1>1, <2>1, HoldsTail
  <2>4. ~Holds(hand, a) /\ (a = Head(queue) => Holds(hand', a))
    BY <1>5, <2>1 DEF Holds
  <2> QED
    BY <1>3, <1>4, <2>1, <2>3, <2>4
<1>9. ASSUME WorkerWrite
      PROVE  Kept
  <2>1. /\ hand # <<>> /\ hand' = <<>> /\ queue' = queue /\ journal' = journal
        /\ disk' = Effect(disk, Head(hand))
    BY <1>9 DEF WorkerWrite
  <2>2. Head(hand) \in JournalOp /\ Head(hand) \in Entry /\ Tail(hand) = <<>>
    BY <1>1, <2>1
  <2>3. disk[i] # "NONE" \/ Head(hand) = a => disk'[i] # "NONE"
    BY <1>1, <2>1, <2>2, EffectRows DEF a
  <2>4. Holds(hand, a) => a = Head(hand)
    BY <1>1, <2>1 DEF Holds
  <2> QED
    BY <1>3, <1>4, <2>1, <2>3, <2>4
<1>10. ASSUME StopPut
       PROVE  Kept
  <2>1. hand' = hand /\ disk' = disk /\ journal' = journal
        /\ queue' \in {queue, Append(queue, Sentinel)}
    BY <1>10 DEF StopPut
  <2>2. Holds(queue, a) => Holds(queue', a)
    <3>1. CASE queue' = Append(queue, Sentinel)
      <4>1. /\ queue' \in Seq(Entry) /\ Len(queue') = Len(queue) + 1
            /\ \A n \in 1..Len(queue) : queue'[n] = queue[n]
        BY <1>1, <3>1
      <4> QED
        BY <1>1, <4>1, HoldsAppend
    <3> QED
      BY <2>1, <3>1
  <2> QED
    BY <1>3, <1>4, <2>1, <2>2
<1>11. ~WorkerError
  BY <1>1, <1>3 DEF WorkerError, WalAssumption
<1>12. ASSUME UNCHANGED <<queue, hand, disk, journal>>
       PROVE  Kept
  BY <1>3, <1>4, <1>12
<1> HIDE DEF Kept
<1>13. Kept
  BY <1>6, <1>7, <1>8, <1>9, <1>10, <1>11, <1>12
  DEF Next, Begin, SubmitCheck, SubmitFull, FallbackRaises, WorkerEmpty, WorkerTest, StopSet, StopJoined
<1> QED
  BY <1>13 DEF Kept, a

\* Nothing but a late statement gets behind the sentinel.
LEMMA SentinelStep ==
  ASSUME WalAssumption, TypeOK, CallHolds, SentinelLast, Next
  PROVE  SentinelLast'
<1>1. /\ queue \in Seq(JournalOp \cup {Sentinel}) /\ hand \in Seq(JournalOp)
      /\ late \in BOOLEAN /\ gap \in BOOLEAN /\ worker \in {"running", "timedout", "exited"}
      /\ closing \in {"no", "event", "joining", "closed"}
      /\ QueueSize \in Nat
  BY DEF TypeOK, WalAssumption
<1>2. ASSUME NEW t \in Thread, SubmitPut(t)
      PROVE  SentinelLast'
  <2>1. /\ call[t].op # Sentinel /\ queue' = Append(queue, call[t].op)
        /\ UNCHANGED <<hand, closing, worker>> /\ late' = (late \/ Behind)
        /\ gap' = (gap \/ worker = "timedout")
    BY <1>2 DEF SubmitPut, Accept, CallHolds, WalAssumption
  <2>2. call[t].op \in JournalOp
    BY <1>2 DEF SubmitPut, CallHolds
  <2>3. /\ Len(queue') = Len(queue) + 1 /\ queue'[Len(queue) + 1] # Sentinel
        /\ \A n \in 1..Len(queue) : queue'[n] = queue[n]
        /\ \A n \in 1..Len(queue') : n \in 1..Len(queue) \/ n = Len(queue) + 1
    BY <1>1, <2>1, <2>2
  <2>4. \A n \in 1..Len(queue') : queue'[n] = Sentinel => n \in 1..Len(queue) /\ queue[n] = Sentinel
    BY <2>3
  <2>5. ~late' => worker # "exited" /\ ~late
    BY <2>1 DEF Behind
  <2>6. ~late' => \A n \in 1..Len(queue') : queue'[n] # Sentinel
    BY <2>1, <2>4 DEF Behind
  <2>7. ~late' /\ ~gap' => worker' = "running"
    BY <1>1, <2>1, <2>5
  <2>8. /\ worker' # "running" => hand' = <<>>
        /\ worker' = "exited" => stopEvent'
        /\ (\E n \in 1..Len(queue') : queue'[n] = Sentinel) => closing' \in {"joining", "closed"}
    BY <2>1, <2>4 DEF SentinelLast, stopEvent
  <2> QED
    BY <2>6, <2>7, <2>8 DEF SentinelLast
<1>3. ASSUME StopPut
      PROVE  SentinelLast'
  <2>1. /\ closing = "event" /\ closing' = "joining" /\ UNCHANGED <<hand, worker, late, gap>>
        /\ queue' = queue \/ queue' = Append(queue, Sentinel)
    BY <1>3 DEF StopPut
  <2>2. \A n \in 1..Len(queue) : queue[n] # Sentinel
    BY <2>1 DEF SentinelLast
  <2>3. CASE queue' = queue
    BY <2>1, <2>2, <2>3 DEF SentinelLast, stopEvent
  <2>4. CASE queue' = Append(queue, Sentinel)
    <3>1. /\ Len(queue') = Len(queue) + 1 /\ queue'[Len(queue) + 1] = Sentinel
          /\ \A n \in 1..Len(queue) : queue'[n] = queue[n]
          /\ \A n \in 1..Len(queue') : n \in 1..Len(queue) \/ n = Len(queue) + 1
      BY <1>1, <2>4
    <3> QED
      BY <2>1, <2>2, <3>1 DEF SentinelLast, stopEvent
  <2> QED
    BY <2>1, <2>3, <2>4
<1>4. ASSUME WorkerTake
      PROVE  SentinelLast'
  <2>1. /\ worker = "running" /\ hand = <<>> /\ queue # <<>> /\ queue' = Tail(queue)
        /\ UNCHANGED <<closing, late, gap>>
        /\ \/ Head(queue) = Sentinel /\ worker' = "exited" /\ hand' = <<>>
           \/ Head(queue) # Sentinel /\ worker' = "running"
    BY <1>4 DEF WorkerTake
  <2>2. /\ 1 \in 1..Len(queue) /\ Head(queue) = queue[1] /\ Len(queue') = Len(queue) - 1
        /\ \A n \in 1..Len(queue') : queue'[n] = queue[n + 1] /\ n + 1 \in 1..Len(queue)
    BY <1>1, <2>1
  <2>3. Len(queue') = 0 => queue' = <<>>
    BY <1>1, <2>1
  <2>4. Head(queue) = Sentinel => stopEvent /\ (~late => Len(queue') = 0)
    BY <2>2 DEF SentinelLast, stopEvent
  <2>5. (\E n \in 1..Len(queue') : queue'[n] = Sentinel) => closing \in {"joining", "closed"}
    BY <2>2 DEF SentinelLast
  <2>6. ~late => \A n \in 1..Len(queue') : queue'[n] = Sentinel => n = Len(queue')
    <3>1. ~late => \A n \in 1..Len(queue') : queue'[n] = Sentinel => n + 1 = Len(queue)
      BY <2>2 DEF SentinelLast
    <3>2. Len(queue) \in Nat
      BY <1>1
    <3> QED
      BY <2>2, <3>1, <3>2
  <2> QED
    BY <2>1, <2>3, <2>4, <2>5, <2>6 DEF SentinelLast, stopEvent
<1>5. ASSUME WorkerEmpty \/ WorkerTest
      PROVE  SentinelLast'
  <2>1. CASE WorkerEmpty
    BY <1>1, <2>1 DEF WorkerEmpty, SentinelLast, stopEvent
  <2>2. CASE WorkerTest
    BY <1>1, <2>2 DEF WorkerTest, SentinelLast, stopEvent
  <2> QED
    BY <1>5, <2>1, <2>2
<1>6. ASSUME hand' = <<>> \/ hand' = hand, UNCHANGED <<queue, worker, late, gap>>,
             \/ closing' = closing
             \/ closing = "no" /\ closing' = "event"
             \/ closing = "joining" /\ closing' = "closed"
      PROVE  SentinelLast'
  BY <1>6 DEF SentinelLast, stopEvent
<1> QED
  BY <1>2, <1>3, <1>4, <1>5, <1>6
  DEF Next, Begin, SubmitCheck, SubmitFull, FallbackExecute, FallbackRaises, Accept, WorkerWrite,
      WorkerError, StopSet, StopJoined

\* A statement that was raced by stop() is not executed.
LEMMA RacesStep ==
  ASSUME WalAssumption, TypeOK, CallHolds, SentinelLast, RacesLeave, Next
  PROVE  RacesLeave'
<1>1. /\ queue \in Seq(JournalOp \cup {Sentinel}) /\ QueueSize \in Nat /\ Len(queue) \in Nat
      /\ late \in BOOLEAN /\ gap \in BOOLEAN /\ worker \in {"running", "timedout", "exited"}
      /\ closing \in {"no", "event", "joining", "closed"}
  BY DEF TypeOK, WalAssumption
<1>2. ASSUME NEW x, x \in JournalOp \cup {Sentinel}, queue' = Append(queue, x)
      PROVE  /\ HasOp(queue) => HasOp(queue')
             /\ HasLateOp(queue) => HasLateOp(queue')
             /\ x # Sentinel => HasOp(queue')
             /\ x # Sentinel /\ (\E n \in 1..Len(queue) : queue[n] = Sentinel) => HasLateOp(queue')
  <2>1. /\ \A n \in 1..Len(queue) : queue'[n] = queue[n] /\ n \in 1..Len(queue') /\ n < Len(queue) + 1
        /\ Len(queue) + 1 \in 1..Len(queue') /\ queue'[Len(queue) + 1] = x
    BY <1>1, <1>2
  <2> QED
    BY <2>1 DEF HasOp, HasLateOp
<1>3. ASSUME NEW t \in Thread, SubmitPut(t)
      PROVE  RacesLeave'
  <2>1. /\ call[t].op \in JournalOp /\ call[t].op # Sentinel /\ queue' = Append(queue, call[t].op)
        /\ UNCHANGED <<closing, worker>> /\ late' = (late \/ Behind)
        /\ gap' = (gap \/ worker = "timedout")
    BY <1>3 DEF SubmitPut, Accept, CallHolds, WalAssumption
  <2>2. /\ HasOp(queue') /\ (HasLateOp(queue) => HasLateOp(queue'))
        /\ (\E n \in 1..Len(queue) : queue[n] = Sentinel) => HasLateOp(queue')
    BY <1>2, <2>1
  <2>3. Behind => stopEvent
    BY DEF Behind, SentinelLast, stopEvent
  <2>4. late' /\ worker' = "running" => HasLateOp(queue')
    BY <2>1, <2>2 DEF RacesLeave, Behind
  <2> QED
    BY <2>1, <2>2, <2>3, <2>4 DEF RacesLeave, stopEvent
<1>4. ASSUME StopPut
      PROVE  RacesLeave'
  <2>1. /\ closing' = "joining" /\ UNCHANGED <<worker, late, gap>>
        /\ queue' = queue \/ queue' = Append(queue, Sentinel)
    BY <1>4 DEF StopPut
  <2>2. (HasOp(queue) => HasOp(queue')) /\ (HasLateOp(queue) => HasLateOp(queue'))
    BY <1>2, <2>1
  <2> QED
    BY <2>1, <2>2 DEF RacesLeave, stopEvent
<1>5. ASSUME WorkerTake
      PROVE  RacesLeave'
  <2>1. /\ worker = "running" /\ queue # <<>> /\ queue' = Tail(queue)
        /\ UNCHANGED <<closing, late, gap>>
        /\ \/ Head(queue) = Sentinel /\ worker' = "exited"
           \/ Head(queue) # Sentinel /\ worker' = "running"
    BY <1>5 DEF WorkerTake
  <2>2. /\ Head(queue) = queue[1]
        /\ \A n \in 1..Len(queue) : n = 1 \/ (n - 1 \in 1..Len(queue') /\ queue'[n - 1] = queue[n])
    BY <1>1, <2>1
  <2>3. ASSUME late
        PROVE  HasOp(queue') /\ (Head(queue) # Sentinel => HasLateOp(queue'))
    <3>1. PICK m, n \in 1..Len(queue) : m < n /\ queue[m] = Sentinel /\ queue[n] # Sentinel
      BY <2>1, <2>3 DEF RacesLeave, HasLateOp
    <3>2. n # 1 /\ (m # 1 => m - 1 < n - 1)
      BY <1>1, <3>1
    <3>3. HasOp(queue')
      BY <2>2, <3>1, <3>2 DEF HasOp
    <3>4. Head(queue) # Sentinel => HasLateOp(queue')
      BY <2>2, <3>1, <3>2 DEF HasLateOp
    <3> QED
      BY <3>3, <3>4
  <2> QED
    BY <2>1, <2>3 DEF RacesLeave, stopEvent
<1>6. ASSUME WorkerEmpty \/ WorkerTest
      PROVE  RacesLeave'
  <2>1. CASE WorkerEmpty
    <3>1. ~HasLateOp(queue)
      BY <2>1 DEF WorkerEmpty, HasLateOp
    <3>2. ~late /\ ~gap /\ UNCHANGED <<late, gap>>
      BY <2>1, <3>1 DEF WorkerEmpty, RacesLeave
    <3> QED
      BY <3>2 DEF RacesLeave
  <2>2. CASE WorkerTest
    <3>1. /\ worker = "timedout" /\ UNCHANGED <<queue, closing, late>> /\ gap' = (gap /\ stopEvent)
          /\ worker' = IF stopEvent THEN "exited" ELSE "running"
      BY <2>2 DEF WorkerTest
    <3> QED
      BY <3>1 DEF RacesLeave, stopEvent
  <2> QED
    BY <1>6, <2>1, <2>2
<1>7. ASSUME UNCHANGED <<queue, worker, late, gap>>, stopEvent => stopEvent'
      PROVE  RacesLeave'
  BY <1>7 DEF RacesLeave
<1>8. ASSUME \/ \E t \in Thread : \/ \E op \in JournalOp : Begin(t, op)
                                 \/ SubmitCheck(t) \/ SubmitFull(t)
                                 \/ FallbackExecute(t) \/ FallbackRaises(t)
             \/ WorkerWrite \/ WorkerError \/ StopSet \/ StopJoined
      PROVE  UNCHANGED <<queue, worker, late, gap>> /\ (stopEvent => stopEvent')
  BY <1>8 DEF Begin, SubmitCheck, SubmitFull, FallbackExecute, FallbackRaises, Accept, WorkerWrite,
              WorkerError, StopSet, StopJoined, stopEvent
<1> QED
  BY <1>3, <1>4, <1>5, <1>6, <1>7, <1>8 DEF Next

-----------------------------------------------------------------------------
(***************************************************************************)
(* The invariant and what follows from it.                                 *)
(***************************************************************************)
\* Nothing was submitted in the initial state.
LEMMA InitWal ==
  ASSUME WalAssumption, Init
  PROVE  WalInv
<1>1. NoRows \in Rows /\ \A i \in Intent : NoRows[i] = "NONE"
  BY DEF NoRows, Rows
<1>2. NoCall \in CallRecord /\ NoCall.pc = "idle"
  BY DEF NoCall, CallRecord
<1>3. late \in BOOLEAN /\ gap \in BOOLEAN /\ call \in [Thread -> CallRecord]
  BY <1>2 DEF Init
<1>4. TypeOK
  BY <1>1, <1>3 DEF Init, TypeOK, CallRecord, WalAssumption
<1>5. CallHolds /\ AppendsLand
  BY <1>1, <1>2 DEF Init, CallHolds, AppendsLand
<1>6. SentinelLast
  BY DEF Init, SentinelLast, stopEvent
<1>7. RacesLeave
  BY DEF Init, RacesLeave
<1> QED
  BY <1>4, <1>5, <1>6, <1>7 DEF WalInv

\* Every step of callers, writer thread and close() keeps the invariant.
LEMMA NextWal ==
  ASSUME WalAssumption, WalInv, [Next]_vars
  PROVE  WalInv'
<1>1. CASE Next
  BY <1>1, CallStep, TypeStep, AppendsStep, SentinelStep, RacesStep DEF WalInv
<1>2. CASE UNCHANGED vars
  BY <1>2 DEF WalInv, TypeOK, CallHolds, AppendsLand, AppendWaits, Pending, SentinelLast, RacesLeave,
                    HasOp, HasLateOp, stopEvent, vars
<1> QED
  BY <1>1, <1>2

\* The journal's invariant holds in every reachable state.
THEOREM WalInvariant == Spec => []WalInv
BY WalAssumption, InitWal, NextWal, PTL DEF Spec

\* Type correctness: the queue keeps its bound whatever the threads do between the test of
\* the stop event and put_nowait().
THEOREM JournalTypeCorrect == Spec => []TypeOK
<1>1. WalInv => TypeOK
  BY DEF WalInv
<1> QED
  BY <1>1, WalInvariant, PTL

\* When nobody is at work on the journal any more, every intent whose append was accepted has
\* its row, but for the refused, the late and the ones in the gap.
THEOREM AppendsPersist == Spec => []AppendedIsPersisted
<1>1. WalInv => AppendedIsPersisted
  <2> SUFFICES ASSUME WalInv, Quiescent, errors = 0, ~late, ~gap, NEW i \in Intent,
                      journal[i] # "NONE"
               PROVE  disk[i] # "NONE"
    BY DEF AppendedIsPersisted
  <2>1. hand = <<>> /\ queue \in Seq(JournalOp \cup {Sentinel})
    BY DEF Quiescent, WalInv, TypeOK
  <2>2. \A n \in 1..Len(queue) : queue[n] = Sentinel
    BY <2>1 DEF Quiescent, WalInv, SentinelLast
  <2>3. Op("append", i) \in JournalOp /\ Op("append", i) # Sentinel
    BY WalAssumption DEF Op, JournalOp
  <2>4. Len(Pending) = Len(queue) /\ \A n \in 1..Len(queue) : Pending[n] = queue[n]
    BY <2>1 DEF Pending
  <2>5. ~AppendWaits(i)
    BY <2>2, <2>3, <2>4 DEF AppendWaits
  <2> QED
    BY <2>5 DEF WalInv, AppendsLand
<1> QED
  BY <1>1, WalInvariant, PTL

\* A writer thread that left its loop has emptied the queue, but for a statement that was put
\* behind the sentinel, after the thread had left, or in the gap; and each of these is lost.
THEOREM StopLosesOnlyRaces == Spec => []StopDrains
<1>1. WalInv => StopDrains
  <2> SUFFICES ASSUME WalInv, worker = "exited"
               PROVE  Drained <=> ~late /\ ~gap
    BY DEF StopDrains
  <2>1. hand = <<>> /\ queue \in Seq(JournalOp \cup {Sentinel})
    BY DEF WalInv, SentinelLast, TypeOK
  <2>2. ~late /\ ~gap => \A n \in 1..Len(queue) : queue[n] = Sentinel
    BY DEF WalInv, SentinelLast
  <2>3. late \/ gap => HasOp(queue)
    BY DEF WalInv, RacesLeave
  <2>4. Len(Pending) = Len(queue) /\ \A n \in 1..Len(queue) : Pending[n] = queue[n]
    BY <2>1 DEF Pending
  <2> QED
    BY <2>2, <2>3, <2>4 DEF Drained, HasOp
<1> QED
  BY <1>1, WalInvariant, PTL

-----------------------------------------------------------------------------
(***************************************************************************)
(* What replaying waiting statements computes.                             *)
(***************************************************************************)
\* What the writer thread does to the rows with one entry of its queue.
Apply(rows, entry) == IF entry = Sentinel THEN rows ELSE Effect(rows, entry)

Follows(after, ops, m) == \A n \in 1..m : after[n] = Apply(after[n - 1], ops[n])

Alike(p, q, m) == \A n \in 1..m : p[n] = q[n]

\* Entries keep the rows well formed.
LEMMA ApplyRows ==
  ASSUME NEW rows \in Rows, NEW entry \in Entry
  PROVE  Apply(rows, entry) \in Rows
BY EffectRows DEF Apply, Entry

\* A set of natural numbers has a least element.
LEMMA LeastNumber ==
  ASSUME NEW T \in SUBSET Nat, NEW y \in T
  PROVE  \E x \in T : \A z \in T : x <= z
<1>1. IsWellFoundedOn(OpToRel(<, Nat), Nat)
  BY NatLessThanWellFounded
<1>2. PICK x \in T : \A z \in T : ~(<<z, x>> \in OpToRel(<, Nat))
  BY <1>1, WFMin
<1>3. \A z \in T : ~(z < x)
  BY <1>2 DEF OpToRel
<1> QED
  BY <1>3

\* There are rows after each prefix of the waiting statements.
LEMMA ReplayExists ==
  ASSUME NEW rows \in Rows, NEW ops \in Seq(Entry)
  PROVE  \E after \in [0..Len(ops) -> Rows] : after[0] = rows /\ Follows(after, ops, Len(ops))
<1> DEFINE Good(m) == \E after \in [0..m -> Rows] : after[0] = rows /\ Follows(after, ops, m)
           T == {m \in 0..Len(ops) : ~Good(m)}
<1>1. Good(0)
  <2> DEFINE f == [n \in 0..0 |-> rows]
  <2>1. f \in [0..0 -> Rows] /\ f[0] = rows /\ Follows(f, ops, 0)
    BY DEF Follows
  <2> QED
    BY <2>1
<1>2. ASSUME NEW m \in 1..Len(ops), Good(m - 1)
      PROVE  Good(m)
  <2>1. PICK f \in [0..(m - 1) -> Rows] : f[0] = rows /\ Follows(f, ops, m - 1)
    BY <1>2
  <2>2. m - 1 \in 0..(m - 1) /\ m \in Nat /\ m # 0 /\ ops[m] \in Entry
    BY <1>2
  <2>3. Apply(f[m - 1], ops[m]) \in Rows
    BY <2>2, ApplyRows
  <2> DEFINE g == [n \in 0..m |-> IF n = m THEN Apply(f[m - 1], ops[m]) ELSE f[n]]
  <2>4. g \in [0..m -> Rows] /\ g[0] = rows
    BY <2>1, <2>2, <2>3
  <2>5. g[m] = Apply(g[m - 1], ops[m]) /\ \A n \in 0..(m - 1) : g[n] = f[n]
    BY <2>2
  <2> HIDE DEF g
  <2>6. \A n \in 1..m : n = m \/ (n \in 1..(m - 1) /\ n \in 0..(m - 1) /\ n - 1 \in 0..(m - 1))
    BY <2>2
  <2>7. Follows(g, ops, m)
    BY <2>1, <2>5, <2>6 DEF Follows
  <2> QED
    BY <2>4, <2>7
<1> HIDE DEF Good
<1>3. T \in SUBSET Nat
  OBVIOUS
<1>4. T = {}
  <2>1. SUFFICES ASSUME NEW y \in T
                 PROVE  FALSE
    OBVIOUS
  <2>2. PICK x \in T : \A z \in T : x <= z
    BY <1>3, LeastNumber
  <2>3. x \in 1..Len(ops) /\ x - 1 \in 0..Len(ops)
    BY <1>1, <2>2
  <2>4. x - 1 \notin T
    BY <2>2, <2>3
  <2>5. Good(x - 1)
    BY <2>3, <2>4
  <2> QED
    BY <1>2, <2>2, <2>3, <2>5
<1>5. Len(ops) \in 0..Len(ops)
  OBVIOUS
<1>6. Good(Len(ops))
  BY <1>4, <1>5
<1> QED
  BY <1>6 DEF Good

\* What ReplayTo computes.
LEMMA ReplayToFacts ==
  ASSUME NEW rows \in Rows, NEW ops \in Seq(Entry)
  PROVE  LET after == ReplayTo(rows, ops) IN
         after \in [0..Len(ops) -> Rows] /\ after[0] = rows /\ Follows(after, ops, Len(ops))
<1> DEFINE P(f) == f = [n \in 0..Len(ops) |->
                          IF n = 0 THEN rows
                          ELSE IF ops[n] = Sentinel THEN f[n - 1] ELSE Effect(f[n - 1], ops[n])]
<1>1. ReplayTo(rows, ops) = CHOOSE f : P(f)
  BY DEF ReplayTo
<1>2. PICK g \in [0..Len(ops) -> Rows] : g[0] = rows /\ Follows(g, ops, Len(ops))
  BY ReplayExists
<1>3. P(g)
  <2>1. \A n \in 0..Len(ops) : n = 0 \/ n \in 1..Len(ops)
    OBVIOUS
  <2>2. \A n \in 0..Len(ops) :
          g[n] = IF n = 0 THEN rows
                 ELSE IF ops[n] = Sentinel THEN g[n - 1] ELSE Effect(g[n - 1], ops[n])
    BY <1>2, <2>1 DEF Follows, Apply
  <2> QED
    BY <2>2
<1>4. P(CHOOSE f : P(f))
  <2> HIDE DEF P
  <2> QED
    BY <1>3
<1>5. P(ReplayTo(rows, ops))
  <2> HIDE DEF P
  <2> QED
    BY <1>1, <1>4
<1> DEFINE after == ReplayTo(rows, ops)
<1>6. after = [n \in 0..Len(ops) |->
                 IF n = 0 THEN rows
                 ELSE IF ops[n] = Sentinel THEN after[n - 1] ELSE Effect(after[n - 1], ops[n])]
  BY <1>5
<1> HIDE DEF after
<1>7. after[0] = rows /\ Follows(after, ops, Len(ops))
  <2>1. 0 \in 0..Len(ops) /\ \A n \in 1..Len(ops) : n \in 0..Len(ops) /\ n # 0
    OBVIOUS
  <2>2. \A n \in 0..Len(ops) :
          after[n] = IF n = 0 THEN rows
                     ELSE IF ops[n] = Sentinel THEN after[n - 1] ELSE Effect(after[n - 1], ops[n])
    BY <1>6, Zenon
  <2>3. after[0] = rows
    BY <2>1, <2>2
  <2>4. \A n \in 1..Len(ops) : after[n] = Apply(after[n - 1], ops[n])
    BY <2>1, <2>2 DEF Apply
  <2> QED
    BY <2>3, <2>4 DEF Follows
<1>8. \A n \in 0..Len(ops) : after[n] \in Rows
  <2> DEFINE T == {n \in 0..Len(ops) : after[n] \notin Rows}
  <2>1. T \in SUBSET Nat
    OBVIOUS
  <2>2. SUFFICES ASSUME NEW y \in T
                 PROVE  FALSE
    OBVIOUS
  <2>3. PICK x \in T : \A z \in T : x <= z
    BY <2>1, LeastNumber
  <2>4. x \in 1..Len(ops) /\ x - 1 \in 0..Len(ops) /\ ops[x] \in Entry
    BY <1>7, <2>3
  <2>5. x - 1 \notin T
    BY <2>3, <2>4
  <2>6. after[x - 1] \in Rows
    BY <2>4, <2>5
  <2>7. after[x] = Apply(after[x - 1], ops[x])
    BY <1>7, <2>4 DEF Follows
  <2> QED
    BY <2>3, <2>4, <2>6, <2>7, ApplyRows
<1>9. after \in [0..Len(ops) -> Rows]
  BY <1>6, <1>8
<1> QED
  BY <1>7, <1>9 DEF after

\* Rows that start alike and follow the same statements stay alike.
LEMMA FollowsAgree ==
  ASSUME NEW m \in Nat, NEW f, NEW g, NEW p, NEW q,
         f[0] = g[0], Follows(f, p, m), Follows(g, q, m), Alike(p, q, m)
  PROVE  f[m] = g[m]
<1> DEFINE T == {n \in 0..m : f[n] # g[n]}
<1>1. T \in SUBSET Nat
  OBVIOUS
<1>2. T = {}
  <2>1. SUFFICES ASSUME NEW y \in T
                 PROVE  FALSE
    OBVIOUS
  <2>2. PICK x \in T : \A z \in T : x <= z
    BY <1>1, LeastNumber
  <2>3. x \in 1..m /\ x - 1 \in 0..m
    BY <2>2
  <2>4. x - 1 \notin T
    BY <2>2, <2>3
  <2>5. f[x - 1] = g[x - 1]
    BY <2>3, <2>4
  <2> QED
    BY <2>2, <2>3, <2>5 DEF Follows, Alike
<1> QED
  BY <1>2

\* The rows after the last waiting statement are well formed.
LEMMA ReplayRows ==
  ASSUME NEW rows \in Rows, NEW ops \in Seq(Entry)
  PROVE  Replay(rows, ops) \in Rows
<1>1. Len(ops) \in 0..Len(ops)
  OBVIOUS
<1> QED
  BY <1>1, ReplayToFacts DEF Replay

\* Replay looks at the statements only, not at how their sequence was put together.
LEMMA ReplaySame ==
  ASSUME NEW rows \in Rows, NEW ops \in Seq(Entry), NEW q \in Seq(Entry),
         Len(q) = Len(ops), \A n \in 1..Len(ops) : q[n] = ops[n]
  PROVE  Replay(rows, q) = Replay(rows, ops)
<1> DEFINE f == ReplayTo(rows, ops)
           g == ReplayTo(rows, q)
<1>1. f[0] = rows /\ g[0] = rows /\ Follows(f, ops, Len(ops)) /\ Follows(g, q, Len(q))
  BY ReplayToFacts
<1> HIDE DEF f, g
<1>2. Follows(g, q, Len(ops)) /\ Alike(ops, q, Len(ops))
  BY <1>1 DEF Alike
<1>3. Len(ops) \in Nat
  OBVIOUS
<1>4. f[Len(ops)] = g[Len(ops)]
  BY <1>1, <1>2, <1>3, FollowsAgree
<1> QED
  BY <1>4 DEF Replay, f, g

\* One more statement at the end is executed last.
LEMMA ReplayLast ==
  ASSUME NEW rows \in Rows, NEW ops \in Seq(Entry), NEW q \in Seq(Entry),
         Len(q) = Len(ops) + 1, \A n \in 1..Len(ops) : q[n] = ops[n]
  PROVE  Replay(rows, q) = Apply(Replay(rows, ops), q[Len(q)])
<1> DEFINE f == ReplayTo(rows, ops)
           g == ReplayTo(rows, q)
<1>1. f[0] = rows /\ g[0] = rows /\ Follows(f, ops, Len(ops)) /\ Follows(g, q, Len(q))
  BY ReplayToFacts
<1> HIDE DEF f, g
<1>2. Len(ops) \in Nat /\ Len(q) \in 1..Len(q) /\ Len(q) - 1 = Len(ops)
  OBVIOUS
<1>3. \A n \in 1..Len(ops) : n \in 1..Len(q)
  BY <1>2
<1>4. Follows(g, q, Len(ops)) /\ Alike(ops, q, Len(ops))
  BY <1>1, <1>3 DEF Follows, Alike
<1>5. f[Len(ops)] = g[Len(ops)]
  BY <1>1, <1>2, <1>4, FollowsAgree
<1>6. g[Len(q)] = Apply(g[Len(q) - 1], q[Len(q)])
  BY <1>1, <1>2 DEF Follows
<1>7. g[Len(q)] = Apply(f[Len(ops)], q[Len(q)])
  BY <1>2, <1>5, <1>6
<1> QED
  BY <1>7 DEF Replay, f, g

\* The statement at the head is executed first.
LEMMA ReplayFirst ==
  ASSUME NEW rows \in Rows, NEW ops \in Seq(Entry), NEW q \in Seq(Entry),
         Len(ops) = Len(q) + 1, \A n \in 1..Len(q) : q[n] = ops[n + 1]
  PROVE  Replay(rows, ops) = Replay(Apply(rows, ops[1]), q)
<1> DEFINE f == ReplayTo(rows, ops)
           g == ReplayTo(Apply(rows, ops[1]), q)
           s == [n \in 0..Len(q) |-> f[n + 1]]
           p == [n \in 1..Len(q) |-> ops[n + 1]]
<1>1. Len(q) \in Nat /\ 1 \in 1..Len(ops) /\ ops[1] \in Entry /\ Len(q) \in 0..Len(q)
  OBVIOUS
<1>2. f[0] = rows /\ Follows(f, ops, Len(ops))
  BY ReplayToFacts
<1>3. g[0] = Apply(rows, ops[1]) /\ Follows(g, q, Len(q))
  BY <1>1, ApplyRows, ReplayToFacts
<1> HIDE DEF f, g
<1>4. f[1] = Apply(f[1 - 1], ops[1])
  BY <1>1, <1>2 DEF Follows
<1>5. s[0] = g[0]
  BY <1>1, <1>2, <1>3, <1>4
<1>6. \A n \in 1..Len(q) : /\ n + 1 \in 1..Len(ops) /\ (n + 1) - 1 = (n - 1) + 1
                           /\ n \in 0..Len(q) /\ n - 1 \in 0..Len(q)
  BY <1>1
<1>7. \A n \in 1..Len(q) : f[n + 1] = Apply(f[(n - 1) + 1], ops[n + 1])
  BY <1>2, <1>6 DEF Follows
<1>8. \A n \in 1..Len(q) : s[n] = Apply(s[n - 1], p[n])
  BY <1>6, <1>7
<1>9. Alike(p, q, Len(q))
  BY DEF Alike
<1>10. s[Len(q)] = f[Len(ops)]
  BY <1>1
<1> HIDE DEF s, p
<1>11. s[Len(q)] = g[Len(q)]
  <2>1. Follows(s, p, Len(q))
    BY <1>8 DEF Follows
  <2> QED
    BY <1>1, <1>3, <1>5, <1>9, <2>1, FollowsAgree
<1>12. f[Len(ops)] = g[Len(q)]
  BY <1>10, <1>11
<1> QED
  BY <1>12 DEF Replay, f, g

-----------------------------------------------------------------------------
(***************************************************************************)
(* The refinement of SyncJournal.                                          *)
(***************************************************************************)
\* SQLite refuses nothing and the writer is not stopped.
Undisturbed == errors = 0 /\ ~stopEvent

\* put_nowait() never finds the queue full.
NeverFull == \A t \in Thread : ~SubmitFull(t)

\* No call takes the journal's own connection.
NoFallback == \A t \in Thread : call[t].pc # "fallback"

\* The waiting entries form a sequence.
LEMMA PendingType ==
  ASSUME TypeOK
  PROVE  Pending \in Seq(Entry) /\ Len(Pending) = Len(hand) + Len(queue)
BY DEF TypeOK, Pending, Entry

\* An accepted statement takes effect on the replayed rows at once.
LEMMA PutWrites ==
  ASSUME WalInv, WalInv', NEW t \in Thread, SubmitPut(t)
  PROVE  call[t].op \in JournalOp /\ Sync!Write(call[t].op)
<1>1. TypeOK /\ TypeOK' /\ call[t].op \in JournalOp
  BY DEF WalInv, CallHolds, SubmitPut
<1>2. disk' = disk /\ hand' = hand /\ queue' = Append(queue, call[t].op)
  BY DEF SubmitPut, Accept
<1>3. /\ Pending \in Seq(Entry) /\ Pending' \in Seq(Entry) /\ disk \in Rows
      /\ Len(Pending) = Len(hand) + Len(queue) /\ Len(Pending') = Len(hand') + Len(queue')
  <2>1. Pending' \in Seq(Entry) /\ Len(Pending') = Len(hand') + Len(queue')
    BY <1>1 DEF TypeOK, Pending, Entry
  <2> QED
    BY <1>1, <2>1, PendingType DEF TypeOK
<1>4. /\ Len(Pending') = Len(Pending) + 1
      /\ \A n \in 1..Len(Pending) : Pending'[n] = Pending[n]
      /\ Pending'[Len(Pending')] = call[t].op
  BY <1>1, <1>2 DEF TypeOK, Pending, Entry
<1>5. Replay(disk, Pending') = Apply(Replay(disk, Pending), Pending'[Len(Pending')])
  BY <1>3, <1>4, ReplayLast
<1>6. call[t].op # Sentinel
  BY <1>1, WalAssumption
<1>7. Replay(disk', Pending') = Effect(Replay(disk, Pending), call[t].op)
  BY <1>2, <1>4, <1>5, <1>6 DEF Apply
<1>8. Sync!Effect(Replay(disk, Pending), call[t].op) = Effect(Replay(disk, Pending), call[t].op)
  BY DEF Sync!Effect, Effect
<1> QED
  BY <1>1, <1>7, <1>8 DEF Sync!Write

\* Taking a statement off the queue changes nothing in what waits.
LEMMA TakeStutters ==
  ASSUME WalInv, WalInv', ~stopEvent, WorkerTake
  PROVE  Replay(disk, Pending)' = Replay(disk, Pending)
<1>1. TypeOK /\ TypeOK' /\ disk' = disk
  BY DEF WalInv, WorkerTake
<1>2. hand = <<>> /\ queue # <<>> /\ queue' = Tail(queue)
  BY DEF WorkerTake
<1>3. Head(queue) # Sentinel
  <2>1. 1 \in 1..Len(queue) /\ Head(queue) = queue[1]
    BY <1>1, <1>2 DEF TypeOK
  <2> QED
    BY <2>1 DEF WalInv, SentinelLast, stopEvent
<1>4. hand' = <<Head(queue)>>
  BY <1>3 DEF WorkerTake
<1>5. Pending \in Seq(Entry) /\ Pending' \in Seq(Entry) /\ disk \in Rows
  <2>1. Pending' \in Seq(Entry)
    BY <1>1 DEF TypeOK, Pending, Entry
  <2> QED
    BY <1>1, <2>1, PendingType DEF TypeOK
<1>6. Len(Pending') = Len(Pending) /\ \A n \in 1..Len(Pending) : Pending'[n] = Pending[n]
  BY <1>1, <1>2, <1>4 DEF TypeOK, Pending, Entry
<1>7. Replay(disk, Pending') = Replay(disk, Pending)
  BY <1>5, <1>6, ReplaySame
<1> QED
  BY <1>1, <1>7

\* Executing the statement in hand changes the rows on disk and not the replayed ones.
LEMMA WriteStutters ==
  ASSUME WalInv, WalInv', WorkerWrite
  PROVE  Replay(disk, Pending)' = Replay(disk, Pending)
<1>1. TypeOK /\ TypeOK'
  BY DEF WalInv
<1>2. hand # <<>> /\ disk' = Effect(disk, Head(hand)) /\ hand' = <<>> /\ queue' = queue
  BY DEF WorkerWrite
<1>3. Len(hand) = 1 /\ Head(hand) = hand[1] /\ hand[1] \in JournalOp
  <2>1. hand \in Seq(JournalOp) /\ Len(hand) <= 1
    BY <1>1 DEF TypeOK
  <2>2. Tail(hand) \in Seq(JournalOp) /\ Len(Tail(hand)) = Len(hand) - 1 /\ Len(Tail(hand)) \in Nat
    BY <1>2, <2>1
  <2>3. Len(hand) = 1
    BY <2>1, <2>2
  <2> QED
    BY <2>1, <2>3
<1>4. Pending \in Seq(Entry) /\ Pending' \in Seq(Entry) /\ disk \in Rows
  <2>1. Pending' \in Seq(Entry)
    BY <1>1 DEF TypeOK, Pending, Entry
  <2> QED
    BY <1>1, <2>1, PendingType DEF TypeOK
<1>5. Len(Pending) = Len(Pending') + 1 /\ \A n \in 1..Len(Pending') : Pending'[n] = Pending[n + 1]
  <2>1. queue \in Seq(Entry) /\ hand \in Seq(Entry)
    BY <1>1 DEF TypeOK, Entry
  <2>2. Len(Pending) = 1 + Len(queue) /\ \A n \in 1..Len(queue) : Pending[n + 1] = queue[n]
    <3>1. /\ Len(hand \o queue) = Len(hand) + Len(queue)
          /\ \A n \in 1..Len(queue) : (hand \o queue)[Len(hand) + n] = queue[n]
      BY <2>1
    <3>2. \A n \in 1..Len(queue) : 1 + n = n + 1
      BY <2>1
    <3> QED
      BY <1>3, <3>1, <3>2 DEF Pending
  <2>3. Len(Pending') = Len(queue) /\ \A n \in 1..Len(queue) : Pending'[n] = queue[n]
    BY <1>2, <2>1 DEF Pending
  <2>4. Len(queue) \in Nat
    BY <2>1
  <2> QED
    BY <2>2, <2>3, <2>4
<1>6. Pending[1] = Head(hand)
  <2>1. queue \in Seq(Entry) /\ hand \in Seq(Entry)
    BY <1>1 DEF TypeOK, Entry
  <2> QED
    BY <1>3, <2>1 DEF Pending
<1>7. Replay(disk, Pending) = Replay(Apply(disk, Pending[1]), Pending')
  BY <1>4, <1>5, ReplayFirst
<1>8. Apply(disk, Pending[1]) = disk'
  BY <1>2, <1>3, <1>6, WalAssumption DEF Apply
<1> QED
  BY <1>7, <1>8

\* Without a full queue and a stopped writer no call falls back.
LEMMA NoFallbackStep ==
  ASSUME TypeOK, Undisturbed, NoFallback, Next, NeverFull
  PROVE  NoFallback'
<1> SUFFICES ASSUME NEW u \in Thread
             PROVE  call'[u].pc # "fallback"
  BY DEF NoFallback
<1>1. call[u].pc # "fallback" /\ ~stopEvent /\ call \in [Thread -> CallRecord]
  BY DEF NoFallback, Undisturbed, TypeOK, CallRecord
<1>2. ASSUME NEW t \in Thread, NEW op \in JournalOp, Begin(t, op)
      PROVE  call'[u].pc # "fallback"
  BY <1>1, <1>2 DEF Begin, CallRecord
<1>3. ASSUME NEW t \in Thread, SubmitCheck(t)
      PROVE  call'[u].pc # "fallback"
  BY <1>1, <1>3 DEF SubmitCheck, CallRecord
<1>4. ASSUME NEW t \in Thread, call' = [call EXCEPT ![t] = NoCall]
      PROVE  call'[u].pc # "fallback"
  BY <1>1, <1>4 DEF NoCall, CallRecord
<1>5. ASSUME call' = call
      PROVE  call'[u].pc # "fallback"
  BY <1>1, <1>5
<1>6. \A t \in Thread : ~SubmitFull(t)
  BY DEF NeverFull
<1> QED
  BY <1>2, <1>3, <1>4, <1>5, <1>6
     DEF Next, SubmitPut, FallbackExecute, FallbackRaises, WorkerTake, WorkerWrite, WorkerError,
         WorkerEmpty, WorkerTest, StopSet, StopPut, StopJoined

\* An undisturbed step of the queueing journal is a step of the synchronous one, or none.
LEMMA StepRefines ==
  ASSUME WalInv, WalInv', Undisturbed, Undisturbed', NoFallback, [Next /\ NeverFull]_vars
  PROVE  [Sync!Next]_(Replay(disk, Pending))
<1> DEFINE Same == Replay(disk, Pending)' = Replay(disk, Pending)
<1>1. ASSUME NEW t \in Thread, SubmitPut(t)
      PROVE  Sync!Next
  <2>1. Sync!JournalOp = JournalOp
    BY DEF Sync!JournalOp, JournalOp
  <2> QED
    BY <1>1, <2>1, PutWrites DEF Sync!Next
<1>2. ASSUME WorkerTake
      PROVE  Same
  BY <1>2, TakeStutters DEF Undisturbed
<1>3. ASSUME WorkerWrite
      PROVE  Same
  BY <1>3, WriteStutters
<1>4. ASSUME UNCHANGED <<disk, hand, queue>>
      PROVE  Same
  BY <1>4 DEF Pending
<1>5. ~WorkerError /\ ~StopPut
  <2>1. errors \in Nat
    BY DEF WalInv, TypeOK
  <2> QED
    BY <2>1 DEF Undisturbed, WorkerError, StopPut, stopEvent
<1>6. \A t \in Thread : Next /\ NeverFull => ~SubmitFull(t) /\ ~FallbackExecute(t)
  BY DEF NeverFull, NoFallback, FallbackExecute
<1>7. CASE Next /\ NeverFull
  <2>1. \/ \E t \in Thread : SubmitPut(t)
        \/ WorkerTake \/ WorkerWrite \/ UNCHANGED <<disk, hand, queue>>
    BY <1>5, <1>6, <1>7
    DEF Next, Begin, SubmitCheck, FallbackRaises, WorkerEmpty, WorkerTest, StopSet, StopJoined
  <2> HIDE DEF Same
  <2>2. Sync!Next \/ Same
    BY <1>1, <1>2, <1>3, <1>4, <2>1
  <2> QED
    BY <2>2 DEF Same
<1>8. CASE UNCHANGED vars
  BY <1>4, <1>8 DEF vars
<1> QED
  BY <1>7, <1>8

\* The refinement: as long as put_nowait() finds room, SQLite refuses nothing and the writer is
\* not stopped, the queueing journal is the journal whose calls take effect one after the other.
THEOREM JournalRefines ==
  Spec /\ []Undisturbed /\ [][NeverFull]_vars => ImplementsSyncJournal
<1>1. Init => Sync!Init
  <2> SUFFICES ASSUME Init
               PROVE  Sync!Init
    OBVIOUS
  <2>1. Pending \in Seq(Entry) /\ Len(Pending) = 0 /\ disk = NoRows
    BY DEF Init, Pending
  <2>2. NoRows \in Rows
    BY DEF NoRows, Rows
  <2>3. Replay(disk, Pending) = NoRows
    BY <2>1, <2>2, ReplayToFacts DEF Replay
  <2> QED
    BY <2>3 DEF Sync!Init, Sync!NoRows, NoRows
<1>2. Init => NoFallback
  BY DEF Init, NoFallback, NoCall
<1>3. WalInv /\ Undisturbed /\ NoFallback /\ [Next]_vars /\ [NeverFull]_vars => NoFallback'
  <2>1. UNCHANGED vars /\ NoFallback => NoFallback'
    BY DEF vars, NoFallback
  <2> QED
    BY <2>1, NoFallbackStep DEF WalInv
<1>4. /\ WalInv /\ WalInv' /\ Undisturbed /\ Undisturbed' /\ NoFallback
      /\ [Next]_vars /\ [NeverFull]_vars
      => [Sync!Next]_(Replay(disk, Pending))
  BY StepRefines
<1> QED
  BY <1>1, <1>2, <1>3, <1>4, WalInvariant, PTL DEF Spec, ImplementsSyncJournal, Sync!Spec
=============================================================================
