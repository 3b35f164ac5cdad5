--------------------------- MODULE PositionsProofs ---------------------------
(***************************************************************************)
(* What the trading loop keeps true of its book, of the quantities its     *)
(* orders executed and of the orders it sends, for any instruments, bars,  *)
(* prices and reasons.                                                     *)
(***************************************************************************)
EXTENDS Positions, IdempotencyProofs

\* Nothing happened to an instrument but that it was given up.
Faithful(n) == drift[n] \subseteq {"given_up"}

\* The executed orders come to what the book says, and to more only after a position was
\* given up.
NetCovers ==
  \A n \in Name : /\ drift[n] = {} => net[n] = book[n].qty
                  /\ Faithful(n) => net[n] >= book[n].qty

\* An order that is still alive, or was filled in part, is known to have made book and
\* executed orders diverge.
AliveIsDrift == \A k \in Key : order[k] \in {"open", "partial"} => ~Faithful(k.name)

\* The loop enters what is not in the book and exits what is.
JobFits ==
  /\ job \in EntryKeys => ~Open(job.name)
  /\ job \in ExitKeys => Open(job.name)
  /\ phase = "monitor" => \A n \in todo : Open(n) /\ (job # NoJob => job.name # n)

\* The invariant of the book.
BookInv == TypeOK /\ IdempotencyInv /\ NetCovers /\ AliveIsDrift /\ JobFits

\* A key the broker was sent is remembered, and the one being worked on was not sent yet.
SentRemembered ==
  /\ \A k \in Key : asked[k] <= 1 /\ (asked[k] > 0 => k \in Remembered)
  /\ job # NoJob => job \in inFlight /\ asked[job] = 0

-----------------------------------------------------------------------------
(***************************************************************************)
(* The keys, the book and the executed quantities.                         *)
(***************************************************************************)
\* The key of an entry is not the key of an exit, and both name their instrument.
LEMMA KeyFacts ==
  ASSUME KeyAssumption
  PROVE  /\ \A n \in Name, b \in Bar : EntryKey(n, b) \in EntryKeys /\ EntryKey(n, b).name = n
         /\ \A n \in Name, p \in Price, r \in Reason :
              ExitKey(n, p, r) \in ExitKeys /\ ExitKey(n, p, r).name = n
         /\ \A k \in EntryKeys : k.name \in Name /\ k.bar \in Bar
         /\ \A k \in ExitKeys : k.name \in Name
         /\ EntryKeys \cap ExitKeys = {} /\ NoJob \notin Key
         /\ Key = EntryKeys \cup ExitKeys
<1>1. \A n, b : EntryKey(n, b).side = "entry" /\ EntryKey(n, b).name = n /\ EntryKey(n, b).bar = b
  BY DEF EntryKey
<1>2. \A n, p, r : ExitKey(n, p, r).side = "exit" /\ ExitKey(n, p, r).name = n
  BY DEF ExitKey
<1>3. NoJob.side = "none"
  BY DEF NoJob
<1>4. \A k \in EntryKeys : k.side = "entry" /\ k.name \in Name /\ k.bar \in Bar
  BY <1>1 DEF EntryKeys
<1>5. \A k \in ExitKeys : k.side = "exit" /\ k.name \in Name
  BY <1>2 DEF ExitKeys
<1>6. \A n \in Name, b \in Bar : EntryKey(n, b) \in EntryKeys
  BY DEF EntryKeys
<1>7. \A n \in Name, p \in Price, r \in Reason : ExitKey(n, p, r) \in ExitKeys
  BY DEF ExitKeys
<1> QED
  BY <1>1, <1>2, <1>3, <1>4, <1>5, <1>6, <1>7 DEF KeyAssumption

Position == [qty : {0, Lot}, price : Price, retries : 0..(ExitRetries - 1)]

\* The position that stands for none is flat.
LEMMA NoPositionFacts ==
  ASSUME PositionsAssumption
  PROVE  NoPosition \in Position /\ NoPosition.qty = 0
<1>1. (CHOOSE p \in Price : TRUE) \in Price
  BY DEF PositionsAssumption
<1> QED
  BY <1>1 DEF NoPosition, Position, PositionsAssumption

\* What the callers of execute_order do to the book: an executed entry is held in full, an
\* exit is out of the book when it succeeded or is given up.
LEMMA AfterAnswerBook ==
  ASSUME PositionsAssumption, KeyAssumption, book \in [Name -> Position],
         NEW k \in Key, NEW status, AfterAnswer(k, status)
  PROVE  /\ book' \in [Name -> Position]
         /\ \A n \in Name : n # k.name => book'[n] = book[n]
         /\ k \in EntryKeys => book'[k.name].qty = IF Executed(status) THEN Lot ELSE book[k.name].qty
         /\ k \in ExitKeys =>
              book'[k.name].qty = IF ExitFailed(k, status) /\ ~GivesUp(k, status)
                                  THEN book[k.name].qty ELSE 0
<1>1. k.name \in Name /\ (k \in EntryKeys => k.bar \in Bar)
  BY KeyFacts
<1>2. CASE k \in EntryKeys
  <2>1. k \notin ExitKeys /\ AfterEntry(k.name, k.bar, status)
    BY <1>2, KeyFacts DEF AfterAnswer
  <2> DEFINE pos == [qty |-> Lot, price |-> PriceOf[k.bar], retries |-> 0]
  <2>2. pos \in Position /\ pos.qty = Lot
    BY <1>1, <1>2 DEF Position, PositionsAssumption
  <2>3. book' = IF Executed(status) THEN [book EXCEPT ![k.name] = pos] ELSE book
    BY <2>1 DEF AfterEntry
  <2> HIDE DEF pos
  <2> QED
    BY <1>1, <1>2, <2>1, <2>2, <2>3
<1>3. CASE k \in ExitKeys
  <2>1. k \notin EntryKeys /\ AfterExit(k, status)
    BY <1>3, KeyFacts DEF AfterAnswer
  <2> DEFINE pos == CleanupPositionEntry(k.name, ExitFailed(k, status))
  <2>2. book' = [book EXCEPT ![k.name] = pos]
    BY <2>1 DEF AfterExit
  <2>3. book[k.name] \in Position /\ book[k.name].retries \in 0..(ExitRetries - 1)
    BY <1>1 DEF Position
  <2>4. CASE ExitFailed(k, status) /\ book[k.name].retries + 1 < ExitRetries
    <3>1. pos = [book[k.name] EXCEPT !.retries = book[k.name].retries + 1]
      BY <2>4 DEF CleanupPositionEntry
    <3>2. pos \in Position /\ pos.qty = book[k.name].qty
      <4>1. book[k.name].retries + 1 \in 0..(ExitRetries - 1)
        BY <2>3, <2>4 DEF PositionsAssumption
      <4> QED
        BY <2>3, <3>1, <4>1 DEF Position
    <3>3. ~GivesUp(k, status)
      BY <2>3, <2>4 DEF GivesUp, PositionsAssumption
    <3> HIDE DEF pos
    <3> QED
      BY <1>1, <1>3, <2>1, <2>2, <2>4, <3>2, <3>3
  <2>5. CASE ~(ExitFailed(k, status) /\ book[k.name].retries + 1 < ExitRetries)
    <3>1. pos = NoPosition
      BY <2>5 DEF CleanupPositionEntry
    <3>2. ~(ExitFailed(k, status) /\ ~GivesUp(k, status))
      BY <1>3, <2>3, <2>5 DEF GivesUp, PositionsAssumption
    <3> HIDE DEF pos
    <3> QED
      BY <1>1, <1>3, <2>1, <2>2, <3>1, <3>2, NoPositionFacts
  <2> QED
    BY <2>4, <2>5
<1> QED
  BY <1>2, <1>3, KeyFacts

\* Causes are noted for one instrument and never removed.
LEMMA NoteFacts ==
  ASSUME drift \in [Name -> SUBSET Drift], NEW n \in Name, NEW causes \in SUBSET Drift, Note(n, causes)
  PROVE  /\ drift' \in [Name -> SUBSET Drift]
         /\ drift'[n] = drift[n] \cup causes
         /\ \A m \in Name : m # n => drift'[m] = drift[m]
         /\ \A m \in Name : Faithful(m)' => Faithful(m)
         /\ Faithful(n)' => causes \subseteq {"given_up"}
<1>1. drift'[n] = drift[n] \cup causes /\ \A m \in Name : m # n => drift'[m] = drift[m]
  BY DEF Note
<1>2. drift' \in [Name -> SUBSET Drift]
  BY DEF Note
<1> QED
  BY <1>1, <1>2 DEF Faithful

\* An answer keeps the executed quantities covering the book when every cause of divergence is noted:
\* without one, a whole lot was traded exactly when the caller was told so.
LEMMA AnswerCovers ==
  ASSUME PositionsAssumption, KeyAssumption, book \in [Name -> Position], net \in [Name -> Int],
         drift \in [Name -> SUBSET Drift], NetCovers,
         NEW k \in Key, NEW status, AfterAnswer(k, status),
         k \in EntryKeys => ~Open(k.name), k \in ExitKeys => Open(k.name),
         NEW causes \in SUBSET Drift, Note(k.name, causes),
         GivesUp(k, status) => "given_up" \in causes,
         NEW qty \in Nat,
         \A n \in Name : n # k.name => net'[n] = net[n],
         net'[k.name] = IF k \in EntryKeys THEN net[k.name] + qty ELSE net[k.name] - qty,
         causes \subseteq {"given_up"} =>
           /\ qty = IF Executed(status) THEN Lot ELSE 0
           /\ Executed(status) => k \in EntryKeys \/ ~ExitFailed(k, status)
  PROVE  NetCovers'
<1>1. k.name \in Name
  BY KeyFacts
<1>2. /\ \A n \in Name : n # k.name => book'[n] = book[n]
      /\ k \in EntryKeys => book'[k.name].qty = IF Executed(status) THEN Lot ELSE book[k.name].qty
      /\ k \in ExitKeys => book'[k.name].qty = IF ExitFailed(k, status) /\ ~GivesUp(k, status)
                                               THEN book[k.name].qty ELSE 0
  BY AfterAnswerBook
<1>3. /\ drift'[k.name] = drift[k.name] \cup causes
      /\ \A n \in Name : n # k.name => drift'[n] = drift[n]
  BY <1>1, NoteFacts
<1>4. \A n \in Name : book[n].qty \in {0, Lot} /\ net[n] \in Int
  BY DEF Position
<1>5. ~Executed(status) => ExitFailed(k, status)
  BY DEF ExitFailed
<1>6. ASSUME NEW n \in Name
      PROVE  /\ drift'[n] = {} => net'[n] = book'[n].qty
             /\ Faithful(n)' => net'[n] >= book'[n].qty
  <2>1. CASE n # k.name
    BY <1>2, <1>3, <2>1 DEF NetCovers, Faithful
  <2>2. CASE n = k.name
    <3>1. CASE ~(causes \subseteq {"given_up"})
      BY <1>3, <2>2, <3>1 DEF Faithful
    <3>2. CASE causes \subseteq {"given_up"}
      <4>1. Faithful(n)' => Faithful(n)
        BY <1>3, <2>2 DEF Faithful
      <4>2. drift'[n] = {} => drift[n] = {} /\ causes = {}
        BY <1>3, <2>2
      <4>3. /\ drift[n] = {} => net[n] = book[n].qty
            /\ Faithful(n) => net[n] >= book[n].qty
        BY DEF NetCovers
      <4>4. CASE k \in EntryKeys
        <5>1. book[n].qty = 0
          BY <1>4, <2>2, <4>4 DEF Open, Lot
        <5> QED
          BY <1>2, <1>4, <2>2, <3>2, <4>1, <4>2, <4>3, <4>4, <5>1 DEF Lot
      <4>5. CASE k \notin EntryKeys
        <5>1. k \in ExitKeys
          BY <4>5, KeyFacts
        <5>2. book[n].qty = Lot
          BY <1>4, <2>2, <5>1 DEF Open, Lot
        <5>3. CASE Executed(status)
          <6>1. book'[n].qty = 0 /\ net'[n] = net[n] - Lot
            BY <1>2, <2>2, <3>2, <4>5, <5>1, <5>3
          <6> QED
            BY <1>4, <4>1, <4>2, <4>3, <5>2, <6>1 DEF Lot
        <5>4. CASE ~Executed(status)
          <6>1. net'[n] = net[n]
            BY <1>4, <2>2, <3>2, <4>5, <5>4
          <6>2. book'[n].qty = book[n].qty \/ (book'[n].qty = 0 /\ "given_up" \in causes)
            BY <1>2, <1>5, <2>2, <5>1, <5>4
          <6> QED
            BY <1>4, <4>1, <4>2, <4>3, <5>2, <6>1, <6>2 DEF Lot
        <5> QED
          BY <5>3, <5>4
      <4> QED
        BY <4>4, <4>5
    <3> QED
      BY <3>1, <3>2
  <2> QED
    BY <2>1, <2>2
<1> QED
  BY <1>6 DEF NetCovers

-----------------------------------------------------------------------------
(***************************************************************************)
(* The steps of the loop, of the broker and of the halt.                   *)
(***************************************************************************)
Fits(k) == (k \in EntryKeys => ~Open(k.name)) /\ (k \in ExitKeys => Open(k.name))

\* TypeOK without the manager's part.
LoopTypeOK ==
  /\ phase \in {"idle", "enter", "monitor", "ended"} /\ todo \subseteq Name
  /\ job \in Key \cup {NoJob}
  /\ book \in [Name -> Position]
  /\ halted \in BOOLEAN /\ marketOpen \in BOOLEAN
  /\ order \in [Key -> OrderView] /\ net \in [Name -> Int]
  /\ asked \in [Key -> Nat] /\ flat \subseteq ExitKeys
  /\ drift \in [Name -> SUBSET Drift]

\* Type correctness is that of the loop and that of the manager.
LEMMA LoopTypeParts ==
  /\ TypeOK <=> LoopTypeOK /\ IdempotencyTypeOK
  /\ TypeOK' <=> LoopTypeOK' /\ IdempotencyTypeOK'
BY DEF TypeOK, LoopTypeOK, Position

\* The invariant of the book, with the manager's types counted once.
LEMMA BookInvParts ==
  /\ BookInv <=> LoopTypeOK /\ IdempotencyInv /\ NetCovers /\ AliveIsDrift /\ JobFits
  /\ BookInv' <=> LoopTypeOK' /\ IdempotencyInv' /\ NetCovers' /\ AliveIsDrift' /\ JobFits'
BY LoopTypeParts DEF BookInv, IdempotencyInv

\* After an answer the loop works on no order, and what it has yet to visit is untouched.
LEMMA AnswerFits ==
  ASSUME KeyAssumption, JobFits, NEW k \in Key, job' = NoJob, phase' = phase, todo' \subseteq todo,
         todo \subseteq Name,
         phase = "monitor" => k.name \notin todo',
         \A n \in Name : n # k.name => book'[n] = book[n]
  PROVE  JobFits'
<1>1. job' \notin EntryKeys /\ job' \notin ExitKeys
  BY KeyFacts
<1>2. ASSUME phase' = "monitor", NEW n \in todo'
      PROVE  Open(n)'
  BY <1>2 DEF JobFits, Open
<1> QED
  BY <1>1, <1>2 DEF JobFits

\* A step that leaves the orders alone and forgets no cause keeps the alive orders known.
LEMMA AliveKept ==
  ASSUME KeyAssumption, AliveIsDrift, order' = order, \A n \in Name : Faithful(n)' => Faithful(n)
  PROVE  AliveIsDrift'
BY KeyFacts DEF AliveIsDrift

\* execute_order called by the loop: a duplicate is answered, a new key is marked.
LEMMA ExecuteOrderStep ==
  ASSUME PositionsAssumption, KeyAssumption, BookInv, NEW k \in Key, Fits(k), ExecuteOrder(k),
         job = NoJob, phase' = phase, todo' = todo \ {k.name},
         UNCHANGED <<halted, marketOpen, order, net, asked>>
  PROVE  BookInv'
<1>1. LoopTypeOK /\ IdempotencyInv /\ NetCovers /\ AliveIsDrift /\ JobFits
  BY BookInvParts
<1>2. /\ book \in [Name -> Position] /\ net \in [Name -> Int] /\ drift \in [Name -> SUBSET Drift]
      /\ todo \subseteq Name
  BY <1>1 DEF LoopTypeOK
<1>3. k.name \in Name
  BY KeyFacts
<1> DEFINE status == IF GetResult(k) = "NONE" THEN "REJECTED" ELSE GetResult(k)
           causes == (IF Executed(status) THEN {"reused"} ELSE {})
                     \cup (IF GivesUp(k, status) THEN {"given_up"} ELSE {})
<1>4. CASE /\ IsDuplicate(k) /\ UNCHANGED <<flat, job, idempotencyVars>>
           /\ AfterAnswer(k, status) /\ Note(k.name, causes)
  <2> HIDE DEF status
  <2>1. /\ causes \in SUBSET Drift /\ (GivesUp(k, status) => "given_up" \in causes)
        /\ causes \subseteq {"given_up"} => ~Executed(status)
    BY DEF Drift
  <2> HIDE DEF causes
  <2>2. NetCovers'
    <3>1. 0 \in Nat /\ net[k.name] \in Int
      BY <1>2, <1>3
    <3>2. net'[k.name] = IF k \in EntryKeys THEN net[k.name] + 0 ELSE net[k.name] - 0
      BY <3>1
    <3> QED
      BY <1>1, <1>2, <1>4, <2>1, <3>1, <3>2, AnswerCovers DEF Fits
  <2>3. book' \in [Name -> Position] /\ \A n \in Name : n # k.name => book'[n] = book[n]
    BY <1>2, <1>4, AfterAnswerBook
  <2>4. drift' \in [Name -> SUBSET Drift] /\ \A n \in Name : Faithful(n)' => Faithful(n)
    BY <1>2, <1>3, <1>4, <2>1, NoteFacts
  <2>5. LoopTypeOK'
    BY <1>1, <1>4, <2>3, <2>4 DEF LoopTypeOK
  <2>6. JobFits'
    BY <1>1, <1>2, <1>4, <2>3, AnswerFits
  <2>7. IdempotencyInv' /\ AliveIsDrift'
    BY <1>1, <1>4, <2>4, UnchangedCounts, AliveKept
  <2> QED
    BY <2>2, <2>5, <2>6, <2>7, BookInvParts
<1>5. CASE ~IsDuplicate(k) /\ MarkInFlight(k) /\ job' = k /\ UNCHANGED <<book, flat, drift>>
  <2>1. LoopTypeOK'
    BY <1>1, <1>5 DEF LoopTypeOK
  <2>2. IdempotencyInv'
    BY <1>1, <1>5, MarkInFlightKeeps
  <2>3. NetCovers' /\ AliveIsDrift'
    BY <1>1, <1>5 DEF NetCovers, AliveIsDrift, Faithful
  <2>4. JobFits'
    BY <1>1, <1>5 DEF JobFits, Fits, Open
  <2> QED
    BY <2>1, <2>2, <2>3, <2>4, BookInvParts
<1> QED
  BY <1>4, <1>5 DEF ExecuteOrder

\* The order is refused at the gate; the position or the exit attempt is accounted for.
LEMMA GateHaltedStep ==
  ASSUME PositionsAssumption, KeyAssumption, BookInv, GateHalted
  PROVE  BookInv'
<1>1. LoopTypeOK /\ IdempotencyInv /\ NetCovers /\ AliveIsDrift /\ JobFits
  BY BookInvParts
<1>2. /\ book \in [Name -> Position] /\ net \in [Name -> Int] /\ drift \in [Name -> SUBSET Drift]
      /\ todo \subseteq Name /\ job \in Key
  BY <1>1 DEF LoopTypeOK, GateHalted
<1>3. job.name \in Name /\ Fits(job) /\ (phase = "monitor" => job.name \notin todo)
  BY <1>1, <1>2, KeyFacts DEF JobFits, Fits, GateHalted
<1> DEFINE causes == IF GivesUp(job, "REJECTED") THEN {"given_up"} ELSE {}
<1>4. /\ job' = NoJob /\ AfterAnswer(job, "REJECTED") /\ Note(job.name, causes)
      /\ UNCHANGED <<flat, phase, todo, halted, marketOpen, order, net, asked, idempotencyVars>>
  BY DEF GateHalted
<1>5. /\ causes \in SUBSET Drift /\ (GivesUp(job, "REJECTED") => "given_up" \in causes)
      /\ ~Executed("REJECTED")
  BY DEF Drift, Executed
<1> HIDE DEF causes
<1>6. NetCovers'
  <2>1. 0 \in Nat /\ net[job.name] \in Int
    BY <1>2, <1>3
  <2>2. net'[job.name] = IF job \in EntryKeys THEN net[job.name] + 0 ELSE net[job.name] - 0
    BY <1>4, <2>1
  <2> QED
    BY <1>1, <1>2, <1>3, <1>4, <1>5, <2>1, <2>2, AnswerCovers DEF Fits
<1>7. book' \in [Name -> Position] /\ \A n \in Name : n # job.name => book'[n] = book[n]
  BY <1>2, <1>4, AfterAnswerBook
<1>8. drift' \in [Name -> SUBSET Drift] /\ \A n \in Name : Faithful(n)' => Faithful(n)
  BY <1>2, <1>3, <1>4, <1>5, NoteFacts
<1>9. LoopTypeOK'
  BY <1>1, <1>4, <1>7, <1>8 DEF LoopTypeOK
<1>10. JobFits'
  BY <1>1, <1>2, <1>3, <1>4, <1>7, AnswerFits
<1>11. IdempotencyInv' /\ AliveIsDrift'
  BY <1>1, <1>4, <1>8, UnchangedCounts, AliveKept
<1> QED
  BY <1>6, <1>9, <1>10, <1>11, BookInvParts

\* What an execution does to the quantities.
LEMMA TradeFacts ==
  ASSUME KeyAssumption, net \in [Name -> Int], NEW k \in Key, NEW qty \in Int, Trade(k, qty)
  PROVE  /\ net' \in [Name -> Int]
         /\ \A n \in Name : n # k.name => net'[n] = net[n]
         /\ net'[k.name] = IF k \in EntryKeys THEN net[k.name] + qty ELSE net[k.name] - qty
BY KeyFacts DEF Trade

\* Quantities are counted, never negative, and whole for a filled order only.
LEMMA FilledFacts ==
  /\ \A view : Filled(view) \in Nat
  /\ Filled("filled") = Lot /\ Filled("none") = 0
BY DEF Filled, Lot

\* Without a cause of divergence the broker filled the whole order exactly when it said so.
LEMMA CausesFacts ==
  ASSUME NEW k \in Key, NEW status \in {"FILLED", "SUBMITTED", "REJECTED"}, NEW view \in Answers(status)
  PROVE  /\ Causes(k, status, view) \in SUBSET Drift /\ view \in OrderView
         /\ GivesUp(k, status) => "given_up" \in Causes(k, status, view)
         /\ view \in {"open", "partial"} => ~(Causes(k, status, view) \subseteq {"given_up"})
         /\ Causes(k, status, view) \subseteq {"given_up"} =>
              /\ Filled(view) = IF Executed(status) THEN Lot ELSE 0
              /\ Executed(status) => k \in EntryKeys \/ ~ExitFailed(k, status)
<1>1. /\ Causes(k, status, view) \in SUBSET Drift
      /\ GivesUp(k, status) => "given_up" \in Causes(k, status, view)
      /\ Executed(status) /\ view = "partial" => "partial" \in Causes(k, status, view)
      /\ Executed(status) /\ k \in flat' => "flat" \in Causes(k, status, view)
      /\ ~Executed(status) /\ view # "none" => "unreported" \in Causes(k, status, view)
  BY DEF Causes, Drift
<1>2. /\ view \in OrderView
      /\ Executed(status) => view \in {"partial", "filled"}
  BY DEF Answers, OrderView, Executed
<1>3. \A c \in {"partial", "flat", "unreported"} :
        c \in Causes(k, status, view) => ~(Causes(k, status, view) \subseteq {"given_up"})
  OBVIOUS
<1>4. Causes(k, status, view) \subseteq {"given_up"} =>
        /\ Executed(status) => view = "filled" /\ k \notin flat'
        /\ ~Executed(status) => view = "none"
  BY <1>1, <1>2, <1>3
<1>5. view \in {"open", "partial"} => ~(Causes(k, status, view) \subseteq {"given_up"})
  BY <1>4
<1> QED
  BY <1>1, <1>2, <1>4, <1>5, FilledFacts DEF ExitFailed

\* The alive orders stay known when the order that was placed has its causes noted.
LEMMA AlivePlaced ==
  ASSUME KeyAssumption, AliveIsDrift, order \in [Key -> OrderView], NEW k \in Key, NEW view,
         order' = [order EXCEPT ![k] = view],
         view \in {"open", "partial"} => ~Faithful(k.name)',
         \A n \in Name : Faithful(n)' => Faithful(n)
  PROVE  AliveIsDrift'
<1>1. ASSUME NEW j \in Key, order'[j] \in {"open", "partial"}
      PROVE  ~Faithful(j.name)'
  <2>1. j.name \in Name
    BY KeyFacts
  <2>2. CASE j = k
    BY <1>1, <2>2
  <2>3. CASE j # k
    <3>1. ~Faithful(j.name)
      BY <1>1, <2>3 DEF AliveIsDrift
    <3> QED
      BY <2>1, <3>1
  <2> QED
    BY <2>2, <2>3
<1> QED
  BY <1>1 DEF AliveIsDrift

\* The broker answers: book, quantities and causes change together.
LEMMA PlaceOrderStep ==
  ASSUME CacheAssumption, PositionsAssumption, KeyAssumption, BookInv,
         NEW status \in {"FILLED", "SUBMITTED", "REJECTED"}, NEW view \in OrderView,
         PlaceOrder(status, view)
  PROVE  BookInv'
<1>1. LoopTypeOK /\ IdempotencyInv /\ NetCovers /\ AliveIsDrift /\ JobFits
  BY BookInvParts
<1>2. /\ book \in [Name -> Position] /\ net \in [Name -> Int] /\ drift \in [Name -> SUBSET Drift]
      /\ order \in [Key -> OrderView] /\ asked \in [Key -> Nat] /\ flat \subseteq ExitKeys
      /\ todo \subseteq Name /\ job \in Key
  BY <1>1 DEF LoopTypeOK, PlaceOrder
<1>3. job.name \in Name /\ Fits(job) /\ (phase = "monitor" => job.name \notin todo)
  BY <1>1, <1>2, KeyFacts DEF JobFits, Fits, PlaceOrder
<1>4. /\ view \in Answers(status) /\ job' = NoJob
      /\ order' = [order EXCEPT ![job] = view] /\ Trade(job, Filled(view))
      /\ asked' = [asked EXCEPT ![job] = @ + 1]
      /\ AfterAnswer(job, status) /\ Note(job.name, Causes(job, status, view))
      /\ UNCHANGED <<phase, todo, halted, marketOpen>>
  BY DEF PlaceOrder
<1>5. flat' \subseteq ExitKeys
  BY <1>2 DEF PlaceOrder
<1>6. IdempotencyInv'
  <2>1. CASE Executed(status)
    <3>1. ConfirmExecution(job, status) /\ status \in CachedResults
      BY <2>1 DEF PlaceOrder, Executed, CachedResults
    <3> QED
      BY <1>1, <1>2, <3>1, ConfirmExecutionKeeps
  <2>2. CASE ~Executed(status)
    BY <1>1, <2>2, UnchangedCounts DEF PlaceOrder
  <2> QED
    BY <2>1, <2>2
<1> DEFINE causes == Causes(job, status, view)
<1>7. /\ causes \in SUBSET Drift
      /\ GivesUp(job, status) => "given_up" \in causes
      /\ view \in {"open", "partial"} => ~(causes \subseteq {"given_up"})
      /\ causes \subseteq {"given_up"} =>
           /\ Filled(view) = IF Executed(status) THEN Lot ELSE 0
           /\ Executed(status) => job \in EntryKeys \/ ~ExitFailed(job, status)
  BY <1>2, <1>4, CausesFacts
<1>8. Note(job.name, causes)
  BY <1>4
<1> HIDE DEF causes
<1>9. Filled(view) \in Nat /\ Filled(view) \in Int
  BY FilledFacts
<1>10. /\ net' \in [Name -> Int]
       /\ \A n \in Name : n # job.name => net'[n] = net[n]
       /\ net'[job.name] = IF job \in EntryKeys THEN net[job.name] + Filled(view)
                                                    ELSE net[job.name] - Filled(view)
  BY <1>2, <1>4, <1>9, TradeFacts
<1>11. NetCovers'
  BY <1>1, <1>2, <1>3, <1>4, <1>7, <1>8, <1>9, <1>10, AnswerCovers DEF Fits
<1>12. book' \in [Name -> Position] /\ \A n \in Name : n # job.name => book'[n] = book[n]
  BY <1>2, <1>4, AfterAnswerBook
<1>13. PICK k \in Key : k = job
  BY <1>2
<1>14. /\ drift' \in [Name -> SUBSET Drift] /\ \A n \in Name : Faithful(n)' => Faithful(n)
       /\ Faithful(k.name)' => causes \subseteq {"given_up"}
  BY <1>2, <1>3, <1>7, <1>8, <1>13, NoteFacts
<1>15. LoopTypeOK'
  <2>1. order' \in [Key -> OrderView] /\ asked' \in [Key -> Nat]
    BY <1>2, <1>4
  <2> QED
    BY <1>1, <1>4, <1>5, <1>10, <1>12, <1>14, <2>1 DEF LoopTypeOK
<1>16. JobFits'
  BY <1>1, <1>2, <1>3, <1>4, <1>12, AnswerFits
<1>17. AliveIsDrift'
  BY <1>1, <1>2, <1>4, <1>7, <1>13, <1>14, AlivePlaced
<1> QED
  BY <1>6, <1>11, <1>15, <1>16, <1>17, BookInvParts

\* The broker adapter raises: the loop ends and the book stays as it was.
LEMMA PlaceOrderRaisesStep ==
  ASSUME PositionsAssumption, KeyAssumption, BookInv, NEW view \in OrderView, PlaceOrderRaises(view)
  PROVE  BookInv'
<1>1. LoopTypeOK /\ IdempotencyInv /\ NetCovers /\ AliveIsDrift /\ JobFits
  BY BookInvParts
<1>2. /\ book \in [Name -> Position] /\ net \in [Name -> Int] /\ drift \in [Name -> SUBSET Drift]
      /\ order \in [Key -> OrderView] /\ asked \in [Key -> Nat] /\ job \in Key /\ job.name \in Name
  BY <1>1, KeyFacts DEF LoopTypeOK, PlaceOrderRaises
<1> DEFINE causes == IF view = "none" THEN {} ELSE {"unreported"}
<1>3. /\ job' = NoJob /\ phase' = "ended" /\ todo' = {}
      /\ order' = [order EXCEPT ![job] = view] /\ Trade(job, Filled(view))
      /\ asked' = [asked EXCEPT ![job] = @ + 1]
      /\ Note(job.name, causes)
      /\ UNCHANGED <<book, halted, marketOpen, flat, idempotencyVars>>
  BY DEF PlaceOrderRaises
<1>4. causes \in SUBSET Drift /\ (causes \subseteq {"given_up"} <=> view = "none")
  BY DEF Drift
<1> HIDE DEF causes
<1>5. PICK k \in Key : k = job
  BY <1>2
<1>6. /\ drift' \in [Name -> SUBSET Drift] /\ \A n \in Name : Faithful(n)' => Faithful(n)
      /\ Faithful(k.name)' => view = "none"
      /\ \A n \in Name : drift'[n] = {} => drift[n] = {}
  BY <1>2, <1>3, <1>4, <1>5, NoteFacts
<1>7. /\ net' \in [Name -> Int]
      /\ \A n \in Name : n # job.name => net'[n] = net[n]
      /\ view = "none" => net'[job.name] = net[job.name]
  <2>1. Filled(view) \in Int /\ (view = "none" => Filled(view) = 0)
    BY FilledFacts
  <2> QED
    BY <1>2, <1>3, <2>1, TradeFacts
<1>8. NetCovers'
  <2>1. \A n \in Name : drift'[n] = {} => Faithful(n)'
    BY DEF Faithful
  <2>2. \A n \in Name : Faithful(n)' => net'[n] = net[n]
    BY <1>5, <1>6, <1>7
  <2> QED
    BY <1>1, <1>3, <1>6, <2>1, <2>2 DEF NetCovers
<1>9. AliveIsDrift'
  BY <1>1, <1>2, <1>3, <1>5, <1>6, AlivePlaced
<1>10. JobFits'
  BY <1>3, KeyFacts DEF JobFits
<1>11. LoopTypeOK'
  <2>1. order' \in [Key -> OrderView] /\ asked' \in [Key -> Nat]
    BY <1>2, <1>3
  <2> QED
    BY <1>1, <1>3, <1>6, <1>7, <2>1 DEF LoopTypeOK
<1>12. IdempotencyInv'
  BY <1>1, <1>3, UnchangedCounts
<1> QED
  BY <1>8, <1>9, <1>10, <1>11, <1>12, BookInvParts

\* The broker works on an order that is known to be alive.
LEMMA BrokerStep ==
  ASSUME KeyAssumption, BookInv, NEW k \in Key, NEW view \in OrderView, BrokerProgress(k, view)
  PROVE  BookInv'
<1>1. LoopTypeOK /\ IdempotencyInv /\ NetCovers /\ AliveIsDrift /\ JobFits
  BY BookInvParts
<1>2. net \in [Name -> Int] /\ order \in [Key -> OrderView] /\ k.name \in Name
  BY <1>1, KeyFacts DEF LoopTypeOK
<1>3. /\ order[k] \in {"open", "partial"} /\ order' = [order EXCEPT ![k] = view]
      /\ Trade(k, Filled(view) - Filled(order[k]))
      /\ UNCHANGED <<loopVars, book, halted, marketOpen, asked, flat, drift, idempotencyVars>>
  BY DEF BrokerProgress
<1>4. ~Faithful(k.name) /\ \A n \in Name : Faithful(n)' <=> Faithful(n)
  BY <1>1, <1>3 DEF AliveIsDrift, Faithful
<1>5. net' \in [Name -> Int] /\ \A n \in Name : n # k.name => net'[n] = net[n]
  <2>1. Filled(view) \in Nat /\ Filled(order[k]) \in Nat
    BY FilledFacts
  <2>2. Filled(view) - Filled(order[k]) \in Int
    BY <2>1
  <2> QED
    BY <1>2, <1>3, <2>2, TradeFacts
<1>6. NetCovers'
  BY <1>1, <1>3, <1>4, <1>5 DEF NetCovers, Faithful
<1>7. AliveIsDrift'
  BY <1>1, <1>2, <1>3, <1>4, AlivePlaced
<1>8. JobFits'
  BY <1>1, <1>3 DEF JobFits, Open, loopVars
<1>9. LoopTypeOK'
  BY <1>1, <1>2, <1>3, <1>5 DEF LoopTypeOK, loopVars
<1>10. IdempotencyInv'
  BY <1>1, <1>3, UnchangedCounts
<1> QED
  BY <1>6, <1>7, <1>8, <1>9, <1>10, BookInvParts

\* The other steps of the loop and the halt touch neither book, net, orders nor keys.
LEMMA QuietStep ==
  ASSUME PositionsAssumption, KeyAssumption, BookInv,
         StartCycle \/ StartMonitoring \/ EndCycle \/ CycleError \/ HaltChanges \/ MarketChanges
         \/ \E n \in Name : SkipEntry(n) \/ KeepPosition(n)
  PROVE  BookInv'
<1>1. LoopTypeOK /\ IdempotencyInv /\ NetCovers /\ AliveIsDrift /\ JobFits
  BY BookInvParts
<1>2. UNCHANGED <<job, book, order, net, asked, flat, drift, idempotencyVars>>
  BY DEF StartCycle, StartMonitoring, EndCycle, CycleError, HaltChanges, MarketChanges, SkipEntry, KeepPosition, loopVars
<1>3. NetCovers' /\ AliveIsDrift'
  BY <1>1, <1>2 DEF NetCovers, AliveIsDrift, Faithful
<1>4. IdempotencyInv'
  BY <1>1, <1>2, UnchangedCounts
<1>5. \A n : Open(n)' <=> Open(n)
  BY <1>2 DEF Open
<1>6. JobFits'
  <2>1. CASE StartCycle \/ EndCycle \/ CycleError
    BY <1>1, <1>2, <1>5, <2>1 DEF JobFits, StartCycle, EndCycle, CycleError
  <2>2. CASE StartMonitoring
    BY <1>1, <1>2, <1>5, <2>2 DEF JobFits, StartMonitoring
  <2>3. CASE HaltChanges \/ MarketChanges
    BY <1>1, <1>2, <1>5, <2>3 DEF JobFits, HaltChanges, MarketChanges, loopVars
  <2>4. CASE \E n \in Name : SkipEntry(n) \/ KeepPosition(n)
    BY <1>1, <1>2, <1>5, <2>4 DEF JobFits, SkipEntry, KeepPosition
  <2> QED
    BY <2>1, <2>2, <2>3, <2>4
<1>7. LoopTypeOK'
  <2>1. phase' \in {"idle", "enter", "monitor", "ended"} /\ todo' \subseteq Name
    BY <1>1 DEF LoopTypeOK, StartCycle, StartMonitoring, EndCycle, CycleError, HaltChanges, MarketChanges, SkipEntry,
                KeepPosition, loopVars
  <2>2. halted' \in BOOLEAN /\ marketOpen' \in BOOLEAN
    <3>1. CASE HaltChanges
      BY <1>1, <3>1 DEF HaltChanges, LoopTypeOK
    <3>2. CASE MarketChanges
      BY <1>1, <3>2 DEF MarketChanges, LoopTypeOK
    <3>3. CASE UNCHANGED <<halted, marketOpen>>
      BY <1>1, <3>3 DEF LoopTypeOK
    <3> QED
      BY <3>1, <3>2, <3>3 DEF StartCycle, StartMonitoring, EndCycle, CycleError, SkipEntry, KeepPosition
  <2> QED
    BY <1>1, <1>2, <2>1, <2>2 DEF LoopTypeOK
<1> QED
  BY <1>3, <1>4, <1>6, <1>7, BookInvParts

\* The loop asks for entries of what it does not hold and for exits of what it holds.
LEMMA AskStep ==
  ASSUME PositionsAssumption, KeyAssumption, BookInv,
         \/ \E n \in Name, r \in Reason : ExitPosition(n, r)
         \/ \E n \in Name, b \in Bar : EnterTrade(n, b)
  PROVE  BookInv'
<1>1. LoopTypeOK /\ JobFits
  BY BookInvParts
<1>2. ASSUME NEW n \in Name, NEW b \in Bar, EnterTrade(n, b)
      PROVE  BookInv'
  <2> DEFINE k == EntryKey(n, b)
  <2>1. k \in Key /\ k.name = n /\ k \notin ExitKeys
    BY KeyFacts
  <2>2. ExecuteOrder(k) /\ ~Open(n) /\ job = NoJob /\ phase' = phase /\ todo' = todo \ {n}
    BY <1>2 DEF EnterTrade
  <2>3. UNCHANGED <<halted, marketOpen, order, net, asked>>
    BY <1>2 DEF EnterTrade
  <2> HIDE DEF k
  <2> QED
    BY <2>1, <2>2, <2>3, ExecuteOrderStep DEF Fits
<1>3. ASSUME NEW n \in Name, NEW r \in Reason, ExitPosition(n, r)
      PROVE  BookInv'
  <2> DEFINE k == ExitKey(n, book[n].price, r)
  <2>1. book[n].price \in Price
    BY <1>1 DEF LoopTypeOK, Position
  <2>2. k \in Key /\ k.name = n /\ k \notin EntryKeys
    BY <2>1, KeyFacts
  <2>3. Open(n)
    BY <1>1, <1>3 DEF ExitPosition, JobFits
  <2>4. ExecuteOrder(k) /\ job = NoJob /\ phase' = phase /\ todo' = todo \ {n}
    BY <1>3 DEF ExitPosition
  <2>5. UNCHANGED <<halted, marketOpen, order, net, asked>>
    BY <1>3 DEF ExitPosition
  <2>6. PICK key \in Key : key = k
    BY <2>2
  <2> HIDE DEF k
  <2> QED
    BY <2>2, <2>3, <2>4, <2>5, <2>6, ExecuteOrderStep DEF Fits
<1> QED
  BY <1>2, <1>3

\* The initial state satisfies the invariant.
LEMMA InitBook ==
  ASSUME PositionsAssumption, KeyAssumption, Init
  PROVE  BookInv
<1>1. LoopTypeOK
  <2>1. book \in [Name -> Position] /\ halted \in BOOLEAN /\ marketOpen \in BOOLEAN /\ drift \in [Name -> SUBSET Drift]
    BY NoPositionFacts DEF Init
  <2> QED
    BY <2>1 DEF Init, LoopTypeOK, OrderView, PositionsAssumption
<1>2. IdempotencyInv
  BY DEF Init, IdempotencyInit, IdempotencyInv, IdempotencyTypeOK, CachedResults, ConfirmedStored,
         Confirmed
<1>3. NetCovers
  BY NoPositionFacts DEF Init, NetCovers
<1>4. AliveIsDrift /\ JobFits
  BY KeyFacts DEF Init, AliveIsDrift, JobFits
<1> QED
  BY <1>1, <1>2, <1>3, <1>4, BookInvParts

\* Every step keeps the invariant.
LEMMA NextBook ==
  ASSUME CacheAssumption, PositionsAssumption, KeyAssumption, BookInv, [Next]_vars
  PROVE  BookInv'
<1>1. CASE Next
  BY <1>1, QuietStep, AskStep, GateHaltedStep, PlaceOrderStep, PlaceOrderRaisesStep, BrokerStep
  DEF Next, LoopStep
<1>2. CASE UNCHANGED vars
  <2>1. IdempotencyInv'
    BY <1>2, UnchangedCounts DEF BookInv, vars
  <2> QED
    BY <1>2, <2>1 DEF BookInv, TypeOK, IdempotencyInv, NetCovers, AliveIsDrift, JobFits,
                      Faithful, Open, vars, loopVars
<1> QED
  BY <1>1, <1>2

-----------------------------------------------------------------------------
\* The invariant of the book holds in every reachable state of the loop.
THEOREM BookInvariant == Spec => []BookInv
BY CacheAssumption, PositionsAssumption, KeyAssumption, InitBook, NextBook, PTL DEF Spec

\* Type correctness of the loop, its book and the orders it sends.
THEOREM LoopTypeCorrect == Spec => []TypeOK
<1>1. BookInv => TypeOK
  BY DEF BookInv
<1> QED
  BY <1>1, BookInvariant, PTL

\* The book agrees with what the orders executed unless one of the five causes of divergence
\* happened.
THEOREM BookAgrees == Spec => []BookMatchesOrders
<1>1. BookInv => BookMatchesOrders
  BY DEF BookInv, NetCovers, BookMatchesOrders
<1> QED
  BY <1>1, BookInvariant, PTL

\* With no other cause than positions given up, exits never execute more than entries did.
THEOREM ExitsAlwaysCovered == Spec => []ExitsCovered
<1>1. BookInv => ExitsCovered
  <2>1. ASSUME BookInv, NEW n \in Name, drift[n] \subseteq {"given_up"}
        PROVE  net[n] >= 0
    <3>1. book[n].qty \in {0, Lot} /\ net[n] \in Int
      BY <2>1 DEF BookInv, TypeOK
    <3>2. net[n] >= book[n].qty
      BY <2>1 DEF BookInv, NetCovers, Faithful
    <3> QED
      BY <3>1, <3>2 DEF Lot
  <2> QED
    BY <2>1 DEF ExitsCovered
<1> QED
  BY <1>1, BookInvariant, PTL

-----------------------------------------------------------------------------
(***************************************************************************)
(* What is sent to the broker.                                             *)
(***************************************************************************)
\* A step that sends nothing and starts no order keeps what was sent remembered.
LEMMA NothingSent ==
  ASSUME SentRemembered, asked' = asked, job' \in {job, NoJob}, Remembered \subseteq Remembered',
         inFlight \subseteq inFlight'
  PROVE  SentRemembered'
BY DEF SentRemembered

\* Sending the order of the job: it was remembered and not sent before, and is remembered.
LEMMA OneMoreSent ==
  ASSUME SentRemembered, asked \in [Key -> Nat], job \in Key, job # NoJob, job' = NoJob,
         asked' = [asked EXCEPT ![job] = @ + 1], Remembered \cup {job} \subseteq Remembered'
  PROVE  SentRemembered'
<1>1. asked[job] = 0
  BY DEF SentRemembered
<1>2. asked'[job] = 1 /\ \A k \in Key : k # job => asked'[k] = asked[k]
  BY <1>1
<1> QED
  BY <1>2 DEF SentRemembered

\* Every step keeps the keys of the orders that were sent, when the cache has room for all.
LEMMA SentStep ==
  ASSUME CacheAssumption, KeyAssumption, PositionsAssumption, Cardinality(Key) <= CacheSize,
         BookInv, SentRemembered, [Next]_vars
  PROVE  SentRemembered'
<1>1. LoopTypeOK /\ IdempotencyInv
  BY BookInvParts
<1>2. ASSUME UNCHANGED idempotencyVars
      PROVE  Remembered' = Remembered /\ inFlight' = inFlight
  BY <1>2 DEF idempotencyVars, Remembered, Confirmed
<1>3. ASSUME NEW k \in Key, ExecuteOrder(k), asked' = asked, job = NoJob
      PROVE  SentRemembered'
  <2>1. CASE UNCHANGED <<flat, job, idempotencyVars>>
    BY <1>2, <1>3, <2>1, NothingSent
  <2>2. CASE ~IsDuplicate(k) /\ MarkInFlight(k) /\ job' = k
    <3>1. Remembered \subseteq Remembered' /\ k \in inFlight'
      BY <2>2 DEF MarkInFlight, Remembered, Confirmed
    <3>2. asked[k] = 0
      BY <1>1, <2>2 DEF SentRemembered, IsDuplicate, LoopTypeOK
    <3> QED
      BY <1>3, <2>2, <3>1, <3>2 DEF SentRemembered
  <2> QED
    BY <1>3, <2>1, <2>2 DEF ExecuteOrder
<1>4. ASSUME NEW n \in Name, NEW b \in Bar, EnterTrade(n, b)
      PROVE  SentRemembered'
  <2>1. EntryKey(n, b) \in Key
    BY KeyFacts
  <2> QED
    BY <1>3, <1>4, <2>1 DEF EnterTrade
<1>5. ASSUME NEW n \in Name, NEW r \in Reason, ExitPosition(n, r)
      PROVE  SentRemembered'
  <2>1. book[n].price \in Price
    BY <1>1 DEF LoopTypeOK, Position
  <2>2. ExitKey(n, book[n].price, r) \in Key
    BY <2>1, KeyFacts
  <2>3. PICK k \in Key : k = ExitKey(n, book[n].price, r)
    BY <2>2
  <2>4. ExecuteOrder(k) /\ asked' = asked /\ job = NoJob
    BY <1>5, <2>3 DEF ExitPosition
  <2> QED
    BY <1>3, <2>4
<1>6. ASSUME NEW status, NEW view, PlaceOrder(status, view)
      PROVE  SentRemembered'
  <2>1. /\ job \in Key /\ job # NoJob /\ asked \in [Key -> Nat] /\ job' = NoJob
        /\ asked' = [asked EXCEPT ![job] = @ + 1]
    BY <1>1, <1>6 DEF LoopTypeOK, PlaceOrder
  <2>2. Remembered \cup {job} \subseteq Remembered'
    <3>1. CASE ConfirmExecution(job, status)
      BY <1>1, <2>1, <3>1, ConfirmForgetsNone
    <3>2. CASE UNCHANGED idempotencyVars
      BY <1>2, <2>1, <3>2 DEF SentRemembered, Remembered
    <3> QED
      BY <1>6, <3>1, <3>2 DEF PlaceOrder
  <2> QED
    BY <2>1, <2>2, OneMoreSent
<1>7. ASSUME NEW view, PlaceOrderRaises(view)
      PROVE  SentRemembered'
  <2>1. /\ job \in Key /\ job # NoJob /\ asked \in [Key -> Nat] /\ job' = NoJob
        /\ asked' = [asked EXCEPT ![job] = @ + 1] /\ UNCHANGED idempotencyVars
    BY <1>1, <1>7 DEF LoopTypeOK, PlaceOrderRaises
  <2>2. Remembered \cup {job} \subseteq Remembered'
    BY <1>2, <2>1 DEF SentRemembered, Remembered
  <2> QED
    BY <2>1, <2>2, OneMoreSent
<1>8. ASSUME asked' = asked, job' \in {job, NoJob}, UNCHANGED idempotencyVars
      PROVE  SentRemembered'
  BY <1>2, <1>8, NothingSent
<1>9. ASSUME \/ StartCycle \/ StartMonitoring \/ EndCycle \/ CycleError \/ HaltChanges \/ MarketChanges \/ GateHalted
             \/ \E n \in Name : SkipEntry(n) \/ KeepPosition(n)
             \/ \E k \in Key, view \in OrderView : BrokerProgress(k, view)
             \/ UNCHANGED vars
      PROVE  asked' = asked /\ job' \in {job, NoJob} /\ UNCHANGED idempotencyVars
  BY <1>9 DEF StartCycle, StartMonitoring, EndCycle, CycleError, HaltChanges, MarketChanges, GateHalted, SkipEntry, KeepPosition,
              BrokerProgress, vars, loopVars
<1> QED
  BY <1>4, <1>5, <1>6, <1>7, <1>8, <1>9 DEF Next, LoopStep

\* With a cache that has room for every key, the broker is sent each order at most once.
THEOREM OrdersSentOnce ==
  ASSUME Cardinality(Key) <= CacheSize
  PROVE  Spec => []SentOnce
<1>1. Init => SentRemembered
  BY DEF Init, SentRemembered
<1>2. BookInv /\ SentRemembered /\ [Next]_vars => SentRemembered'
  BY CacheAssumption, KeyAssumption, PositionsAssumption, SentStep
<1>3. SentRemembered => SentOnce
  BY DEF SentRemembered, SentOnce
<1> QED
  BY <1>1, <1>2, <1>3, BookInvariant, PTL DEF Spec
=============================================================================
