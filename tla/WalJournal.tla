----------------------------- MODULE WalJournal ------------------------------
(***************************************************************************)
(* The write-ahead intent journal (core/wal/journal.py) over the queueing  *)
(* SQLite writer (AsyncDbWriter in core/db_utils.py).                      *)
(*                                                                         *)
(* A journal call submits one SQL statement.  submit() looks at the stop   *)
(* event, then puts the statement on a bounded queue; a daemon thread      *)
(* takes statements off the queue and executes them.  When submit()        *)
(* answers False (queue full, or writer stopped) the journal executes the  *)
(* statement itself, on its own connection, at once.                       *)
(***************************************************************************)
EXTENDS Naturals, Sequences, WalRows

CONSTANTS Thread,      \* threads that call the journal
          QueueSize,   \* max_queue_size of the writer
          Sentinel,    \* the None that stop() puts on the queue
          MaxCalls,    \* bound: journal calls each thread makes
          MaxErrors,   \* bound: statements SQLite refuses to the writer thread
          MayClose     \* whether close() is called while threads are active

ASSUME WalAssumption ==
  /\ QueueSize \in Nat \ {0}
  /\ MaxCalls \in Nat /\ MaxErrors \in Nat
  /\ MayClose \in BOOLEAN
  /\ Sentinel \notin JournalOp

VARIABLES
  queue,     \* statements waiting for the writer thread
  hand,      \* the statement the writer thread took and has not committed
  disk,      \* the rows of the intents table
  closing,   \* how far close() is: "no", "event" set, "joining" the thread, "closed"
  worker,    \* "running", "timedout" (get() raised Empty) or "exited"
  errors,    \* _errors: statements the writer thread gave up
  call,      \* the journal call each thread is in
  calls,     \* calls each thread has begun
  journal,   \* history: the rows had every call taken effect when accepted
  late,      \* history: a statement was queued behind the sentinel or after the thread had left
  gap        \* history: a statement was queued since the thread's get() timed out

vars == <<queue, hand, disk, closing, worker, errors, call, calls, journal, late, gap>>

\* _stop_event.is_set()
stopEvent == closing # "no"

NoCall == [pc |-> "idle", op |-> Sentinel]

TypeOK ==
  /\ queue \in Seq(JournalOp \cup {Sentinel}) /\ Len(queue) <= QueueSize
  /\ hand \in Seq(JournalOp) /\ Len(hand) <= 1
  /\ disk \in Rows /\ journal \in Rows
  /\ closing \in {"no", "event", "joining", "closed"}
  /\ late \in BOOLEAN /\ gap \in BOOLEAN
  /\ worker \in {"running", "timedout", "exited"} /\ errors \in Nat
  /\ call \in [Thread -> [pc : {"idle", "submit", "put", "fallback"},
                          op : JournalOp \cup {Sentinel}]]
  /\ calls \in [Thread -> 0..MaxCalls]

Init ==
  /\ queue = <<>> /\ hand = <<>>
  /\ disk = NoRows /\ journal = NoRows
  /\ closing = "no" /\ late = FALSE /\ gap = FALSE
  /\ worker = "running" /\ errors = 0
  /\ call = [t \in Thread |-> NoCall]
  /\ calls = [t \in Thread |-> 0]

-----------------------------------------------------------------------------
(***************************************************************************)
(* Journal calls.  A call obtains the writer under the journal's lock,     *)
(* which close() holds until it is done; close() is the last thing a       *)
(* shutting down process does to the journal, so no call begins after it.  *)
(***************************************************************************)
Begin(t, op) ==
  /\ call[t].pc = "idle" /\ calls[t] < MaxCalls
  /\ ~stopEvent
  /\ call' = [call EXCEPT ![t] = [pc |-> "submit", op |-> op]]
  /\ calls' = [calls EXCEPT ![t] = @ + 1]
  /\ UNCHANGED <<queue, hand, disk, closing, worker, errors, journal, late, gap>>

\* submit() tests the stop event: a stopped writer rejects the statement.
SubmitCheck(t) ==
  /\ call[t].pc = "submit"
  /\ call' = [call EXCEPT ![t].pc = IF stopEvent THEN "fallback" ELSE "put"]
  /\ UNCHANGED <<queue, hand, disk, closing, worker, errors, calls, journal, late, gap>>

\* What is put on the queue now is behind the sentinel, or after the thread left its loop.
Behind == worker = "exited" \/ \E n \in 1..Len(queue) : queue[n] = Sentinel

Accept(t) ==
  /\ journal' = Effect(journal, call[t].op)
  /\ UNCHANGED <<closing, worker, errors, hand, calls>>

\* Mutant: the bound of the queue is off by one.
SubmitPutPastBound(t) ==
  /\ call[t].pc = "put" /\ Len(queue) <= QueueSize
  /\ queue' = Append(queue, call[t].op)
  /\ call' = [call EXCEPT ![t] = NoCall]
  /\ late' = (late \/ Behind)
  /\ gap' = (gap \/ worker = "timedout")
  /\ Accept(t)
  /\ UNCHANGED disk

\* Mutant: a stack instead of a queue.
SubmitPutFront(t) ==
  /\ call[t].pc = "put" /\ Len(queue) < QueueSize
  /\ queue' = <<call[t].op>> \o queue
  /\ call' = [call EXCEPT ![t] = NoCall]
  /\ late' = (late \/ Behind)
  /\ gap' = (gap \/ worker = "timedout")
  /\ Accept(t)
  /\ UNCHANGED disk

\* put_nowait() succeeds: the statement is queued and the call returns.
SubmitPut(t) ==
  /\ call[t].pc = "put" /\ Len(queue) < QueueSize
  /\ queue' = Append(queue, call[t].op)
  /\ call' = [call EXCEPT ![t] = NoCall]
  /\ late' = (late \/ Behind)
  /\ gap' = (gap \/ worker = "timedout")
  /\ Accept(t)
  /\ UNCHANGED disk

\* Mutant: the answer of submit() is ignored and the statement dropped.
SubmitFullDropped(t) ==
  /\ call[t].pc = "put" /\ Len(queue) >= QueueSize
  /\ call' = [call EXCEPT ![t] = NoCall]
  /\ Accept(t)
  /\ UNCHANGED <<queue, disk, late, gap>>

\* put_nowait() raises queue.Full: submit() answers False.
SubmitFull(t) ==
  /\ call[t].pc = "put" /\ Len(queue) >= QueueSize
  /\ call' = [call EXCEPT ![t].pc = "fallback"]
  /\ UNCHANGED <<queue, hand, disk, closing, worker, errors, calls, journal, late, gap>>

\* The journal executes the statement itself, on its own connection and under the lock that
\* close() holds until it is done, and the call returns.
FallbackExecute(t) ==
  /\ call[t].pc = "fallback" /\ closing \in {"no", "closed"}
  /\ disk' = Effect(disk, call[t].op)
  /\ call' = [call EXCEPT ![t] = NoCall]
  /\ Accept(t)
  /\ UNCHANGED <<queue, late, gap>>

\* SQLite refuses the journal's own statement: the call ends with the exception.
FallbackRaises(t) ==
  /\ call[t].pc = "fallback" /\ closing \in {"no", "closed"}
  /\ call' = [call EXCEPT ![t] = NoCall]
  /\ UNCHANGED <<queue, hand, disk, closing, worker, errors, calls, journal, late, gap>>

-----------------------------------------------------------------------------
(***************************************************************************)
(* The writer thread.                                                      *)
(***************************************************************************)
WorkerTake ==
  /\ worker = "running" /\ hand = <<>> /\ queue # <<>>
  /\ queue' = Tail(queue)
  /\ \/ /\ Head(queue) = Sentinel
        /\ worker' = "exited"
        /\ UNCHANGED hand
     \/ /\ Head(queue) # Sentinel
        /\ hand' = <<Head(queue)>>
        /\ UNCHANGED worker
  /\ UNCHANGED <<disk, closing, errors, call, calls, journal, late, gap>>

\* Mutant: the loop is left after a write instead of continued.
WorkerWriteAndBreak ==
  /\ hand # <<>> /\ closing # "closed"
  /\ disk' = Effect(disk, Head(hand))
  /\ hand' = <<>>
  /\ worker' = "exited"
  /\ UNCHANGED <<queue, closing, errors, call, calls, journal, late, gap>>

WorkerWrite ==
  /\ hand # <<>> /\ closing # "closed"
  /\ disk' = Effect(disk, Head(hand))
  /\ hand' = <<>>
  /\ UNCHANGED <<queue, closing, worker, errors, call, calls, journal, late, gap>>

\* SQLite refuses the statement, as it does every one after stop() closed the connection: the
\* error is counted and logged, the statement dropped.
WorkerError ==
  /\ hand # <<>> 
  /\ errors < MaxErrors \/ closing = "closed"
  /\ errors' = errors + 1
  /\ hand' = <<>>
  /\ UNCHANGED <<queue, disk, closing, worker, call, calls, journal, late, gap>>

\* Mutant: the stop event is tested before the queue is drained.
WorkerEmptyUntested ==
  /\ worker = "running" /\ hand = <<>>
  /\ worker' = "timedout"
  /\ UNCHANGED <<queue, hand, disk, closing, errors, call, calls, journal, late, gap>>

\* The queue stayed empty for the poll interval: get() raises Empty.
WorkerEmpty ==
  /\ worker = "running" /\ hand = <<>> /\ queue = <<>>
  /\ worker' = "timedout"
  /\ UNCHANGED <<queue, hand, disk, closing, errors, call, calls, journal, late, gap>>

\* Only then is the stop event tested: leave the loop, or go round again.
WorkerTest ==
  /\ worker = "timedout"
  /\ worker' = IF stopEvent THEN "exited" ELSE "running"
  /\ gap' = (gap /\ stopEvent)
  /\ UNCHANGED <<queue, hand, disk, closing, errors, call, calls, journal, late>>

-----------------------------------------------------------------------------
(***************************************************************************)
(* close() -> stop().                                                      *)
(***************************************************************************)
StopSet ==
  /\ MayClose /\ closing = "no"
  /\ closing' = "event"
  /\ UNCHANGED <<queue, hand, disk, worker, errors, call, calls, journal, late, gap>>

\* put_nowait(None), unless the queue is full.
StopPut ==
  /\ closing = "event"
  /\ closing' = "joining"
  /\ queue' = IF Len(queue) < QueueSize THEN Append(queue, Sentinel) ELSE queue
  /\ UNCHANGED <<hand, disk, worker, errors, call, calls, journal, late, gap>>

\* join() returned, because the thread ended or because of its timeout: the connection is
\* closed under whatever the thread has still to write.
StopJoined ==
  /\ closing = "joining"
  /\ closing' = "closed"
  /\ UNCHANGED <<queue, hand, disk, worker, errors, call, calls, journal, late, gap>>

Next ==
  \/ \E t \in Thread :
       \/ \E op \in JournalOp : Begin(t, op)
       \/ SubmitCheck(t) \/ SubmitPut(t) \/ SubmitFull(t)
       \/ FallbackExecute(t) \/ FallbackRaises(t)
  \/ WorkerTake \/ WorkerWrite \/ WorkerError \/ WorkerEmpty \/ WorkerTest
  \/ StopSet \/ StopPut \/ StopJoined

Spec == Init /\ [][Next]_vars

(***************************************************************************)
(* The writer is a live daemon thread, and a thread inside submit() is     *)
(* never blocked: put_nowait() returns or raises at once.                  *)
(***************************************************************************)
Fairness ==
  /\ WF_vars(WorkerTake) /\ WF_vars(WorkerWrite \/ WorkerError) /\ WF_vars(WorkerTest)
  /\ \A t \in Thread : /\ WF_vars(SubmitCheck(t))
                       /\ WF_vars(SubmitPut(t) \/ SubmitFull(t))
                       /\ WF_vars(FallbackExecute(t) \/ FallbackRaises(t))

FairSpec == Spec /\ Fairness

-----------------------------------------------------------------------------
(***************************************************************************)
(* Properties.                                                             *)
(***************************************************************************)
\* What the writer thread has yet to look at, in the order it will.
Pending == hand \o queue

\* No accepted statement waits.
Drained == \A n \in 1..Len(Pending) : Pending[n] = Sentinel

\* Nobody is at work: no call is under way, and the writer thread has nothing left to do or
\* is gone, with whatever it left in the queue.
Quiescent ==
  /\ \A t \in Thread : call[t] = NoCall
  /\ hand = <<>> /\ (queue = <<>> \/ worker = "exited")

\* The rows after the first n of the waiting statements; the sentinel is none.
ReplayTo(rows, ops) ==
  LET after[n \in 0..Len(ops)] ==
        IF n = 0 THEN rows
        ELSE IF ops[n] = Sentinel THEN after[n - 1] ELSE Effect(after[n - 1], ops[n])
  IN  after

\* The rows once every waiting statement has been executed in order.
Replay(rows, ops) == ReplayTo(rows, ops)[Len(ops)]

Sync == INSTANCE SyncJournal WITH rows <- Replay(disk, Pending)

(***************************************************************************)
(* While the queue never fills, SQLite refuses nothing and the writer is   *)
(* not stopped, the journal implements the synchronous one: the rows on    *)
(* disk, once the queued statements are executed, are the rows an          *)
(* immediate execution in the order of acceptance would have left          *)
(* (submit, _worker).                                                      *)
(***************************************************************************)
ImplementsSyncJournal == Sync!Spec

(***************************************************************************)
(* Every accepted statement is eventually executed: the writer thread      *)
(* empties the queue again and again (_worker).                            *)
(***************************************************************************)
WritesLand == []<>Drained

(***************************************************************************)
(* An intent whose append the journal accepted has a row on disk once      *)
(* nobody is at work on the journal any more, whatever path the statement  *)
(* took: queue, fallback on a full queue, or fallback on a stopped writer  *)
(* (append, _worker).  The exceptions are all there are: a statement the   *)
(* thread counted as an error (SQLite refused it, or stop() had closed the *)
(* connection under it), and the two races of StopDrains.                  *)
(***************************************************************************)
AppendedIsPersisted ==
  Quiescent /\ errors = 0 /\ ~late /\ ~gap
    => \A i \in Intent : journal[i] # "NONE" => disk[i] # "NONE"

(***************************************************************************)
(* What stop() leaves behind (stop, _worker, submit).  A thread that left  *)
(* its loop has emptied the queue, whether the sentinel was queued or      *)
(* found the queue full and whether or not the stop event was set between  *)
(* a submit()'s test of it and its put, but in exactly two cases: a        *)
(* statement was put behind the sentinel or after the thread had left      *)
(* (late), or between the thread's Empty and its test of the stop event    *)
(* (gap).  The comment of _worker, "writes submitted just before stop()    *)
(* are never lost due to a race", overlooks the second.                    *)
(***************************************************************************)
StopDrains == worker = "exited" => (Drained <=> ~late /\ ~gap)
=============================================================================
