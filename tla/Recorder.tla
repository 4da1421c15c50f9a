------------------------------ MODULE Recorder ------------------------------
(***************************************************************************)
(* The request log's way from a mock handler to the database, and the      *)
(* shutdown of the process around it: the handlers of recordExchanges, the *)
(* Recorder's buffered channel and its Run goroutine                       *)
(* (internal/core/recorder.go), and the end of run in                      *)
(* cmd/restest/main.go.                                                    *)
(*                                                                         *)
(* An exchange is its place in the log, (created_at, id): recordExchanges  *)
(* takes the time, and only then calls Record, so that two handlers may    *)
(* call it in the other order.  The timers of the code (the flush ticker,  *)
(* a write's timeout, the shutdown deadline) are steps that may come at    *)
(* any time; the database and its COPY are external.                       *)
(***************************************************************************)
EXTENDS Naturals, Sequences, FiniteSets

CONSTANTS
    MaxExchanges,   \* how many exchanges the handlers produce, in all
    Buffer,         \* opts.Buffer, the capacity of the channel
    Batch,          \* opts.Batch
    DatabaseFails   \* whether the database ever refuses a batch, or stalls

Exchanges == 1..MaxExchanges

ASSUME MaxExchangesAssumption == MaxExchanges \in Nat
ASSUME BufferAssumption == Buffer \in Nat \ {0}
ASSUME BatchAssumption == Batch \in Nat \ {0}
ASSUME DatabaseAssumption == DatabaseFails \in BOOLEAN
-----------------------------------------------------------------------------
VARIABLES
    request,        \* how far the handler of each exchange is
    queue,          \* the channel
    dropped,        \* r.dropped
    failed,         \* r.failed
    worker,         \* where the Run goroutine is
    batch,          \* its batch
    reported,       \* r.reported, the drop count as of the last warning
    main,           \* where run() is
    cancelled,      \* whether stopRecorder has been called
    clean,          \* whether srv.Shutdown has returned nil
    stored          \* the exchanges in the database

recorderVars == <<request, queue, dropped, failed, worker, batch, reported, main,
          cancelled, clean, stored>>

process == <<main, cancelled, clean>>

Stages == {"none", "serving", "stamped", "recorded"}

Steps == {"select", "writeFull", "writeTick", "drain", "writeLast", "stopped"}

Mains == {"serving", "shutdown", "stop", "wait", "leaving", "exited"}

At(stage) == {e \in Exchanges : request[e] = stage}

Elements(s) == {s[i] : i \in DOMAIN s}

Dropped == dropped + failed

Alive == main # "exited"
-----------------------------------------------------------------------------
(* The handlers.  Requests arrive while the listener is open, and the one  *)
(* that takes the time first has the first place in the log.               *)
Accept(e) ==
    /\ main = "serving"
    /\ request[e] = "none"
    /\ \A f \in 1..(e - 1) : request[f] # "none"
    /\ request' = [request EXCEPT ![e] = "serving"]
    /\ UNCHANGED <<queue, dropped, failed, worker, batch, reported, stored, process>>

Stamp(e) ==
    /\ Alive
    /\ request[e] = "serving"
    /\ \A f \in 1..(e - 1) : request[f] # "serving"
    /\ request' = [request EXCEPT ![e] = "stamped"]
    /\ UNCHANGED <<queue, dropped, failed, worker, batch, reported, stored, process>>

(* Record never blocks: it queues, or counts a drop.                       *)
HasRoomForOneMore == Len(queue) <= Buffer
HasRoom == Len(queue) < Buffer

DropSilently == UNCHANGED dropped
Drop == dropped' = dropped + 1

Record(e) ==
    /\ Alive
    /\ request[e] = "stamped"
    /\ request' = [request EXCEPT ![e] = "recorded"]
    /\ IF HasRoom
       THEN queue' = Append(queue, e) /\ UNCHANGED dropped
       ELSE UNCHANGED queue /\ Drop
    /\ UNCHANGED <<failed, worker, batch, reported, stored, process>>
-----------------------------------------------------------------------------
(* Run: one select over the cancelled context, the queue and the ticker.   *)
Receive ==
    /\ Alive
    /\ worker = "select"
    /\ queue # <<>>
    /\ batch' = Append(batch, Head(queue))
    /\ queue' = Tail(queue)
    /\ worker' = IF Len(batch) + 1 >= Batch THEN "writeFull" ELSE "select"
    /\ UNCHANGED <<request, dropped, failed, reported, stored, process>>

(* reportDrops(false): the interval between two warnings may have passed.  *)
ReportDrops == reported' \in {reported, dropped + failed'}

(* The ticker: a partial batch is written, no batch is only a report.      *)
TickIdle ==
    /\ Alive
    /\ worker = "select"
    /\ batch = <<>>
    /\ UNCHANGED <<request, queue, dropped, failed, worker, batch, stored, process>>
    /\ ReportDrops

TickOnlyReports ==
    /\ Alive
    /\ worker = "select"
    /\ UNCHANGED <<request, queue, dropped, failed, worker, batch, stored, process>>
    /\ ReportDrops

Tick ==
    /\ Alive
    /\ worker = "select"
    /\ batch # <<>>
    /\ worker' = "writeTick"
    /\ UNCHANGED <<request, queue, dropped, failed, batch, reported, stored, process>>

Stop ==
    /\ Alive
    /\ worker = "select"
    /\ cancelled
    /\ worker' = "drain"
    /\ UNCHANGED <<request, queue, dropped, failed, batch, reported, stored, process>>

(* flush: the batch is written, or given up and counted.  A failure that   *)
(* only the client saw leaves the rows in the database all the same.       *)
Written ==
    /\ stored' = stored \union Elements(batch)
    /\ UNCHANGED failed

GivenUp ==
    /\ stored' \in {stored, stored \union Elements(batch)}
    /\ failed' = failed + Len(batch)

BatchKept == UNCHANGED batch
BatchEmptied == batch' = <<>>

(* A batch written from the loop carries the context stopRecorder cancels. *)
FlushInLoop ==
    /\ Alive
    /\ worker \in {"writeFull", "writeTick"}
    /\ Written \/ ((DatabaseFails \/ cancelled) /\ GivenUp)
    /\ BatchEmptied
    /\ IF worker = "writeTick" THEN ReportDrops ELSE UNCHANGED reported
    /\ worker' = "select"
    /\ UNCHANGED <<request, queue, dropped, process>>

(* drain empties the queue without a limit on the batch.                   *)
DrainOne ==
    /\ Alive
    /\ worker = "drain"
    /\ queue # <<>>
    /\ batch' = Append(batch, Head(queue))
    /\ queue' = Tail(queue)
    /\ UNCHANGED <<request, dropped, failed, worker, reported, stored, process>>

QueueLeft == TRUE
QueueEmpty == queue = <<>>

Drained ==
    /\ Alive
    /\ worker = "drain"
    /\ QueueEmpty
    /\ worker' = "writeLast"
    /\ UNCHANGED <<request, queue, dropped, failed, batch, reported, stored, process>>

(* The final flush has a context of its own; reportDrops(true) and the     *)
(* close of done follow.                                                   *)
FlushLast ==
    /\ Alive
    /\ worker = "writeLast"
    /\ Written \/ (batch # <<>> /\ DatabaseFails /\ GivenUp)
    /\ BatchEmptied
    /\ reported' = dropped + failed'
    /\ worker' = "stopped"
    /\ UNCHANGED <<request, queue, dropped, process>>

Run ==
    \/ Receive \/ TickIdle \/ Tick \/ Stop \/ FlushInLoop \/ DrainOne \/ Drained \/ FlushLast
-----------------------------------------------------------------------------
handling == <<request, queue, dropped, failed, worker, batch, reported, stored>>

(* The signal: Shutdown closes the listener and waits for the handlers.    *)
Signal ==
    /\ main = "serving"
    /\ main' = "shutdown"
    /\ UNCHANGED <<cancelled, clean, handling>>

ShutdownReturns ==
    /\ main = "shutdown"
    /\ At("serving") \union At("stamped") = {}
    /\ main' = "stop"
    /\ clean' = TRUE
    /\ UNCHANGED <<cancelled, handling>>

(* The deadline passes, Close drops the connections, and the handlers go   *)
(* on for as long as they do.                                              *)
ShutdownTimesOut ==
    /\ main = "shutdown"
    /\ At("serving") \union At("stamped") # {}
    /\ main' = "stop"
    /\ UNCHANGED <<cancelled, clean, handling>>

WaitWithoutStopping ==
    /\ main = "stop"
    /\ main' = "wait"
    /\ UNCHANGED <<cancelled, clean, handling>>

StopRecorder ==
    /\ main = "stop"
    /\ main' = "wait"
    /\ cancelled' = TRUE
    /\ UNCHANGED <<clean, handling>>

Wait ==
    /\ main = "wait"
    /\ worker = "stopped"
    /\ main' = "exited"
    /\ UNCHANGED <<cancelled, clean, handling>>

(* ListenAndServe fails: run returns, which cancels the recorder and waits *)
(* for nobody.                                                             *)
ServeFails ==
    /\ main = "serving"
    /\ main' = "leaving"
    /\ cancelled' = TRUE
    /\ UNCHANGED <<clean, handling>>

Leave ==
    /\ main = "leaving"
    /\ main' = "exited"
    /\ UNCHANGED <<cancelled, clean, handling>>

Main ==
    \/ Signal \/ ShutdownReturns \/ ShutdownTimesOut \/ StopRecorder \/ Wait
    \/ ServeFails \/ Leave
-----------------------------------------------------------------------------
RecorderInit ==
    /\ request = [e \in Exchanges |-> "none"]
    /\ queue = <<>>
    /\ dropped = 0
    /\ failed = 0
    /\ worker = "select"
    /\ batch = <<>>
    /\ reported = 0
    /\ main = "serving"
    /\ cancelled = FALSE
    /\ clean = FALSE
    /\ stored = {}

Handle(e) == Accept(e) \/ Stamp(e) \/ Record(e)

RecorderNext ==
    \/ \E e \in Exchanges : Handle(e)
    \/ Run
    \/ Main

RecorderSpec == RecorderInit /\ [][RecorderNext]_recorderVars

(* A handler ends (mock delays are bounded), the goroutine runs, its       *)
(* writes have timeouts, and a shutdown once begun has a deadline.         *)
Writes == FlushInLoop \/ DrainOne \/ Drained \/ FlushLast

Exits == ShutdownReturns \/ ShutdownTimesOut \/ StopRecorder \/ Wait \/ Leave

RecorderFairness ==
    /\ \A e \in Exchanges : WF_recorderVars(Stamp(e) \/ Record(e))
    /\ WF_recorderVars(Receive) /\ WF_recorderVars(Tick) /\ WF_recorderVars(Stop)
    /\ WF_recorderVars(Writes) /\ WF_recorderVars(Exits)
-----------------------------------------------------------------------------
RecorderTypeOK ==
    /\ request \in [Exchanges -> Stages]
    /\ queue \in Seq(Exchanges) /\ Len(queue) <= Buffer
    /\ batch \in Seq(Exchanges)
    /\ dropped \in Nat /\ failed \in Nat /\ reported \in Nat
    /\ worker \in Steps
    /\ main \in Mains
    /\ cancelled \in BOOLEAN /\ clean \in BOOLEAN
    /\ stored \in SUBSET Exchanges

Waiting == Elements(queue) \union Elements(batch)

(* No exchange is lost without being counted, and none is in two places:   *)
(* what handlers have handed over is what waits, what is stored and what   *)
(* Dropped() admits to, though the two counters are kept by different      *)
(* goroutines and a write that failed may have been stored after all.      *)
EveryLossIsCounted ==
    /\ Waiting \union stored \subseteq At("recorded")
    /\ Waiting \intersect stored = {}
    /\ Len(queue) + Len(batch) = Cardinality(Waiting)
    /\ LET missing == At("recorded") \ (Waiting \union stored)
       IN  /\ Cardinality(missing) <= Dropped
           /\ Dropped <= Cardinality(At("recorded") \ Waiting)

(* A shutdown that ran out no deadline leaves nothing behind in memory and *)
(* no drop unreported: what the order Shutdown, stopRecorder, Wait in run  *)
(* and the unconditional last report in Run are for.                       *)
CleanExitSettlesAll ==
    main = "exited" /\ clean =>
        /\ queue = <<>> /\ batch = <<>>
        /\ reported = Dropped
        /\ At("serving") \union At("stamped") = {}

(* The strengthening that makes them inductive.   Nothing is twice in    *)
(* the queue and the batch, and only what was recorded is in them.         *)
Distinct(s) == \A i, j \in DOMAIN s : s[i] = s[j] => i = j

HeldOnce ==
    /\ Distinct(queue) /\ Distinct(batch)
    /\ Elements(queue) \intersect Elements(batch) = {}

(* A batch is written because there is one, and is gone when Run ends; Run *)
(* is past its loop only if stopRecorder was called.                       *)
BatchAtWork ==
    /\ worker \in {"writeFull", "writeTick"} => batch # <<>>
    /\ worker = "stopped" => batch = <<>>
    /\ worker \in {"drain", "writeLast", "stopped"} => cancelled

(* A batch that fills is written before another exchange is received: only *)
(* the drain makes one longer than opts.Batch.                             *)
BatchBounded ==
    /\ worker = "select" => Len(batch) < Batch
    /\ worker \notin {"drain", "writeLast"} => Len(batch) <= Batch

(* A clean shutdown is past Shutdown, no handler is left, and so neither   *)
(* the queue that was drained nor the count that was reported moves again. *)
SettledInOrder ==
    /\ cancelled => main \in {"wait", "leaving", "exited"}
    /\ clean =>
          /\ main \in {"stop", "wait", "exited"}
          /\ At("serving") \union At("stamped") = {}
          /\ worker \in {"writeLast", "stopped"} => queue = <<>>
          /\ worker = "stopped" => reported = Dropped
          /\ main = "exited" => worker = "stopped"

RecorderIInv ==
    /\ RecorderTypeOK /\ EveryLossIsCounted /\ HeldOnce
    /\ BatchAtWork /\ BatchBounded /\ SettledInOrder

(* The batches and the queue are an implementation of a log that stores or *)
(* counts every exchange it is handed.                                     *)
Log == INSTANCE RequestLog
    WITH handedOver <- At("recorded"), waiting <- Waiting, lostCount <- Dropped

ImplementsRequestLog == Log!Spec

(* A queued exchange is written or given up in the end, unless the process *)
(* has exited first.                                                       *)
QueuedIsSettled ==
    \A e \in Exchanges : e \in Waiting ~> (e \notin Waiting \/ main = "exited")

(* A shutdown ends: no wait of run for the server or for the recorder, and *)
(* no write of the recorder's, is for ever.                                *)
ShutdownEnds == main = "shutdown" ~> main = "exited"
-----------------------------------------------------------------------------
(* "It is stopped after the server has shut down, so the last requests     *)
(* served are still written" (main.go), given a database that accepts      *)
(* every batch.                                                            *)
LastRequestsWritten ==
    main = "exited" /\ clean /\ ~DatabaseFails => failed = 0
=============================================================================
