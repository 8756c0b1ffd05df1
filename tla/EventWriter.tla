----------------------------- MODULE EventWriter -----------------------------
(***************************************************************************)
(* The eventWriter of device-inventory (cmd/device-inventory/main.go): a   *)
(* channel of bounded depth that never blocks the discovery goroutines,    *)
(* and one goroutine that gathers its events into batches and inserts each *)
(* batch into ClickHouse, when it is full or when the timer fires.         *)
(*                                                                         *)
(* An insert is given up after ten seconds, and the request it leaves      *)
(* behind may be executed yet: after younger batches, or after a restart.  *)
(***************************************************************************)
EXTENDS Naturals, SequencesExt

CONSTANTS
  QueueDepth,  \* the depth newEventWriter is given (1024)
  BatchSize    \* batchSize (100)

ASSUME WriterAssumption == QueueDepth \in Nat \ {0} /\ BatchSize \in Nat \ {0}

VARIABLES
  queue,     \* the channel
  batch,     \* events taken from it and not inserted yet
  flushing,  \* the goroutine is in flush, waiting for ClickHouse
  late,      \* batches given up that ClickHouse may yet insert, or never will
  events     \* the rows of device_events, in the order they were inserted

writerVars == <<queue, batch, flushing, late, events>>

WriterInit ==
  /\ queue    = <<>>
  /\ batch    = <<>>
  /\ flushing = FALSE
  /\ late     = <<>>
  /\ events   = <<>>

-----------------------------------------------------------------------------
\* enqueue: with the channel full the event is dropped (and counted).
Enqueue(e) ==
  /\ queue' = IF Len(queue) < QueueDepth THEN Append(queue, e) ELSE queue
  /\ UNCHANGED <<batch, flushing, late, events>>

\* Fault: the batch is flushed one event too late.
TakeEventOver ==
  /\ ~flushing
  /\ queue # <<>>
  /\ queue' = Tail(queue)
  /\ batch' = Append(batch, Head(queue))
  /\ flushing' = (Len(batch') > BatchSize)
  /\ UNCHANGED <<late, events>>

\* Run: an event joins the batch; a full batch is flushed at once.
TakeEvent ==
  /\ ~flushing
  /\ queue # <<>>
  /\ queue' = Tail(queue)
  /\ batch' = Append(batch, Head(queue))
  /\ flushing' = (Len(batch') >= BatchSize)
  /\ UNCHANGED <<late, events>>

\* The ticker of two seconds.
FlushTimer ==
  /\ ~flushing
  /\ batch # <<>>
  /\ flushing' = TRUE
  /\ UNCHANGED <<queue, batch, late, events>>

\* A batch lands, or is given up.
Leaves(landed) ==
  \/ landed /\ events' = events \o batch /\ UNCHANGED late
  \/ ~landed /\ late' = Append(late, batch) /\ UNCHANGED events

\* Fault: a batch whose insert was given up is kept and sent again.
FlushDoneRetried(landed) ==
  /\ flushing
  /\ Leaves(landed)
  /\ batch' = IF landed THEN <<>> ELSE batch
  /\ flushing' = FALSE
  /\ UNCHANGED queue

\* The insert returns or times out.  Whether the rows landed and what the
\* caller was told are two things, and the batch is emptied whatever it was told.
FlushDone(landed) ==
  /\ flushing
  /\ Leaves(landed)
  /\ batch' = <<>>
  /\ flushing' = FALSE
  /\ UNCHANGED queue

\* ClickHouse executes a request its client has given up.
LateLands ==
  \E i \in 1..Len(late) :
    /\ events' = events \o late[i]
    /\ late' = RemoveAt(late, i)
    /\ UNCHANGED <<queue, batch, flushing>>

\* SIGTERM or a kill: the last flush races main's return, and what is still
\* in the channel goes with the process.
WriterStops(landed) ==
  /\ IF batch = <<>> THEN UNCHANGED <<late, events>> ELSE Leaves(landed)
  /\ queue'    = <<>>
  /\ batch'    = <<>>
  /\ flushing' = FALSE
=============================================================================
