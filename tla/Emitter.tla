------------------------------ MODULE Emitter ------------------------------
(***************************************************************************)
(* The audit log of internal/events: handlers Emit events into a buffered  *)
(* channel, one worker collects them into a batch and writes the batch     *)
(* when it is full or a timer fires; an event that finds the channel full  *)
(* is written by its own caller instead.  Errors of both kinds of write    *)
(* are dropped, and so is whatever the process holds when it exits.        *)
(*                                                                         *)
(* Events are numbered in the order in which they are emitted.             *)
(***************************************************************************)
EXTENDS Integers, Sequences, FiniteSets, SequencesExt

CONSTANTS
  Buffer,      \* Config.Buffer, the capacity of the channel
  BatchSize,   \* Config.BatchSize
  MaxEvents,   \* bound on the events emitted
  MaxMishaps   \* bound on failed writes and exits of the process

ASSUME BufferAssumption == Buffer \in Nat \ {0} /\ BatchSize \in Nat \ {0}
ASSUME BoundAssumption == MaxEvents \in Nat /\ MaxMishaps \in Nat

VARIABLES
  emitted,   \* number of events emitted so far
  buf,       \* the channel
  closed,    \* whether it has been closed
  batch,     \* the worker's batch
  worker,    \* "select", "flush" (in InsertMany), "last" flush, or "gone"
  direct,    \* events their callers are writing themselves
  overflow,  \* events that found the channel full (history)
  log,       \* the events collection
  lost,      \* events that will never be written (history)
  mishaps    \* failed writes and exits so far

vars == <<emitted, buf, closed, batch, worker, direct, overflow, log, lost, mishaps>>

\* NewEmitterWithConfig.
Init ==
  /\ emitted = 0
  /\ buf = <<>> /\ closed = FALSE
  /\ batch = <<>> /\ worker = "select"
  /\ direct = {} /\ overflow = {}
  /\ log = <<>> /\ lost = {}
  /\ mishaps = 0

Mishap == mishaps < MaxMishaps /\ mishaps' = mishaps + 1
Flushed == IF batch = <<>> THEN "select" ELSE "flush"

-----------------------------------------------------------------------------
\* Mutant: a full channel drops the event.
EmitOrDrop ==
  /\ ~closed /\ emitted < MaxEvents
  /\ emitted' = emitted + 1
  /\ buf' = IF Len(buf) < Buffer THEN Append(buf, emitted') ELSE buf
  /\ UNCHANGED <<closed, batch, worker, direct, overflow, log, lost, mishaps>>

\* Emit: into the channel if there is room, else the caller goes on to
\* write the event itself.  Emitting into a closed channel panics; nobody
\* closes it while handlers run.
Emit ==
  /\ ~closed /\ emitted < MaxEvents
  /\ emitted' = emitted + 1
  /\ \/ /\ Len(buf) < Buffer
        /\ buf' = Append(buf, emitted')
        /\ UNCHANGED <<direct, overflow>>
     \/ /\ Len(buf) >= Buffer
        /\ direct' = direct \cup {emitted'}
        /\ overflow' = overflow \cup {emitted'}
        /\ UNCHANGED buf
  /\ UNCHANGED <<closed, batch, worker, log, lost, mishaps>>

\* InsertOne with a timeout of two seconds; the error is dropped.
InsertOne(e) ==
  /\ e \in direct
  /\ direct' = direct \ {e}
  /\ \/ log' = Append(log, e) /\ UNCHANGED <<lost, mishaps>>
     \/ Mishap /\ lost' = lost \cup {e} /\ UNCHANGED log
  /\ UNCHANGED <<emitted, buf, closed, batch, worker, overflow>>

\* Mutant: the newest event of the channel comes first.
ReceiveNewest ==
  /\ worker = "select" /\ buf # <<>>
  /\ batch' = Append(batch, Last(buf))
  /\ buf' = Front(buf)
  /\ worker' = IF Len(batch') >= BatchSize THEN "flush" ELSE "select"
  /\ UNCHANGED <<emitted, closed, direct, overflow, log, lost, mishaps>>

\* Mutant: the size of the batch is not looked at.
ReceiveUnbounded ==
  /\ worker = "select" /\ buf # <<>>
  /\ batch' = Append(batch, Head(buf))
  /\ buf' = Tail(buf)
  /\ UNCHANGED <<emitted, closed, worker, direct, overflow, log, lost, mishaps>>

\* The worker takes an event; a full batch is flushed.
Receive ==
  /\ worker = "select" /\ buf # <<>>
  /\ batch' = Append(batch, Head(buf))
  /\ buf' = Tail(buf)
  /\ worker' = IF Len(batch') >= BatchSize THEN "flush" ELSE "select"
  /\ UNCHANGED <<emitted, closed, direct, overflow, log, lost, mishaps>>

\* Mutant: a partial batch waits until it is full.
TimerIdle ==
  /\ worker = "select"
  /\ Len(batch) >= BatchSize
  /\ worker' = "flush"
  /\ UNCHANGED <<emitted, buf, closed, batch, direct, overflow, log, lost, mishaps>>

\* The timer fires; an empty batch is not written.
TimerFires ==
  /\ worker = "select"
  /\ worker' = Flushed
  /\ UNCHANGED <<emitted, buf, closed, batch, direct, overflow, log, lost, mishaps>>

AfterFlush == IF worker = "last" THEN "gone" ELSE "select"

\* Mutant: the batch is not emptied.
FlushKeepingBatch ==
  /\ worker \in {"flush", "last"}
  /\ log' = log \o batch
  /\ worker' = AfterFlush
  /\ UNCHANGED <<emitted, buf, closed, batch, direct, overflow, lost, mishaps>>

\* InsertMany, in order and with a timeout: when it fails, the first n
\* events may have been written.  The batch is emptied all the same.
InsertMany ==
  /\ worker \in {"flush", "last"}
  /\ \/ log' = log \o batch /\ UNCHANGED <<lost, mishaps>>
     \/ /\ Mishap
        /\ \E n \in 0 .. Len(batch) - 1 :
             /\ log' = log \o SubSeq(batch, 1, n)
             /\ lost' = lost \cup {batch[i] : i \in n + 1 .. Len(batch)}
  /\ batch' = <<>>
  /\ worker' = AfterFlush
  /\ UNCHANGED <<emitted, buf, closed, direct, overflow>>

\* Close: the channel is closed and its caller waits for the worker.
Close ==
  /\ ~closed
  /\ closed' = TRUE
  /\ UNCHANGED <<emitted, buf, batch, worker, direct, overflow, log, lost, mishaps>>

\* The worker finds the channel closed and drained: the last flush.
ChannelEnds ==
  /\ worker = "select" /\ closed /\ buf = <<>>
  /\ worker' = IF batch = <<>> THEN "gone" ELSE "last"
  /\ UNCHANGED <<emitted, buf, closed, batch, direct, overflow, log, lost, mishaps>>

\* The server's main returns from its signal with os.Exit and never calls
\* Close; the process is started again with a new emitter.
Exit ==
  /\ Mishap
  /\ lost' = lost \cup ToSet(buf) \cup ToSet(batch) \cup direct
  /\ buf' = <<>> /\ closed' = FALSE
  /\ batch' = <<>> /\ worker' = "select"
  /\ direct' = {}
  /\ UNCHANGED <<emitted, overflow, log>>

Worker == Receive \/ TimerFires \/ InsertMany \/ ChannelEnds

Next ==
  \/ Emit
  \/ \E e \in 1 .. MaxEvents : InsertOne(e)
  \/ Worker
  \/ Close
  \/ Exit

\* Writes return (they have a timeout).  The worker's select takes any case
\* that is ready, at random: a channel with events in it is not passed over
\* for ever, and the timer, reset by each flush, fires again and again.
Fairness ==
  /\ \A e \in 1 .. MaxEvents : WF_vars(InsertOne(e))
  /\ WF_vars(InsertMany)
  /\ SF_vars(Receive)
  /\ SF_vars(TimerFires /\ batch # <<>>)
  /\ SF_vars(ChannelEnds)

Spec == Init /\ [][Next]_vars
FairSpec == Spec /\ Fairness
-----------------------------------------------------------------------------
(* Properties.                                                             *)

Numbers == 1 .. MaxEvents

\* Type invariant: neither the channel nor the batch exceeds its capacity.
TypeOK ==
  /\ emitted \in 0 .. MaxEvents
  /\ buf \in Seq(Numbers) /\ Len(buf) <= Buffer
  /\ closed \in BOOLEAN
  /\ batch \in Seq(Numbers) /\ Len(batch) <= BatchSize
  /\ worker \in {"select", "flush", "last", "gone"}
  /\ direct \subseteq Numbers
  /\ overflow \subseteq Numbers
  /\ log \in Seq(Numbers)
  /\ lost \subseteq Numbers
  /\ mishaps \in 0 .. MaxMishaps

\* Every event that was emitted is written, on its way or lost, and nothing
\* is lost as long as every write succeeds and the process runs.
Accounted ==
  /\ 1 .. emitted = ToSet(log) \cup lost \cup ToSet(buf) \cup ToSet(batch) \cup direct
  /\ mishaps = 0 => lost = {}

\* No event is written twice, and none that counts as lost is written: a
\* flush that failed halfway is not repeated.
WrittenOnce == IsInjective(log) /\ ToSet(log) \cap lost = {}

\* An event its caller wrote may overtake what was waiting when it was
\* emitted: no more than one channel and one batch of events.
OvertakesBounded ==
  \A i \in DOMAIN log :
    log[i] \in overflow =>
      Cardinality({j \in DOMAIN log :
                     i < j /\ log[j] < log[i] /\ log[j] \notin overflow})
        <= Buffer + BatchSize

\* The emitter is the bounded queue EventLog promises: what the worker holds
\* and the channel together behave as one queue, so that events which went
\* through it are written in the order they were emitted, whatever the size
\* of the batches, the timer, the failed writes and the exits.
Queue == INSTANCE EventLog WITH
  Capacity <- Buffer + BatchSize, waiting <- batch \o buf

LogSpec == Queue!Spec

\* Every event is written in the end, unless it is lost.
EventuallyWritten ==
  \A e \in Numbers : e <= emitted ~> e \in ToSet(log) \cup lost
=============================================================================
