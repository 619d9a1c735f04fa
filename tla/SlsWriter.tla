----------------------------- MODULE SlsWriter -----------------------------
(***************************************************************************)
(* One SLS log sink (rust/src/sls_log.rs): the layer that queues log       *)
(* events, the background writer that batches and uploads them, and the    *)
(* handle through which shutdown asks the writer to finish.                *)
(*                                                                         *)
(* The actors are the application threads (Emit), the writer task, and the *)
(* thread inside install()/uninstall() that owns the layer and the handle. *)
(* The awaited upload is split in two, so that all the others run while it *)
(* is in flight.                                                           *)
(***************************************************************************)
EXTENDS Naturals, Sequences

CONSTANTS Msg,          \* events at INFO or above, the ones the layer forwards
          WarnMsg,      \* the warning the writer logs when an upload fails
          BatchSize,    \* BATCH_SIZE
          MaxEvents,    \* bound: how many times the application emits
          MaxFailures   \* bound: how many uploads fail

ASSUME SlsWriterAssumption ==
    /\ BatchSize \in Nat \ {0}
    /\ MaxEvents \in Nat
    /\ MaxFailures \in Nat

VARIABLES layer,     \* SlsLogLayer: in install's vector, in the slot, dropped
          handle,    \* SlsLogHandle: held, waiting on done_rx, returned, dropped
          signal,    \* shutdown_tx/_rx: nothing, a message, or closed
          queue,     \* the unbounded channel tx/rx
          batch,     \* the writer's Vec
          group,     \* the LogGroup being uploaded
          writer,    \* where the writer task is
          after,     \* where flush_batch returns to
          accepted,  \* history: every entry put in the queue
          settled,   \* history: every entry whose upload ended
          stored,    \* history: every entry in the logstore
          mark,      \* history: how many were accepted at the shutdown request
          events,    \* bound: emissions so far
          failures   \* bound: failed uploads so far

lifecycle == <<layer, handle, signal, mark>>
writing   == <<batch, group, writer, after, settled, stored, failures>>
channel   == <<queue, accepted>>
vars      == <<lifecycle, writing, channel, events>>

Entry == Msg \cup {WarnMsg}

Init ==
    /\ layer = "created"
    /\ handle = "held"
    /\ signal = "none"
    /\ queue = <<>>
    /\ batch = <<>>
    /\ group = <<>>
    /\ writer = "select"
    /\ after = "select"
    /\ accepted = <<>>
    /\ settled = <<>>
    /\ stored = <<>>
    /\ mark = 0
    /\ events = 0
    /\ failures = 0

----------------------------------------------------------------------------
(* The layer, on the threads that log. *)

\* tx.send: it fails, and is ignored, once the writer has dropped rx.
Send(e) ==
    IF writer = "gone"
    THEN UNCHANGED channel
    ELSE /\ queue' = Append(queue, e)
         /\ accepted' = Append(accepted, e)

\* on_event. An event above INFO returns early and changes nothing.
Emit(m) ==
    /\ layer = "installed"
    /\ events < MaxEvents
    /\ events' = events + 1
    /\ Send(m)
    /\ UNCHANGED <<lifecycle, writing>>

----------------------------------------------------------------------------
(* The writer task. *)

\* batch.push; a mutated form of it pushes in front.
PushFront(b, e) == <<e>> \o b
Push(b, e) == Append(b, e)

\* The batch is uploaded once it has BATCH_SIZE entries; mutated: one too late.
FullLate(b) == Len(b) > BatchSize
Full(b) == Len(b) >= BatchSize

\* flush_batch's early return; mutated: forgotten.
NeverEmpty(b) == FALSE
Empty(b) == b = <<>>

\* flush_batch(b) up to its await, returning to `ret`.
Flush(b, ret) ==
    IF Empty(b)
    THEN /\ writer' = ret
         /\ batch' = b
         /\ UNCHANGED <<group, after>>
    ELSE /\ writer' = "put"
         /\ group' = b
         /\ batch' = <<>>
         /\ after' = ret

NoUpload == UNCHANGED <<settled, stored, failures>>

\* select!, an entry: push it, upload a full batch.
Recv ==
    /\ writer = "select"
    /\ queue # <<>>
    /\ queue' = Tail(queue)
    /\ LET b == Push(batch, Head(queue))
       IN  IF Full(b)
           THEN Flush(b, "select")
           ELSE batch' = b /\ UNCHANGED <<group, writer, after>>
    /\ NoUpload
    /\ UNCHANGED <<lifecycle, accepted, events>>

\* select!, rx.recv() = None: every sender is gone and the queue is empty.
RecvClosed ==
    /\ writer = "select"
    /\ queue = <<>>
    /\ layer = "dropped"
    /\ Flush(batch, "exit")
    /\ NoUpload
    /\ UNCHANGED <<lifecycle, channel, events>>

\* What the interval finds worth uploading; mutated: a full batch only.
StaleWhenFull == Full(batch)
Stale == ~Empty(batch)

\* select!, the interval: an empty batch is left alone.
Tick ==
    /\ writer = "select"
    /\ Stale
    /\ Flush(batch, "select")
    /\ NoUpload
    /\ UNCHANGED <<lifecycle, channel, events>>

\* select!, shutdown_rx: a message, or the handle was dropped.
Shutdown ==
    /\ writer = "select"
    /\ signal # "none"
    /\ writer' = "drain"
    /\ NoUpload
    /\ UNCHANGED <<lifecycle, channel, events, batch, group, after>>

\* One turn of the try_recv loop; events keep arriving between the turns.
DrainOne ==
    /\ writer = "drain"
    /\ queue # <<>>
    /\ queue' = Tail(queue)
    /\ batch' = Push(batch, Head(queue))
    /\ NoUpload
    /\ UNCHANGED <<lifecycle, accepted, events, group, writer, after>>

\* The loop ends when try_recv finds nothing; mutated: after any turn.
NotWaitingForMore == TRUE
NothingLeft == queue = <<>>

\* The last flush, of whatever size.
DrainEnd ==
    /\ writer = "drain"
    /\ NothingLeft
    /\ Flush(batch, "exit")
    /\ NoUpload
    /\ UNCHANGED <<lifecycle, channel, events>>

\* put_logs answers.
PutOk ==
    /\ writer = "put"
    /\ settled' = settled \o group
    /\ stored' = stored \o group
    /\ group' = <<>>
    /\ writer' = after
    /\ UNCHANGED <<lifecycle, channel, events, batch, after, failures>>

\* put_logs fails: the entries have left the batch, nothing retries them.
PutFail ==
    /\ writer = "put"
    /\ failures < MaxFailures
    /\ failures' = failures + 1
    /\ settled' = settled \o group
    /\ group' = <<>>
    /\ writer' = "warn"
    /\ UNCHANGED <<lifecycle, channel, events, batch, after, stored>>

\* tracing::warn! about it, which the writer's own layer queues again.
Warn ==
    /\ writer = "warn"
    /\ IF layer = "installed" THEN Send(WarnMsg) ELSE UNCHANGED channel
    /\ writer' = after
    /\ NoUpload
    /\ UNCHANGED <<lifecycle, events, batch, group, after>>

\* Mutated form of Exit: the task goes back to its loop instead of returning.
ExitToLoop ==
    /\ writer = "exit"
    /\ writer' = "select"
    /\ NoUpload
    /\ UNCHANGED <<lifecycle, channel, events, batch, group, after>>

\* done_tx.send, return: rx is dropped with what it still holds.
Exit ==
    /\ writer = "exit"
    /\ writer' = "gone"
    /\ NoUpload
    /\ UNCHANGED <<lifecycle, channel, events, batch, group, after>>

----------------------------------------------------------------------------
(* The layer and the handle, on the thread in install() or uninstall(). *)

\* install(): logs.replace makes the layer reachable.
InstallLayer ==
    /\ layer = "created"
    /\ layer' = "installed"
    /\ UNCHANGED <<handle, signal, mark, writing, channel, events>>

\* install(): the next SLS sink fails, `?` drops log_layers ...
AbortLayer ==
    /\ layer = "created"
    /\ layer' = "dropped"
    /\ UNCHANGED <<handle, signal, mark, writing, channel, events>>

\* ... and then sls_log_handles, which closes the shutdown channel.
AbortHandle ==
    /\ layer = "dropped"
    /\ handle = "held"
    /\ handle' = "dropped"
    /\ signal' = "closed"
    /\ UNCHANGED <<layer, mark, writing, channel, events>>

\* uninstall(): flush_and_shutdown up to block_on(done_rx).
FlushAndShutdown ==
    /\ layer = "installed"
    /\ handle = "held"
    /\ handle' = "waiting"
    /\ signal' = "sent"
    /\ mark' = Len(accepted)
    /\ UNCHANGED <<layer, writing, channel, events>>

\* done_rx resolves when the writer has sent to, or dropped, done_tx.
Return ==
    /\ handle = "waiting"
    /\ writer = "gone"
    /\ handle' = "returned"
    /\ UNCHANGED <<layer, signal, mark, writing, channel, events>>

\* uninstall(): the default layer replaces the sink's, only now.
DropLayer ==
    /\ layer = "installed"
    /\ handle = "returned"
    /\ layer' = "dropped"
    /\ UNCHANGED <<handle, signal, mark, writing, channel, events>>

----------------------------------------------------------------------------
Writer ==
    \/ Recv \/ RecvClosed \/ Tick \/ Shutdown
    \/ DrainOne \/ DrainEnd
    \/ PutOk \/ PutFail \/ Warn \/ Exit

Owner ==
    \/ InstallLayer \/ AbortLayer \/ AbortHandle
    \/ FlushAndShutdown \/ Return \/ DropLayer

Next == (\E m \in Msg : Emit(m)) \/ Writer \/ Owner

Spec == Init /\ [][Next]_vars

(***************************************************************************)
(* tokio polls a task that can run, and select! polls its ready arms in a  *)
(* random order: an arm that is ready again and again is taken (strong     *)
(* fairness).  An upload is assumed to end, one way or the other: the SLS   *)
(* client is not part of this code.  Nothing obliges the application to    *)
(* emit, or to shut down.                                                  *)
(***************************************************************************)
Fairness ==
    /\ SF_vars(Recv) /\ SF_vars(RecvClosed) /\ SF_vars(Tick) /\ SF_vars(Shutdown)
    /\ WF_vars(DrainOne) /\ WF_vars(DrainEnd)
    /\ WF_vars(PutOk \/ PutFail) /\ WF_vars(Warn) /\ WF_vars(Exit)
    /\ WF_vars(AbortHandle) /\ WF_vars(Return) /\ WF_vars(DropLayer)

FairSpec == Spec /\ Fairness

----------------------------------------------------------------------------
(* Properties. *)

\* Types; and flush_batch never uploads an empty group (its early return).
TypeOK ==
    /\ layer \in {"created", "installed", "dropped"}
    /\ handle \in {"held", "waiting", "returned", "dropped"}
    /\ signal \in {"none", "sent", "closed"}
    /\ queue \in Seq(Entry)
    /\ batch \in Seq(Entry)
    /\ group \in Seq(Entry)
    /\ writer \in {"select", "drain", "put", "warn", "exit", "gone"}
    /\ after \in {"select", "exit"}
    /\ accepted \in Seq(Entry)
    /\ settled \in Seq(Entry)
    /\ stored \in Seq(Entry)
    /\ mark \in Nat
    /\ events \in 0 .. MaxEvents
    /\ failures \in 0 .. MaxFailures
    /\ (group # <<>>) <=> (writer = "put")

\* No entry is lost, duplicated or reordered between the layer and the end of
\* its upload, whatever arm of select! moves it: what was accepted is what was
\* settled, then what is being uploaded, then the batch, then the queue.
Conservation == accepted = settled \o group \o batch \o queue

\* shutdown() "gracefully flushes pending data": when flush_and_shutdown
\* returns, all that was queued before the call has been uploaded or has failed.
DrainedAtReturn == handle = "returned" => Len(settled) >= mark

\* BATCH_SIZE bounds every upload but the last one, which takes the whole queue.
BatchBound == after = "select" => Len(group) <= BatchSize

\* The writer is on its way out, the upload of its last batch included.
Draining ==
    \/ writer \in {"drain", "exit", "gone"}
    \/ writer \in {"put", "warn"} /\ after = "exit"

\* The steps that the writer has to take until it is gone, if nobody logs any more.
StepsLeft ==
    CASE writer = "drain" -> Len(queue) + 4
      [] writer = "put"   -> 3
      [] writer = "warn"  -> 2
      [] writer = "exit"  -> 1
      [] OTHER            -> 0

\* A writer that was told to finish never goes back to its loop, though its last upload
\* fails and it logs that to itself; and each of its steps brings it nearer to its end,
\* so that only those who go on logging can keep flush_and_shutdown waiting.
DrainEnds ==
    [][Draining => Draining' /\ (StepsLeft' < StepsLeft \/ UNCHANGED writing)]_vars

\* uninstall() holds the state mutex while it waits: the wait always ends.
ShutdownReturns == (handle = "waiting") ~> (handle = "returned")

\* Without any shutdown, an accepted entry does not wait for ever in the batch.
EventuallySettled ==
    \A n \in 1 .. MaxEvents + MaxFailures :
        (Len(accepted) >= n) ~> (Len(settled) >= n \/ writer = "gone")

\* A writer whose layer and handle were dropped by a failed install() exits.
NoOrphanWriter == (layer = "dropped") ~> (writer = "gone")

\* The sink implements the abstract channel.
ChannelStatus ==
    CASE writer = "gone"   -> "closed"
      [] handle = "waiting" /\ writer # "gone" -> "closing"
      [] OTHER             -> "open"

Channel == INSTANCE LogChannel WITH status <- ChannelStatus

ChannelSpec == Channel!Spec
============================================================================
